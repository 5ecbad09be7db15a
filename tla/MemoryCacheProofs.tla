-------------------------- MODULE MemoryCacheProofs --------------------------
(***************************************************************************)
(* Proofs about the in-memory backend, for any numbers of keys, goroutines *)
(* and stores, any options and any clock.                                  *)
(***************************************************************************)
EXTENDS MemoryCache, TLAPS

USE NeverIsNoInstant, NilIsNoInstant, ConstantsOK

(* What a computed expiry is.                                              *)

LEMMA NewUntilType ==
  ASSUME NEW o \in SetOpts, NEW t \in Int
  PROVE  NewUntil(o, DefaultTTL, t) \in Instants
BY DEF NewUntil, SetOptions, DefaultUntil, TTLUntil, Instants

LEMMA TouchedType ==
  ASSUME NEW o \in GetOpts, NEW t \in Int, NEW u \in Instants
  PROVE  Touched(o, u, DefaultTTL, t) \in Instants
<1>1. /\ o.validUntil \in Instants \cup {Nil}
      /\ o.setTTL \in Int \cup {Nil}
      /\ o.updateTTL \in Int \cup {Nil}
  BY DEF GetOptions
<1> QED
  BY <1>1 DEF Touched, DefaultUntil, Instants

-----------------------------------------------------------------------------
(* Types and pointers.                                                     *)

LEMMA TypeInit == Init => TypeInv
BY DEF Init, TypeInv, TypeOK, Allocated, LockHeld, CallOK, Calls, Idle, At, Pcs, Ops, Instants, Looking

\* What a step owes: the new call record is good, no pointer dangles, and p
\* alone may take or release the lock.
LEMMA Advance ==
  ASSUME TypeInv, NEW p \in Procs, NEW c, CallOK(c), Goto(p, c),
         now' \in 0..MaxTime,
         items' \in [Keys -> Items \cup {Nil}],
         heap' \in [Items -> Instants \cup {Unset}],
         mux' \in Procs \cup {Nil},
         served' \in [Items -> Nat],
         \A i \in Items : heap[i] # Unset => heap'[i] # Unset,
         \A k \in Keys : items'[k] # Nil /\ items'[k] # items[k] => heap'[items'[k]] # Unset,
         c.item # Nil => heap'[c.item] # Unset,
         c.pc = "write" <=> mux' = p,
         mux' = mux \/ (mux = p /\ mux' = Nil) \/ (mux = Nil /\ mux' = p)
  PROVE  TypeInv'
<1>1. /\ c \in Calls
      /\ call' \in [Procs -> Calls]
      /\ call'[p] = c
      /\ \A q \in Procs \ {p} : call'[q] = call[q]
  BY DEF Goto, CallOK, TypeInv, TypeOK
<1>2. TypeOK'
  BY <1>1 DEF TypeInv, TypeOK, CallOK
<1>3. \A k \in Keys : items'[k] # Nil => heap'[items'[k]] # Unset
  BY DEF TypeInv, TypeOK, Allocated
<1>4. \A q \in Procs : call'[q].item # Nil => heap'[call'[q].item] # Unset
  BY <1>1 DEF TypeInv, TypeOK, Allocated, Calls
<1>5. LockHeld'
  BY <1>1 DEF TypeInv, TypeOK, LockHeld
<1> QED
  BY <1>2, <1>3, <1>4, <1>5 DEF TypeInv, Allocated

\* A step that stores nothing and leaves the lock alone.
LEMMA AdvanceQuiet ==
  ASSUME TypeInv, NEW p \in Procs, NEW c, CallOK(c), Goto(p, c),
         call[p].pc # "write", c.pc # "write",
         now' = now, mux' = mux, heap' = heap,
         items' \in [Keys -> Items \cup {Nil}],
         \A k \in Keys : items'[k] \in {items[k], Nil},
         served' \in [Items -> Nat],
         c.item # Nil => heap[c.item] # Unset
  PROVE  TypeInv'
<1>1. /\ now' \in 0..MaxTime
      /\ heap' \in [Items -> Instants \cup {Unset}]
      /\ mux' \in Procs \cup {Nil}
  BY DEF TypeInv, TypeOK
<1>2. c.pc = "write" <=> mux' = p
  BY DEF TypeInv, LockHeld
<1>3. \A k \in Keys : items'[k] # Nil /\ items'[k] # items[k] => heap'[items'[k]] # Unset
  OBVIOUS
<1> QED
  BY <1>1, <1>2, <1>3, Advance

\* The record of a call that is about to return, and of one that found an item.
LEMMA FinishOK ==
  ASSUME NEW pc \in {"miss", "done"}, NEW op \in Ops, NEW k \in Keys \cup {Nil},
         NEW i \in Items \cup {Nil}
  PROVE  /\ CallOK(At(pc, op, k, i))
         /\ At(pc, op, k, i).pc = pc
         /\ At(pc, op, k, i).item = i
BY DEF CallOK, At, Calls, Pcs, Instants, Looking

LEMMA FoundOK ==
  ASSUME NEW op \in {"get", "touch", "take"}, NEW k \in Keys, NEW i \in Items
  PROVE  /\ CallOK(At("clock", op, k, i))
         /\ At("clock", op, k, i).pc = "clock"
         /\ At("clock", op, k, i).item = i
BY DEF CallOK, At, Calls, Pcs, Ops, Instants, Looking

LEMMA SetStep ==
  ASSUME TypeInv, NEW p \in Procs, NEW k \in Keys, NEW o \in SetOpts,
         Set(p, k, o) \/ SetOrFail(p, k, o)
  PROVE  TypeInv'
<1>1. PICK op \in {"set", "setorfail"} : Finish(p, "done", op, Nil, Nil)
  BY DEF Set, SetOrFail
<1>2. UNCHANGED <<items, heap>> \/ Store(k, o)
  BY DEF Set, SetOrFail
<1>3. /\ items' \in [Keys -> Items \cup {Nil}]
      /\ heap' \in [Items -> Instants \cup {Unset}]
      /\ \A i \in Items : heap[i] # Unset => heap'[i] # Unset
      /\ \A l \in Keys : items'[l] # Nil /\ items'[l] # items[l] => heap'[items'[l]] # Unset
  <2>1. CASE UNCHANGED <<items, heap>>
    BY <2>1 DEF TypeInv, TypeOK
  <2>2. CASE Store(k, o)
    <3>1. NewUntil(o, DefaultTTL, now) \in Instants
      BY NewUntilType DEF TypeInv, TypeOK
    <3> QED
      BY <2>2, <3>1 DEF Store, TypeInv, TypeOK
  <2> QED
    BY <1>2, <2>1, <2>2
<1>4. call[p].pc = "idle" /\ UNCHANGED <<now, mux, served>>
  BY DEF Set, SetOrFail, Begins
<1>8. now' \in 0..MaxTime /\ mux' \in Procs \cup {Nil} /\ served' \in [Items -> Nat]
  BY <1>4 DEF TypeInv, TypeOK
<1> DEFINE c == At("done", op, Nil, Nil)
<1>5. CallOK(c) /\ c.item = Nil /\ c.pc = "done"
  BY FinishOK DEF Ops
<1>6. Goto(p, c)
  BY <1>1 DEF Finish
<1>7. mux # p
  BY <1>4 DEF TypeInv, LockHeld
<1> HIDE DEF c
<1> QED
  BY <1>3, <1>4, <1>5, <1>6, <1>7, <1>8, Advance

LEMMA DeleteStep ==
  ASSUME TypeInv, NEW p \in Procs, NEW k \in Keys, Delete(p, k)
  PROVE  TypeInv'
<1> DEFINE c == At("done", "delete", Nil, Nil)
<1>1. CallOK(c) /\ c.pc = "done" /\ c.item = Nil
  BY FinishOK DEF Ops
<1>2. Goto(p, c) /\ call[p].pc = "idle"
  BY DEF Delete, Finish, Begins
<1>3. /\ now' = now /\ mux' = mux /\ heap' = heap
      /\ items' \in [Keys -> Items \cup {Nil}]
      /\ \A l \in Keys : items'[l] \in {items[l], Nil}
      /\ served' \in [Items -> Nat]
  BY DEF Delete, TypeInv, TypeOK
<1> HIDE DEF c
<1> QED
  BY <1>1, <1>2, <1>3, AdvanceQuiet

LEMMA GetReadStep ==
  ASSUME TypeInv, NEW p \in Procs, NEW k \in Keys, GetRead(p, k)
  PROVE  TypeInv'
<1>1. /\ call[p].pc = "idle" /\ now' = now /\ mux' = mux /\ heap' = heap
      /\ items' \in [Keys -> Items \cup {Nil}]
      /\ \A l \in Keys : items'[l] \in {items[l], Nil}
      /\ served' \in [Items -> Nat]
  BY DEF GetRead, Begins, TypeInv, TypeOK
<1>2. CASE items[k] = Nil /\ Finish(p, "miss", "get", k, Nil)
  <2> DEFINE c == At("miss", "get", k, Nil)
  <2>1. Goto(p, c)
    BY <1>2 DEF Finish
  <2>2. CallOK(c) /\ c.pc = "miss" /\ c.item = Nil
    BY FinishOK DEF Ops
  <2> HIDE DEF c
  <2> QED
    BY <1>1, <2>1, <2>2, AdvanceQuiet
<1>3. CASE items[k] # Nil /\ Found(p, "get", k, items[k])
  <2>1. items[k] \in Items /\ heap[items[k]] # Unset
    BY <1>3 DEF TypeInv, TypeOK, Allocated
  <2>2. Goto(p, At("clock", "get", k, items[k]))
    BY <1>3 DEF Found
  <2> QED
    BY <1>1, <2>1, <2>2, FoundOK, AdvanceQuiet
<1> QED
  BY <1>2, <1>3 DEF GetRead

LEMMA GetLockedStep ==
  ASSUME TypeInv, NEW p \in Procs, NEW k \in Keys, NEW o \in GetOpts, GetLocked(p, k, o)
  PROVE  TypeInv'
<1> DEFINE i  == items[k]
           op == IF o.delete THEN "take" ELSE "touch"
<1>1. /\ call[p].pc = "idle" /\ mux = Nil /\ now' = now /\ heap' = heap
      /\ served' \in [Items -> Nat]
  BY DEF GetLocked, Begins, Free, TypeInv, TypeOK
<1>2. i # Nil => i \in Items /\ heap[i] # Unset /\ heap[i] \in Instants
  BY DEF TypeInv, TypeOK, Allocated
<1>3. items \in [Keys -> Items \cup {Nil}] /\ op \in {"touch", "take"}
  BY DEF TypeInv, TypeOK
<1>4. CASE i = Nil /\ Finish(p, "miss", op, k, Nil) /\ UNCHANGED <<items, mux>>
  <2> DEFINE c == At("miss", op, k, Nil)
  <2>1. Goto(p, c) /\ items' = items /\ mux' = mux
    BY <1>4 DEF Finish
  <2>2. CallOK(c) /\ c.pc = "miss" /\ c.item = Nil
    BY <1>3, FinishOK DEF Ops
  <2> HIDE DEF c
  <2> QED
    BY <1>1, <1>3, <2>1, <2>2, AdvanceQuiet
<1>5. CASE i # Nil /\ ~Usable(i) /\ Found(p, op, k, i) /\ UNCHANGED <<items, mux>>
  <2>1. Goto(p, At("clock", op, k, i))
    BY <1>5 DEF Found
  <2> QED
    BY <1>1, <1>2, <1>3, <1>5, <2>1, FoundOK, AdvanceQuiet
<1>6. CASE Usable(i) /\ Take(p, k)
  <2>1. /\ i # Nil /\ mux' = mux /\ Goto(p, At("clock", "take", k, i))
        /\ items' \in [Keys -> Items \cup {Nil}]
        /\ \A l \in Keys : items'[l] \in {items[l], Nil}
    BY <1>3, <1>6 DEF Usable, Take, Found
  <2> QED
    BY <1>1, <1>2, <2>1, FoundOK, AdvanceQuiet
<1>7. CASE Usable(i) /\ Touch(p, k, o)
  <2> DEFINE u == Touched(o, heap[i], DefaultTTL, now)
             c == [At("write", "touch", k, i) EXCEPT !.until = u]
  <2>1. i # Nil /\ mux' = p /\ Goto(p, c) /\ items' = items
    BY <1>7 DEF Usable, Touch
  <2>2. u \in Instants
    BY <1>2, <2>1, TouchedType DEF TypeInv, TypeOK
  <2>3. CallOK(c) /\ c.pc = "write" /\ c.item = i
    BY <1>2, <2>1, <2>2 DEF CallOK, At, Calls, Pcs, Ops, Looking
  <2>4. now' \in 0..MaxTime /\ heap' \in [Items -> Instants \cup {Unset}]
    BY <1>1 DEF TypeInv, TypeOK
  <2> HIDE DEF c
  <2> QED
    BY <1>1, <1>2, <1>3, <2>1, <2>3, <2>4, Advance
<1> QED
  BY <1>4, <1>5, <1>6, <1>7 DEF GetLocked

LEMMA GetWriteStep ==
  ASSUME TypeInv, NEW p \in Procs, GetWrite(p)
  PROVE  TypeInv'
<1> DEFINE i == call[p].item
           c == At("clock", call[p].op, call[p].key, i)
<1>1. /\ call[p].pc = "write" /\ mux = p
      /\ i \in Items /\ heap[i] # Unset
      /\ call[p].until \in Instants /\ call[p].key \in Keys /\ call[p].op = "touch"
  BY DEF GetWrite, TypeInv, TypeOK, Allocated, LockHeld, CallOK, Calls
<1>2. CallOK(c) /\ c.pc = "clock" /\ c.item = i
  BY <1>1, FoundOK
<1>3. Goto(p, c) /\ mux' = Nil /\ Nil # p
  BY DEF GetWrite, Found
<1>4. heap' = [heap EXCEPT ![i] = call[p].until]
  BY DEF GetWrite
<1>5. /\ heap' \in [Items -> Instants \cup {Unset}]
      /\ \A j \in Items : heap[j] # Unset => heap'[j] # Unset
      /\ heap'[i] # Unset
  BY <1>1, <1>4 DEF TypeInv, TypeOK
<1>6. /\ now' \in 0..MaxTime /\ served' \in [Items -> Nat]
      /\ items' = items /\ items' \in [Keys -> Items \cup {Nil}]
  BY DEF GetWrite, TypeInv, TypeOK
<1> HIDE DEF c, i
<1> QED
  BY <1>1, <1>2, <1>3, <1>5, <1>6, Advance

\* The steps of getItem, without the lock.
LEMMA GetItemStep ==
  ASSUME TypeInv, NEW p \in Procs, ReadClock(p) \/ ReadZero(p) \/ ReadAfter(p) \/ Evict(p)
  PROVE  TypeInv'
<1> DEFINE i == call[p].item
<1>1. /\ call[p].pc \in {"clock", "zero", "after", "evict"}
      /\ now' = now /\ mux' = mux /\ heap' = heap
      /\ items' \in [Keys -> Items \cup {Nil}]
      /\ \A l \in Keys : items'[l] \in {items[l], Nil}
  BY DEF ReadClock, ReadZero, ReadAfter, Evict, TypeInv, TypeOK
<1>2. /\ call[p] \in Calls /\ call[p].key \in Keys /\ i \in Items /\ heap[i] # Unset
      /\ call[p].op \in {"get", "touch", "take"}
      /\ now \in Int /\ served \in [Items -> Nat]
  BY <1>1 DEF TypeInv, TypeOK, Allocated, CallOK, Looking
<1>3. served' \in [Items -> Nat]
  <2>1. CASE Hit(p)
    <3>1. [served EXCEPT ![i] = @ + 1] \in [Items -> Nat]
      BY <1>2
    <3> QED
      BY <1>2, <2>1, <3>1 DEF Hit
  <2>2. CASE served' = served
    BY <1>2, <2>2
  <2> QED
    BY <2>1, <2>2 DEF ReadClock, ReadZero, ReadAfter, Evict
<1>4. PICK pc \in {"zero", "after", "evict", "hit", "miss"}, t \in Int :
        \/ Goto(p, At(pc, call[p].op, call[p].key, i)) /\ pc \in {"hit", "miss"}
        \/ Goto(p, [call[p] EXCEPT !.pc = pc, !.t = t])
  <2>1. CASE ReadClock(p)
    BY <2>1, <1>2 DEF ReadClock
  <2>2. CASE (ReadZero(p) \/ ReadAfter(p)) /\ Hit(p)
    BY <2>2 DEF Hit, Finish
  <2>3. CASE ReadZero(p) /\ GotoPc(p, "after")
    <3>1. [call[p] EXCEPT !.pc = "after"] = [call[p] EXCEPT !.pc = "after", !.t = call[p].t]
      BY <1>2 DEF Calls
    <3> QED
      BY <2>3, <3>1, <1>2 DEF GotoPc, Calls
  <2>4. CASE ReadAfter(p) /\ GotoPc(p, "evict")
    <3>1. [call[p] EXCEPT !.pc = "evict"] = [call[p] EXCEPT !.pc = "evict", !.t = call[p].t]
      BY <1>2 DEF Calls
    <3> QED
      BY <2>4, <3>1, <1>2 DEF GotoPc, Calls
  <2>5. CASE Evict(p)
    BY <2>5 DEF Evict, Finish
  <2> QED
    BY <2>1, <2>2, <2>3, <2>4, <2>5 DEF ReadZero, ReadAfter
<1> DEFINE a == At(pc, call[p].op, call[p].key, i)
           b == [call[p] EXCEPT !.pc = pc, !.t = t]
<1>5. pc \in {"hit", "miss"} => CallOK(a) /\ a.pc # "write" /\ a.item = i
  BY <1>2 DEF CallOK, At, Calls, Pcs, Ops, Instants, Looking
<1>6. CallOK(b) /\ b.pc # "write" /\ b.item = i
  BY <1>2 DEF CallOK, Calls, Pcs, Looking
<1>7. (Goto(p, a) /\ pc \in {"hit", "miss"}) \/ Goto(p, b)
  BY <1>4
<1> HIDE DEF a, b, i
<1>8. CASE Goto(p, a) /\ pc \in {"hit", "miss"}
  BY <1>1, <1>2, <1>3, <1>5, <1>8, AdvanceQuiet
<1>9. CASE Goto(p, b)
  BY <1>1, <1>2, <1>3, <1>6, <1>9, AdvanceQuiet
<1> QED
  BY <1>7, <1>8, <1>9

LEMMA SweepsStep ==
  ASSUME TypeInv, NEW p \in Procs,
         \/ \E op \in {"cleanup", "drain"} : SweepStart(p, op)
         \/ Sweep(p)
         \/ Return(p)
  PROVE  TypeInv'
<1>1. /\ call[p].pc # "write" /\ now' = now /\ mux' = mux /\ heap' = heap
      /\ now \in Int /\ call[p] \in Calls
  BY DEF SweepStart, Sweep, Return, TypeInv, TypeOK
<1>2. items' \in [Keys -> Items \cup {Nil}] /\ \A l \in Keys : items'[l] \in {items[l], Nil}
  BY DEF SweepStart, Sweep, Swept, Return, TypeInv, TypeOK
<1>3. served' \in [Items -> Nat]
  BY DEF SweepStart, Sweep, Return, TypeInv, TypeOK
<1>4. CASE \E op \in {"cleanup", "drain"} : SweepStart(p, op)
  <2>1. PICK op \in {"cleanup", "drain"} : Goto(p, [At("sweep", op, Nil, Nil) EXCEPT !.t = now])
    BY <1>4 DEF SweepStart
  <2> DEFINE c == [At("sweep", op, Nil, Nil) EXCEPT !.t = now]
  <2>2. CallOK(c) /\ c.pc # "write" /\ c.item = Nil
    BY <1>1 DEF CallOK, At, Calls, Pcs, Ops, Instants, Looking
  <2> HIDE DEF c
  <2> QED
    BY <1>1, <1>2, <1>3, <2>1, <2>2, AdvanceQuiet DEF c
<1>5. CASE Sweep(p)
  <2>1. Goto(p, At("done", call[p].op, Nil, Nil))
    BY <1>5 DEF Sweep, Finish
  <2>2. CallOK(At("done", call[p].op, Nil, Nil))
    BY <1>1, FinishOK DEF Calls
  <2> QED
    BY <1>1, <1>2, <1>3, <2>1, <2>2, AdvanceQuiet DEF At
<1>6. CASE Return(p)
  <2>1. CallOK(Idle) /\ Idle.pc # "write" /\ Idle.item = Nil /\ Goto(p, Idle)
    BY <1>6 DEF Return, CallOK, Idle, At, Calls, Pcs, Ops, Instants, Looking
  <2> QED
    BY <1>1, <1>2, <1>3, <2>1, AdvanceQuiet
<1> QED
  BY <1>4, <1>5, <1>6

LEMMA TypeStep == TypeInv /\ [Next]_vars => TypeInv'
<1> SUFFICES ASSUME TypeInv, [Next]_vars PROVE TypeInv'
  OBVIOUS
<1>1. CASE Tick
  BY <1>1 DEF Tick, TypeInv, TypeOK, Allocated, LockHeld
<1>2. CASE UNCHANGED vars
  BY <1>2 DEF vars, TypeInv, TypeOK, Allocated, LockHeld
<1>3. ASSUME NEW p \in Procs, Step(p) PROVE TypeInv'
  BY <1>3, SetStep, DeleteStep, GetReadStep, GetLockedStep, GetWriteStep, GetItemStep,
     SweepsStep DEF Step, Invoke, Lockless, Locking
<1> QED
  BY <1>1, <1>2, <1>3 DEF Next

\* Every variable keeps to its values, whatever the callers do.
THEOREM TypeCorrect == Spec => []TypeOK
<1>1. TypeInv => TypeOK
  BY DEF TypeInv
<1> QED
  BY TypeInit, TypeStep, <1>1, PTL DEF Spec

-----------------------------------------------------------------------------
(* Expiry times change under the lock only, one goroutine at a time.       *)

\* No stored expiry changes, nor the lock, nor what its holder is about to do.
Leaves ==
  /\ \A i \in Items : heap[i] # Unset => heap'[i] = heap[i]
  /\ mux' = mux /\ (mux # Nil => call'[mux] = call[mux])

\* Goroutine p takes the lock to change the expiry of a live entry.
Takes(p) ==
  /\ heap' = heap /\ now' = now /\ mux = Nil /\ mux' = p
  /\ \E k \in Keys : items[k] = call'[p].item /\ Usable(items[k])

\* Goroutine p changes the expiry and releases the lock.
Stores(p) ==
  /\ mux = p /\ mux' = Nil /\ now' = now
  /\ heap' = [heap EXCEPT ![call[p].item] = call[p].until]

LEMMA Moves ==
  ASSUME TypeInv, NEW p \in Procs, Step(p)
  PROVE  /\ now' = now /\ Watch
         /\ \A q \in Procs \ {p} : call'[q] = call[q]
<1>1. now' = now /\ Watch /\ \E c : Goto(p, c)
  BY DEF Step, Invoke, Lockless, Locking, Set, SetOrFail, Delete, GetRead, GetLocked, Take,
     Touch, GetWrite, ReadClock, ReadZero, ReadAfter, Hit, Evict, SweepStart, Sweep, Return,
     Finish, Found, GotoPc
<1> QED
  BY <1>1 DEF Goto, TypeInv, TypeOK

LEMMA LockSteps ==
  ASSUME TypeInv, [Next]_vars
  PROVE  Leaves \/ \E p \in Procs : Takes(p) \/ Stores(p)
<1>1. CASE Tick \/ UNCHANGED vars
  BY <1>1 DEF Tick, vars, Leaves
<1>2. ASSUME NEW p \in Procs, Step(p) PROVE Leaves \/ Takes(p) \/ Stores(p)
  <2>1. (mux # Nil /\ mux # p) => call'[mux] = call[mux]
    BY <1>2, Moves DEF TypeInv, TypeOK
  <2>2. CASE GetWrite(p)
    BY <2>2 DEF GetWrite, Stores, TypeInv, LockHeld
  <2>3. ASSUME NEW k \in Keys, NEW o \in GetOpts, GetLocked(p, k, o)
        PROVE  Leaves \/ Takes(p)
    <3>1. mux = Nil /\ heap' = heap /\ now' = now
      BY <2>3 DEF GetLocked, Begins, Free
    <3>2. CASE mux' = mux
      BY <3>1, <3>2 DEF Leaves
    <3>3. CASE Usable(items[k]) /\ Touch(p, k, o)
      <4> DEFINE u == Touched(o, heap[items[k]], DefaultTTL, now)
      <4>1. call'[p] = [At("write", "touch", k, items[k]) EXCEPT !.until = u] /\ mux' = p
        BY <3>3 DEF Touch, Goto, TypeInv, TypeOK
      <4> HIDE DEF u
      <4>2. call'[p].item = items[k]
        BY <4>1 DEF At
      <4> QED
        BY <3>1, <3>3, <4>1, <4>2 DEF Takes
    <3> QED
      BY <2>3, <3>2, <3>3 DEF GetLocked, Take
  <2>4. ASSUME NEW k \in Keys, NEW o \in SetOpts, Set(p, k, o) \/ SetOrFail(p, k, o)
        PROVE  Leaves
    <3>1. mux = Nil /\ mux' = mux
      BY <2>4 DEF Set, SetOrFail, Begins, Free
    <3>2. \A i \in Items : heap[i] # Unset => heap'[i] = heap[i]
      BY <2>4 DEF Set, SetOrFail, Store, TypeInv, TypeOK
    <3> QED
      BY <3>1, <3>2 DEF Leaves
  <2>5. CASE heap' = heap /\ mux' = mux /\ call[p].pc # "write"
    BY <2>1, <2>5 DEF Leaves, TypeInv, LockHeld
  <2> QED
    BY <1>2, <2>2, <2>3, <2>4, <2>5 DEF Step, Invoke, Lockless, Locking, Begins, Delete, GetRead,
       ReadClock, ReadZero, ReadAfter, Evict, SweepStart, Sweep, Return
<1> QED
  BY <1>1, <1>2 DEF Next

LEMMA ClockStep ==
  ASSUME TypeInv, [Next]_vars
  PROVE  now \in Int /\ now' \in Int /\ now <= now'
<1>1. now \in Int /\ now' \in Int
  BY TypeStep DEF TypeInv, TypeOK
<1>2. CASE Tick \/ UNCHANGED vars
  BY <1>1, <1>2 DEF Tick, vars
<1>3. CASE \E p \in Procs : Step(p)
  BY <1>1, <1>3, Moves
<1> QED
  BY <1>1, <1>2, <1>3 DEF Next

\* Once an expiry has passed, nobody changes it.
LEMMA DeadIsFinal ==
  ASSUME TypeInv, [Next]_vars, NEW i \in Items, heap[i] # Unset, heap[i] # Never,
         ~BeingWritten(i), heap[i] < now
  PROVE  heap'[i] = heap[i] /\ ~BeingWritten(i)'
<1>1. heap[i] \in Int /\ now \in Int
  BY DEF TypeInv, TypeOK, Instants
<1>2. CASE Leaves
  BY <1>2 DEF Leaves, BeingWritten
<1>3. ASSUME NEW p \in Procs, Takes(p) PROVE call'[p].item # i
  BY <1>1, <1>3 DEF Takes, Usable, IsExpired, After
<1>4. ASSUME NEW p \in Procs, Stores(p) PROVE heap'[i] = heap[i] /\ mux' = Nil
  BY <1>4 DEF Stores, BeingWritten, TypeInv, TypeOK
<1> QED
  BY <1>2, <1>3, <1>4, LockSteps DEF BeingWritten, Takes

LEMMA DeadStaysDead ==
  ASSUME TypeInv, [Next]_vars, NEW i \in Items, heap[i] # Unset, ~Live(i)
  PROVE  ~Live(i)'
<1>1. /\ Expiry(i) \in Instants /\ heap[i] \in Instants
      /\ Expiry(i) # Never /\ Expiry(i) < now
      /\ now \in Int /\ now' \in Int /\ now <= now'
  BY ClockStep DEF TypeInv, TypeOK, Live, Expiry, BeingWritten, CallOK, Calls, Instants
<1>2. Expiry(i)' = Expiry(i)
  <2>1. CASE Leaves
    BY <2>1 DEF Leaves, Expiry, BeingWritten
  <2>2. ASSUME NEW p \in Procs, Takes(p) PROVE heap'[i] = heap[i] /\ ~BeingWritten(i)'
    BY <2>2, <1>1, DeadIsFinal DEF Takes, Expiry, BeingWritten
  <2>3. ASSUME NEW p \in Procs, Stores(p) PROVE Expiry(i)' = Expiry(i)
    BY <2>3 DEF Stores, Expiry, BeingWritten, TypeInv, TypeOK
  <2> QED
    BY <2>1, <2>2, <2>3, LockSteps DEF Takes, Expiry, BeingWritten
<1> QED
  BY <1>1, <1>2 DEF Live, Instants

\* An expired entry is never revived, whichever Gets race for it.
THEOREM ExpiredStaysExpiredCorrect == Spec => ExpiredStaysExpired
<1>1. TypeInv /\ [Next]_vars =>
        [\A i \in Items : heap[i] # Unset /\ ~Live(i) => ~Live(i)']_vars
  BY DeadStaysDead
<1> QED
  BY TypeInit, TypeStep, <1>1, PTL DEF Spec, ExpiredStaysExpired

-----------------------------------------------------------------------------
(* A hit was there to be found.                                            *)

LEMMA SeenGrows ==
  ASSUME TypeInv, [Next]_vars, NEW q \in Procs, call'[q].op \in {"get", "touch", "take"}
  PROVE  /\ call[q].pc # "idle" => seen[q] \subseteq seen'[q]
         /\ call[q].pc = "idle" /\ call'[q] # call[q] => View[call'[q].key] \in seen'[q]
<1>1. CASE UNCHANGED vars
  BY <1>1 DEF vars
<1>2. CASE Watch
  BY <1>2 DEF Watch, Told
<1>3. Next => Watch
  BY Moves DEF Next, Tick
<1> QED
  BY <1>1, <1>2, <1>3

\* Goroutine p goes on with the operation, the key and the item it has.
Same(p) ==
  /\ call'[p].op = call[p].op /\ call'[p].key = call[p].key /\ call'[p].item = call[p].item

\* Where a step takes its goroutine, and what it keeps of the call.
LEMMA CallMoves ==
  ASSUME TypeInv, NEW p \in Procs, Step(p)
  PROVE  \/ call'[p].pc \in {"idle", "miss", "done"}
         \/ call'[p].pc = "write" /\ call[p].pc = "idle"
         \/ call'[p].pc = "sweep" /\ call'[p].t = now
         \/ call'[p].pc = "clock" /\ call[p].pc = "idle"
         \/ call'[p].pc = "clock" /\ call[p].pc = "write" /\ Same(p)
         \/ call'[p].pc = "zero" /\ call[p].pc = "clock" /\ Same(p) /\ call'[p].t = now
         \/ call'[p].pc = "after" /\ call[p].pc = "zero" /\ Same(p) /\ call'[p].t = call[p].t
         \/ call'[p].pc = "evict" /\ call[p].pc = "after" /\ Same(p)
         \/ call'[p].pc = "hit" /\ (ReadZero(p) \/ ReadAfter(p)) /\ Hit(p) /\ Same(p)
<1>1. call[p] \in Calls /\ \A c : Goto(p, c) => call'[p] = c
  BY DEF Goto, TypeInv, TypeOK
<1>2. CASE \E pc \in {"idle", "miss", "done"} : \E op, k, i : Goto(p, At(pc, op, k, i))
  BY <1>1, <1>2 DEF At
<1>3. CASE call[p].pc = "idle" /\ \E k, i, u : Goto(p, [At("write", "touch", k, i) EXCEPT !.until = u])
  BY <1>1, <1>3 DEF At
<1>4. CASE \E op : SweepStart(p, op)
  BY <1>1, <1>4 DEF SweepStart, At
<1>5. CASE call[p].pc = "idle" /\ \E op, k, i : Found(p, op, k, i)
  BY <1>1, <1>5 DEF Found, At
<1>6. CASE GetWrite(p)
  BY <1>1, <1>6 DEF GetWrite, Found, At, Same
<1>7. CASE ReadClock(p)
  BY <1>1, <1>7 DEF ReadClock, Same, Calls
<1>8. CASE (ReadZero(p) \/ ReadAfter(p)) /\ Hit(p)
  BY <1>1, <1>8 DEF Hit, Finish, At, Same
<1>9. CASE ReadZero(p) /\ GotoPc(p, "after")
  BY <1>1, <1>9 DEF ReadZero, GotoPc, Same, Calls
<1>10. CASE ReadAfter(p) /\ GotoPc(p, "evict")
  BY <1>1, <1>10 DEF ReadAfter, GotoPc, Same, Calls
<1>11. CASE \/ \E k \in Keys, o \in SetOpts : Set(p, k, o) \/ SetOrFail(p, k, o)
            \/ \E k \in Keys : Delete(p, k)
            \/ Evict(p) \/ Sweep(p) \/ Return(p)
  BY <1>2, <1>11 DEF Set, SetOrFail, Delete, Evict, Sweep, Return, Finish, Idle
<1>12. CASE \E k \in Keys : GetRead(p, k)
  BY <1>2, <1>5, <1>12 DEF GetRead, Begins, Finish
<1>13. CASE \E k \in Keys, o \in GetOpts : GetLocked(p, k, o)
  BY <1>2, <1>3, <1>5, <1>13 DEF GetLocked, Begins, Finish, Take, Touch
<1> QED
  BY <1>4, <1>6, <1>7, <1>8, <1>9, <1>10, <1>11, <1>12, <1>13
     DEF Step, Invoke, Lockless, Locking, ReadZero, ReadAfter

LEMMA ReadingsStep ==
  ASSUME TypeInv, ReadingsPast, [Next]_vars
  PROVE  ReadingsPast'
<1> SUFFICES ASSUME NEW q \in Procs, call'[q].pc \in {"zero", "after", "sweep"}
             PROVE  call'[q].t <= now'
  BY DEF ReadingsPast
<1>1. now \in Int /\ now' \in Int /\ now <= now' /\ call[q].t \in Int
  BY ClockStep DEF TypeInv, TypeOK, CallOK, Calls
<1>2. CASE call'[q] = call[q]
  BY <1>1, <1>2 DEF ReadingsPast
<1>3. CASE Step(q)
  <2>1. call'[q].t = now \/ (call[q].pc = "zero" /\ call'[q].t = call[q].t)
    BY <1>3, CallMoves
  <2> QED
    BY <1>1, <2>1 DEF ReadingsPast
<1>4. call'[q] = call[q] \/ Step(q)
  BY Moves DEF Next, Tick, vars
<1> QED
  BY <1>2, <1>3, <1>4

\* A goroutine that found its item expired keeps finding it so.
LEMMA FoundDeadStays ==
  ASSUME TypeInv, ReadingsPast, [Next]_vars, NEW q \in Procs, call[q].pc \in Looking,
         call'[q].pc \in Looking, FoundDead(q), call'[q] = call[q] \/ Step(q)
  PROVE  FoundDead(q)' /\ call'[q].item = call[q].item
<1> DEFINE t == IF call[q].pc = "clock" THEN now ELSE call[q].t
<1>1. PICK i \in Items : i = call[q].item
  BY DEF TypeInv, TypeOK, CallOK, Looking
<1>5. heap[i] # Unset /\ heap[i] \in Int /\ call[q].t \in Int
  BY <1>1 DEF FoundDead, TypeInv, TypeOK, Allocated, CallOK, Calls, Instants, Looking
<1>2. /\ now \in Int /\ now' \in Int /\ now <= now'
      /\ call[q].pc # "clock" => call[q].t <= now
  BY ClockStep DEF ReadingsPast, Looking
<1>3. heap'[i] = heap[i] /\ ~BeingWritten(i)'
  <2>1. heap[i] < now /\ heap[i] # Never /\ ~BeingWritten(i)
    BY <1>1, <1>2, <1>5 DEF FoundDead
  <2> QED
    BY <1>5, <2>1, DeadIsFinal
<1>4. /\ call'[q].item = i
      /\ heap[i] < IF call'[q].pc = "clock" THEN now' ELSE call'[q].t
  <2>1. CASE call'[q] = call[q]
    BY <1>1, <1>2, <1>5, <2>1 DEF FoundDead
  <2>2. CASE Step(q)
    <3>1. Same(q) /\ call'[q].pc # "clock"
      BY <2>2, CallMoves DEF Looking
    <3>2. call'[q].t = t
      BY <2>2, CallMoves DEF Looking
    <3> QED
      BY <1>1, <3>1, <3>2 DEF FoundDead, Same
  <2> QED
    BY <2>1, <2>2
<1> QED
  BY <1>1, <1>3, <1>4, <1>5 DEF FoundDead

\* What a getter leaves for getItem.
LEMMA Lookups ==
  ASSUME TypeInv, NEW p \in Procs, Step(p), call[p].pc = "idle",
         call'[p].pc \in {"clock", "write"}
  PROVE  /\ call'[p].key \in Keys /\ call'[p].item = items[call'[p].key] /\ call'[p].item # Nil
         /\ mux = Nil /\ heap' = heap /\ served' = served
         /\ call'[p].pc = "clock" => mux' = Nil
         /\ call'[p].pc = "write" => ~IsExpired(heap[call'[p].item], now)
         /\ \/ items' = items /\ call'[p].op \in {"get", "touch"}
            \/ items' = items /\ IsExpired(heap[call'[p].item], now)
            \/ items' = [items EXCEPT ![call'[p].key] = Nil]
<1>1. \A c : Goto(p, c) => call'[p] = c
  BY DEF Goto, TypeInv, TypeOK
<1>2. ASSUME NEW k \in Keys, GetRead(p, k)
      PROVE  call'[p] = At("clock", "get", k, items[k]) /\ items[k] # Nil
  <2>1. CASE Finish(p, "miss", "get", k, Nil)
    BY <1>1, <2>1 DEF Finish, At
  <2>2. CASE items[k] # Nil /\ Found(p, "get", k, items[k])
    BY <1>1, <2>2 DEF Found
  <2> QED
    BY <1>2, <2>1, <2>2 DEF GetRead
<1>3. ASSUME NEW k \in Keys, NEW o \in GetOpts, GetLocked(p, k, o)
      PROVE  /\ call'[p].key = k /\ call'[p].item = items[k] /\ items[k] # Nil
             /\ call'[p].pc = "clock" => mux' = Nil
             /\ call'[p].pc = "write" => Usable(items[k])
             /\ \/ items' = items /\ call'[p].op \in {"get", "touch"}
                \/ items' = items /\ ~Usable(items[k])
                \/ items' = [items EXCEPT ![k] = Nil]
  <2> DEFINE op == IF o.delete THEN "take" ELSE "touch"
  <2>1. mux = Nil
    BY <1>3 DEF GetLocked, Begins, Free
  <2>2. CASE Finish(p, "miss", op, k, Nil)
    BY <1>1, <2>2 DEF Finish, At
  <2>3. CASE items[k] # Nil /\ ~Usable(items[k]) /\ Found(p, op, k, items[k]) /\ UNCHANGED <<items, mux>>
    BY <1>1, <2>1, <2>3 DEF Found, At
  <2>4. CASE Usable(items[k]) /\ Take(p, k)
    BY <1>1, <2>1, <2>4 DEF Found, At, Take, Usable
  <2>5. CASE Usable(items[k]) /\ Touch(p, k, o)
    <3>1. PICK u : call'[p] = [At("write", "touch", k, items[k]) EXCEPT !.until = u]
      BY <1>1, <2>5 DEF Touch
    <3>2. call'[p].key = k /\ call'[p].item = items[k] /\ call'[p].pc = "write" /\ call'[p].op = "touch"
      BY <3>1 DEF At
    <3> QED
      BY <2>5, <3>2 DEF Touch, Usable
  <2> QED
    BY <1>3, <2>2, <2>3, <2>4, <2>5 DEF GetLocked
<1>4. PICK k \in Keys : GetRead(p, k) \/ \E o \in GetOpts : GetLocked(p, k, o)
  <2>1. CASE \E pc \in {"idle", "miss", "done"} : \E op, k, i : Goto(p, At(pc, op, k, i))
    BY <1>1, <2>1 DEF At
  <2>2. CASE \E op : SweepStart(p, op)
    BY <1>1, <2>2 DEF SweepStart, At
  <2> QED
    BY <2>1, <2>2 DEF Step, Invoke, Lockless, Locking, Set, SetOrFail, Delete, GetWrite, ReadClock,
       ReadZero, ReadAfter, Evict, Sweep, Return, Finish
<1>5. mux = Nil /\ heap' = heap /\ served' = served
  BY <1>4 DEF GetRead, GetLocked, Begins, Free
<1>6. CASE GetRead(p, k)
  <2>1. mux' = mux /\ items' = items
    BY <1>6 DEF GetRead
  <2>2. /\ call'[p].key = k /\ call'[p].item = items[k] /\ items[k] # Nil
        /\ call'[p].pc = "clock" /\ call'[p].op = "get"
    <3>1. call'[p] = At("clock", "get", k, items[k]) /\ items[k] # Nil
      BY <1>2, <1>6
    <3> QED
      BY <3>1 DEF At
  <2> QED
    BY <1>5, <2>1, <2>2
<1>7. CASE \E o \in GetOpts : GetLocked(p, k, o)
  BY <1>3, <1>5, <1>7 DEF Usable
<1> QED
  BY <1>4, <1>6, <1>7

\* What is found is live, and so seen, or expired for good.
LEMMA FoundSeenStep ==
  ASSUME TypeInv, ReadingsPast, FoundSeen, [Next]_vars
  PROVE  FoundSeen'
<1>1. TypeInv'
  BY TypeStep
<1> SUFFICES ASSUME NEW q \in Procs, call'[q].pc \in Looking \cup {"write"}
             PROVE  \/ call'[q].item \in seen'[q]
                    \/ call'[q].pc \in Looking /\ FoundDead(q)'
  BY DEF FoundSeen, Looking
<1>2. call'[q] = call[q] \/ Step(q)
  BY Moves DEF Next, Tick, vars
<1>3. call'[q].op \in {"get", "touch", "take"}
  BY <1>1 DEF TypeInv, TypeOK, CallOK
<1>4. CASE /\ call[q].pc \in Looking \cup {"write"}
           /\ call'[q].item = call[q].item
           /\ call'[q] = call[q] \/ call'[q].pc \in Looking
  <2>1. CASE call[q].item \in seen[q]
    BY <1>3, <1>4, <2>1, SeenGrows DEF Looking
  <2>2. CASE call[q].pc \in Looking /\ FoundDead(q)
    BY <1>2, <1>4, <2>2, FoundDeadStays
  <2> QED
    BY <1>4, <2>1, <2>2 DEF FoundSeen
<1>5. CASE Step(q) /\ call[q].pc = "idle" /\ call'[q].pc \in {"clock", "write"}
  <2>1. PICK k \in Keys, i \in Items : k = call'[q].key /\ i = call'[q].item /\ i = items[k]
    BY <1>1, <1>5, Lookups DEF TypeInv, TypeOK, CallOK, Looking
  <2>2. heap[i] \in Instants /\ now \in Int /\ now' = now /\ mux = Nil /\ heap' = heap
    BY <1>5, <2>1, Lookups, Moves DEF TypeInv, TypeOK, Allocated
  <2>3. CASE Live(i)
    <3>1. View[k] = i
      BY <2>1, <2>3 DEF View
    <3>2. View[call'[q].key] \in seen'[q]
      BY <1>3, <1>5, SeenGrows
    <3> QED
      BY <2>1, <3>1, <3>2
  <2>4. CASE ~Live(i)
    <3>1. heap[i] \in Int /\ heap[i] # Never /\ heap[i] < now
      BY <2>2, <2>4 DEF Live, Expiry, BeingWritten, Instants
    <3>2. call'[q].pc = "clock" /\ mux' = Nil
      BY <1>5, <2>1, <3>1, Lookups DEF IsExpired, After
    <3> QED
      BY <2>1, <2>2, <3>1, <3>2 DEF FoundDead, BeingWritten, Looking
  <2> QED
    BY <2>3, <2>4
<1>6. CASE Step(q) /\ call[q].pc # "idle"
  BY <1>4, <1>6, CallMoves DEF Looking, Same
<1>7. CASE Step(q) /\ call[q].pc = "idle"
  BY <1>5, <1>7, CallMoves DEF Looking
<1> QED
  BY <1>2, <1>4, <1>6, <1>7

LEMMA DeadNeverHits ==
  ASSUME TypeInv, NEW p \in Procs, ReadZero(p) \/ ReadAfter(p), Hit(p)
  PROVE  call[p].pc \in Looking /\ ~FoundDead(p)
<1>1. call[p] \in Calls /\ call'[p].pc = "hit"
  <2>1. call'[p] = At("hit", call[p].op, call[p].key, call[p].item)
    BY DEF Hit, Finish, Goto, TypeInv, TypeOK
  <2>2. call'[p].pc = "hit"
    BY <2>1 DEF At
  <2> QED
    BY <2>2 DEF TypeInv, TypeOK
<1>2. CASE ReadZero(p)
  <2>1. ~GotoPc(p, "after")
    BY <1>1 DEF GotoPc, Goto, TypeInv, TypeOK, Calls
  <2> QED
    BY <1>2, <2>1 DEF ReadZero, ZeroReads, Torn, FoundDead, Looking
<1>3. CASE ReadAfter(p)
  <2>1. ~GotoPc(p, "evict")
    BY <1>1 DEF GotoPc, Goto, TypeInv, TypeOK, Calls
  <2>2. FALSE \in AfterReads(call[p].item, call[p].t)
    BY <1>3, <2>1 DEF ReadAfter
  <2>3. ASSUME FoundDead(p) PROVE FALSE
    <3>1. heap[call[p].item] \in Int /\ call[p].t \in Int
      BY <1>1, <1>3, <2>3
         DEF ReadAfter, FoundDead, TypeInv, TypeOK, Allocated, CallOK, Calls, Instants, Looking
    <3> QED
      BY <1>3, <2>2, <2>3, <3>1 DEF ReadAfter, AfterReads, Torn, Expiry, After, FoundDead
  <2> QED
    BY <1>3, <2>3 DEF ReadAfter, Looking
<1> QED
  BY <1>2, <1>3

LEMMA HitStep ==
  ASSUME TypeInv, FoundSeen, HitWasPresent, [Next]_vars
  PROVE  HitWasPresent'
<1> SUFFICES ASSUME NEW q \in Procs, call'[q].pc = "hit" PROVE call'[q].item \in seen'[q]
  BY DEF HitWasPresent
<1>1. call'[q].op \in {"get", "touch", "take"}
  BY TypeStep DEF TypeInv, TypeOK, CallOK
<1>2. CASE call'[q] = call[q]
  BY <1>1, <1>2, SeenGrows DEF HitWasPresent
<1>3. CASE Step(q)
  <2>1. call[q].pc \in Looking /\ ~FoundDead(q) /\ Same(q)
    BY <1>3, CallMoves, DeadNeverHits
  <2> QED
    BY <1>1, <2>1, SeenGrows DEF FoundSeen, Same, Looking
<1> QED
  BY <1>2, <1>3, Moves DEF Next, Tick, vars

LEMMA SeenInvariant == Spec => []SeenInv
<1>1. Init => SeenInv
  BY TypeInit DEF Init, SeenInv, ReadingsPast, FoundSeen, HitWasPresent, Idle, At, Looking
<1>2. SeenInv /\ [Next]_vars => SeenInv'
  BY TypeStep, ReadingsStep, FoundSeenStep, HitStep DEF SeenInv
<1> QED
  BY <1>1, <1>2, PTL DEF Spec

\* However TTL options, stores and evictions race with the unlocked expiry
\* check, no Get hands out a value its key did not hold during the call.
THEOREM HitWasPresentCorrect == Spec => []HitWasPresent
<1>1. SeenInv => HitWasPresent
  BY DEF SeenInv
<1> QED
  BY SeenInvariant, <1>1, PTL

-----------------------------------------------------------------------------
(* A value is consumed once.                                               *)

\* Entries only leave the map, and nobody consumes any.
Drops == served' = served /\ \A k \in Keys : items'[k] \in {items[k], Nil}

\* An entry with a new address enters it.
Adds ==
  /\ served' = served
  /\ \E k \in Keys, i \in Items : heap[i] = Unset /\ items' = [items EXCEPT ![k] = i]

\* A Get that consumes its item answers.
Serves(p) ==
  /\ Taking(p) /\ ~FoundDead(p) /\ call'[p].pc = "hit"
  /\ served' = [served EXCEPT ![call[p].item] = @ + 1]
  /\ items' = items

\* A Drain consumes entries of the map and leaves none there.
Drains ==
  /\ items' = [k \in Keys |-> Nil]
  /\ \A i \in Items : served'[i] = served[i] \/ (served'[i] = served[i] + 1 /\ \E k \in Keys : items[k] = i)

LEMMA MapSteps ==
  ASSUME TypeInv, [Next]_vars
  PROVE  Drops \/ Adds \/ Drains \/ \E p \in Procs : Serves(p)
<1>1. items \in [Keys -> Items \cup {Nil}] /\ served \in [Items -> Nat]
  BY DEF TypeInv, TypeOK
<1>2. CASE Tick \/ UNCHANGED vars
  BY <1>2 DEF Tick, vars, Drops
<1>3. ASSUME NEW p \in Procs, NEW k \in Keys, NEW o \in SetOpts, Set(p, k, o) \/ SetOrFail(p, k, o)
      PROVE  Drops \/ Adds
  <2>1. served' = served
    BY <1>3 DEF Set, SetOrFail
  <2>2. Store(k, o) \/ items' = items
    BY <1>3 DEF Set, SetOrFail
  <2> QED
    BY <2>1, <2>2 DEF Store, Adds, Drops
<1>4. ASSUME NEW p \in Procs, NEW k \in Keys, NEW o \in GetOpts, GetLocked(p, k, o)
      PROVE  Drops
  <2>1. served' = served
    BY <1>4 DEF GetLocked
  <2>2. items' = items \/ items' = [items EXCEPT ![k] = Nil]
    BY <1>4 DEF GetLocked, Take, Touch
  <2> QED
    BY <1>1, <2>1, <2>2 DEF Drops
<1>5. ASSUME NEW p \in Procs, ReadZero(p) \/ ReadAfter(p) PROVE Drops \/ Serves(p)
  <2>1. items' = items
    BY <1>5 DEF ReadZero, ReadAfter
  <2>2. CASE Hit(p) /\ call[p].op = "take"
    <3>1. call'[p] = At("hit", call[p].op, call[p].key, call[p].item)
      BY <2>2 DEF Hit, Finish, Goto, TypeInv, TypeOK
    <3>2. call'[p].pc = "hit"
      BY <3>1 DEF At
    <3> QED
      BY <1>5, <2>1, <2>2, <3>2, DeadNeverHits DEF Serves, Taking, Hit
  <2>3. CASE served' = served
    BY <2>1, <2>3 DEF Drops
  <2> QED
    BY <1>5, <2>2, <2>3 DEF ReadZero, ReadAfter, Hit
<1>6. ASSUME NEW p \in Procs, Sweep(p) PROVE Drops \/ Drains
  <2>1. \A k \in Keys : Swept(call[p].t)[k] \in {items[k], Nil}
    BY DEF Swept
  <2>2. CASE items' = Swept(call[p].t) /\ served' = served
    BY <2>1, <2>2 DEF Drops
  <2>3. CASE /\ items' = [k \in Keys |-> Nil]
             /\ served' = [i \in Items |-> IF \E k \in Keys : Swept(call[p].t)[k] = i
                                              THEN served[i] + 1 ELSE served[i]]
    <3>1. ASSUME NEW i \in Items
          PROVE  served'[i] = served[i] \/ (served'[i] = served[i] + 1 /\ \E k \in Keys : items[k] = i)
      BY <2>1, <2>3
    <3> QED
      BY <2>3, <3>1 DEF Drains
  <2> QED
    BY <1>6, <2>2, <2>3 DEF Sweep
<1>7. ASSUME NEW p \in Procs,
             \/ \E k \in Keys : Delete(p, k) \/ GetRead(p, k)
             \/ GetWrite(p) \/ ReadClock(p) \/ Return(p) \/ Evict(p)
             \/ \E op \in {"cleanup", "drain"} : SweepStart(p, op)
      PROVE  Drops
  BY <1>1, <1>7 DEF Drops, Delete, GetRead, GetWrite, ReadClock, Return, Evict, SweepStart
<1> QED
  BY <1>2, <1>3, <1>4, <1>5, <1>6, <1>7 DEF Next, Step, Invoke, Lockless, Locking

\* Nobody frees an item.
LEMMA HeapGrows ==
  ASSUME TypeInv, [Next]_vars, NEW i \in Items, heap[i] # Unset
  PROVE  heap'[i] # Unset
<1>1. CASE Leaves \/ \E p \in Procs : Takes(p)
  BY <1>1 DEF Leaves, Takes
<1>2. ASSUME NEW p \in Procs, Stores(p) PROVE heap'[i] # Unset
  BY <1>2 DEF Stores, TypeInv, TypeOK, CallOK, Calls
<1> QED
  BY <1>1, <1>2, LockSteps

LEMMA MapInvStep ==
  ASSUME OnceInv, [Next]_vars
  PROVE  MapInv' /\ ServedAtMostOnce'
<1>1. /\ items \in [Keys -> Items \cup {Nil}] /\ served \in [Items -> Nat]
      /\ items' \in [Keys -> Items \cup {Nil}] /\ served' \in [Items -> Nat]
      /\ \A k \in Keys : items[k] # Nil => heap[items[k]] # Unset
  BY TypeStep DEF OnceInv, TypeInv, TypeOK, Allocated
<1>2. \A i \in Items : heap'[i] = Unset => heap[i] = Unset
  BY HeapGrows DEF OnceInv
<1> USE DEF OnceInv, MapInv, ServedAtMostOnce
<1>3. CASE Drops
  BY <1>1, <1>2, <1>3 DEF Drops
<1>4. CASE Adds
  BY <1>1, <1>2, <1>4 DEF Adds
<1>5. CASE Drains
  BY <1>1, <1>2, <1>5 DEF Drains
<1>6. ASSUME NEW p \in Procs, Serves(p) PROVE MapInv' /\ ServedAtMostOnce'
  <2>1. PICK i \in Items : i = call[p].item /\ heap[i] # Unset
    BY <1>6 DEF Serves, Taking, TypeInv, TypeOK, Allocated, CallOK, Looking
  <2>2. served[i] = 0 /\ \A k \in Keys : items[k] # i
    BY <1>6, <2>1 DEF Serves, TakerInv, Owns
  <2> QED
    BY <1>1, <1>2, <1>6, <2>1, <2>2 DEF Serves
<1> QED
  BY <1>3, <1>4, <1>5, <1>6, MapSteps

\* A goroutine that goes on taking an item was taking it, and one that begins
\* to found it in the map.
LEMMA TakingMoves ==
  ASSUME TypeInv, [Next]_vars, NEW q \in Procs, Taking(q)'
  PROVE  \/ Taking(q) /\ call'[q].item = call[q].item /\ (call'[q] = call[q] \/ Step(q))
         \/ Step(q) /\ call[q].pc = "idle" /\ call'[q].pc = "clock"
<1>1. call'[q] = call[q] \/ Step(q)
  BY Moves DEF Next, Tick, vars
<1>2. CASE Step(q)
  BY <1>2, CallMoves DEF Taking, Looking, Same, TypeInv, TypeOK, CallOK
<1> QED
  BY <1>1, <1>2 DEF Taking

\* The owner of an item keeps it to itself.
LEMMA OwnsStays ==
  ASSUME OnceInv, [Next]_vars, NEW q \in Procs, Taking(q), ~FoundDead(q), Taking(q)',
         call'[q].item = call[q].item
  PROVE  Owns(q)'
<1>1. PICK i \in Items : i = call[q].item /\ heap[i] # Unset
  BY DEF OnceInv, Taking, TypeInv, TypeOK, Allocated, CallOK, Looking
<1>2. /\ served[i] = 0 /\ \A k \in Keys : items[k] # i
      /\ \A r \in Procs \ {q} : Taking(r) /\ call[r].item = i => FoundDead(r)
  BY <1>1 DEF OnceInv, TakerInv, Owns
<1>3. i # Nil /\ items \in [Keys -> Items \cup {Nil}] /\ served \in [Items -> Nat]
  BY DEF OnceInv, TypeInv, TypeOK
<1>4. \A k \in Keys : items'[k] # i
  BY <1>1, <1>2, <1>3, MapSteps DEF OnceInv, Drops, Adds, Drains, Serves
<1>5. served'[i] = 0
  <2>1. ASSUME NEW p \in Procs, Serves(p) PROVE call[p].item # i
    BY <1>2, <2>1 DEF Serves, Taking, Looking
  <2> QED
    BY <1>2, <1>3, <2>1, MapSteps DEF OnceInv, Drops, Adds, Drains, Serves
<1>6. ASSUME NEW r \in Procs \ {q}, Taking(r)', call'[r].item = i
      PROVE  FoundDead(r)'
  <2>1. CASE Step(r) /\ call[r].pc = "idle" /\ call'[r].pc = "clock"
    BY <1>2, <1>6, <2>1, Lookups DEF OnceInv
  <2>2. CASE Taking(r) /\ call'[r].item = call[r].item /\ (call'[r] = call[r] \/ Step(r))
    BY <1>2, <1>6, <2>2, FoundDeadStays DEF OnceInv, Taking
  <2> QED
    BY <1>6, <2>1, <2>2, TakingMoves DEF OnceInv
<1> QED
  BY <1>1, <1>4, <1>5, <1>6 DEF Owns

\* A lookup that takes finds an item expired, or removes it and owns it.
LEMMA TakeOwns ==
  ASSUME OnceInv, [Next]_vars, NEW q \in Procs, Step(q), call[q].pc = "idle",
         call'[q].pc = "clock", Taking(q)'
  PROVE  FoundDead(q)' \/ Owns(q)'
<1>1. PICK k \in Keys, i \in Items : k = call'[q].key /\ i = call'[q].item /\ i = items[k]
  BY TypeStep, Lookups DEF OnceInv, TypeInv, TypeOK, CallOK, Looking
<1>2. /\ heap[i] \in Instants /\ heap[i] # Unset /\ now \in Int /\ now' = now
      /\ heap' = heap /\ mux' = Nil /\ served' = served /\ i # Nil
      /\ items \in [Keys -> Items \cup {Nil}]
  BY <1>1, Lookups, Moves DEF OnceInv, TypeInv, TypeOK, Allocated
<1>3. CASE IsExpired(heap[i], now)
  BY <1>1, <1>2, <1>3 DEF FoundDead, BeingWritten, IsExpired, After, Instants
<1>4. CASE items' = [items EXCEPT ![k] = Nil]
  <2>1. served'[i] = 0 /\ \A l \in Keys : items'[l] # i
    BY <1>1, <1>2, <1>4 DEF OnceInv, MapInv
  <2>2. ASSUME NEW r \in Procs \ {q}, Taking(r)', call'[r].item = i
        PROVE  FoundDead(r)'
    <3>1. call'[r] = call[r]
      BY Moves DEF OnceInv
    <3>2. Taking(r) /\ FoundDead(r)
      BY <1>1, <2>2, <3>1 DEF OnceInv, TakerInv, Owns, Taking
    <3> QED
      BY <2>2, <3>1, <3>2, FoundDeadStays DEF OnceInv, Taking
  <2> QED
    BY <1>1, <2>1, <2>2 DEF Owns
<1> QED
  BY <1>1, <1>3, <1>4, Lookups DEF OnceInv, Taking

LEMMA OnceInvariant == Spec => []OnceInv
<1>1. Init => OnceInv
  BY TypeInit DEF Init, OnceInv, ReadingsPast, MapInv, TakerInv, Taking, ServedAtMostOnce, Idle,
     At, Looking
<1>2. ASSUME OnceInv, [Next]_vars PROVE TakerInv'
  <2> SUFFICES ASSUME NEW q \in Procs, Taking(q)' PROVE FoundDead(q)' \/ Owns(q)'
    BY DEF TakerInv
  <2>1. CASE Step(q) /\ call[q].pc = "idle" /\ call'[q].pc = "clock"
    BY <1>2, <2>1, TakeOwns
  <2>2. CASE Taking(q) /\ call'[q].item = call[q].item /\ (call'[q] = call[q] \/ Step(q))
    <3>1. CASE FoundDead(q)
      BY <1>2, <2>2, <3>1, FoundDeadStays DEF OnceInv, Taking
    <3>2. CASE ~FoundDead(q)
      BY <1>2, <2>2, <3>2, OwnsStays
    <3> QED
      BY <3>1, <3>2
  <2> QED
    BY <1>2, <2>1, <2>2, TakingMoves DEF OnceInv
<1>3. OnceInv /\ [Next]_vars => OnceInv'
  BY <1>2, TypeStep, ReadingsStep, MapInvStep DEF OnceInv
<1> QED
  BY <1>1, <1>3, PTL DEF Spec

\* However many GetAndDelete, Get(AndDelete) and Drain race for it, the value
\* of one store is handed to one of them at most.
THEOREM ServedAtMostOnceCorrect == Spec => []ServedAtMostOnce
<1>1. OnceInv => ServedAtMostOnce
  BY DEF OnceInv
<1> QED
  BY OnceInvariant, <1>1, PTL

\* The inductive invariant that the runs check holds for every instance.
THEOREM InductiveInvariantCorrect == Spec => []IInv
BY SeenInvariant, OnceInvariant, PTL DEF IInv

-----------------------------------------------------------------------------
(* Live entries are not lost.                                              *)

\* Nobody touches the map while the lock is kept between steps.
LEMMA MapLocked ==
  ASSUME TypeInv, [Next]_vars, mux # Nil
  PROVE  items' = items
<1>1. CASE Tick \/ UNCHANGED vars
  BY <1>1 DEF Tick, vars
<1>2. CASE \E p \in Procs : Step(p)
  BY <1>2 DEF Step, Invoke, Lockless, Locking, Begins, Free, Set, SetOrFail, Delete, GetRead,
     GetLocked, GetWrite, ReadClock, ReadZero, ReadAfter, Evict, SweepStart, Sweep, Return
<1> QED
  BY <1>1, <1>2 DEF Next

\* The item whose expiry is being stored is in the map.
WrittenHeld == \A p \in Procs : call[p].pc = "write" => items[call[p].key] = call[p].item

LEMMA WrittenHeldStep ==
  ASSUME TypeInv, WrittenHeld, [Next]_vars
  PROVE  WrittenHeld'
<1> SUFFICES ASSUME NEW p \in Procs, call'[p].pc = "write"
             PROVE  items'[call'[p].key] = call'[p].item
  BY DEF WrittenHeld
<1>1. call'[p] = call[p] \/ Step(p)
  BY Moves DEF Next, Tick, vars
<1>2. CASE call'[p] = call[p]
  <2>1. mux # Nil
    BY <1>2 DEF TypeInv, TypeOK, LockHeld
  <2> QED
    BY <1>2, <2>1, MapLocked DEF WrittenHeld
<1>3. CASE Step(p) /\ call[p].pc = "idle" /\ mux' = p
  <2>3. mux # p
    BY <1>3 DEF TypeInv, LockHeld
  <2>4. PICK k \in Keys, o \in GetOpts : GetLocked(p, k, o)
    BY <1>3, <2>3 DEF Step, Invoke, Lockless, Locking, Set, SetOrFail, Delete, GetRead, GetWrite,
       ReadClock, ReadZero, ReadAfter, Evict, SweepStart, Sweep, Return
  <2>1. Touch(p, k, o)
    BY <1>3, <2>3, <2>4 DEF GetLocked, Take
  <2> DEFINE u == Touched(o, heap[items[k]], DefaultTTL, now)
  <2>2. call'[p] = [At("write", "touch", k, items[k]) EXCEPT !.until = u] /\ items' = items
    BY <2>1 DEF Touch, Goto, TypeInv, TypeOK
  <2> HIDE DEF u
  <2> QED
    BY <2>2 DEF At
<1>4. Step(p) => call'[p] = call[p] \/ call[p].pc = "idle"
  BY CallMoves
<1>5. mux' = p
  BY TypeStep DEF TypeInv, LockHeld
<1> QED
  BY <1>1, <1>2, <1>3, <1>4, <1>5

\* An item that a consuming call looks at is not written to any more.
LEMMA TakenUnwritten ==
  ASSUME OnceInv, WrittenHeld, NEW p \in Procs, Taking(p)
  PROVE  ~BeingWritten(call[p].item)
<1>1. CASE FoundDead(p)
  BY <1>1 DEF FoundDead
<1>2. CASE Owns(p) /\ mux # Nil
  <2>1. mux \in Procs /\ call[mux].pc = "write" /\ call[mux].key \in Keys
    BY <1>2 DEF OnceInv, TypeInv, TypeOK, LockHeld, CallOK
  <2> QED
    BY <1>2, <2>1 DEF WrittenHeld, Owns, BeingWritten
<1> QED
  BY <1>1, <1>2 DEF OnceInv, TakerInv, BeingWritten

\* A consuming call that compares an expiry with its clock reading has one to
\* compare, and one that is about to miss has found it passed.
TakenExpires == \A p \in Procs : Taking(p) /\ call[p].pc = "after" => heap[call[p].item] # Never

TakenDead ==
  \A p \in Procs :
    call[p].op = "take" /\ call[p].pc \in {"evict", "miss"} /\ call[p].item # Nil => ~Live(call[p].item)

LossInv == OnceInv /\ WrittenHeld /\ TakenExpires /\ TakenDead

LEMMA TakenExpiresStep ==
  ASSUME LossInv, [Next]_vars
  PROVE  TakenExpires'
<1> SUFFICES ASSUME NEW p \in Procs, Taking(p)', call'[p].pc = "after"
             PROVE  heap'[call'[p].item] # Never
  BY DEF TakenExpires
<1>1. /\ Taking(p) /\ call'[p].item = call[p].item
      /\ call'[p] = call[p] \/ Step(p)
  BY TakingMoves DEF LossInv, OnceInv
<1>2. PICK i \in Items : i = call[p].item /\ heap[i] # Unset /\ ~BeingWritten(i)
  BY <1>1, TakenUnwritten DEF LossInv, OnceInv, Taking, TypeInv, TypeOK, Allocated, CallOK, Looking
<1>3. heap'[i] = heap[i]
  BY <1>2, LockSteps DEF LossInv, OnceInv, Leaves, Takes, Stores, BeingWritten, TypeInv, TypeOK
<1>4. CASE call[p].pc = "after"
  BY <1>1, <1>2, <1>3, <1>4 DEF LossInv, TakenExpires
<1>5. CASE ReadZero(p) /\ FALSE \in ZeroReads(i)
  BY <1>1, <1>2, <1>3, <1>5 DEF ZeroReads, Torn
<1>6. Step(p) /\ call[p].pc # "after" => ReadZero(p) /\ FALSE \in ZeroReads(i)
  <2>1. Step(p) => call[p].pc \in {"after", "zero"}
    BY CallMoves DEF LossInv, OnceInv
  <2>2. Step(p) /\ call[p].pc = "zero" => ReadZero(p)
    BY DEF Step, Invoke, Lockless, Locking, Begins, Set, SetOrFail, Delete, GetRead, GetLocked,
       GetWrite, ReadClock, ReadAfter, Evict, SweepStart, Sweep, Return
  <2>3. Hit(p) => call'[p].pc # "after"
    BY DEF Hit, Finish, Goto, At, LossInv, OnceInv, TypeInv, TypeOK
  <2> QED
    BY <1>2, <2>1, <2>2, <2>3 DEF ReadZero
<1> QED
  BY <1>1, <1>4, <1>5, <1>6

LEMMA TakenDeadStep ==
  ASSUME LossInv, [Next]_vars
  PROVE  TakenDead'
<1> SUFFICES ASSUME NEW p \in Procs, NEW i \in Items, call'[p].item = i, call'[p].op = "take",
                    call'[p].pc \in {"evict", "miss"}
             PROVE  ~Live(i)'
  <2>1. \A p \in Procs : call'[p].item \in Items \cup {Nil}
    BY TypeStep DEF LossInv, OnceInv, TypeInv, TypeOK, Calls
  <2> QED
    BY <2>1 DEF TakenDead
<1>1. call'[p] = call[p] \/ Step(p)
  BY Moves DEF LossInv, OnceInv, Next, Tick, vars
<1>2. call[p].item = i /\ ~Live(i) => ~Live(i)'
  BY DeadStaysDead DEF LossInv, OnceInv, TypeInv, TypeOK, Allocated
<1>4. CASE call'[p] = call[p]
  BY <1>2, <1>4 DEF LossInv, TakenDead
<1>5. CASE ReadAfter(p) /\ call'[p].pc = "evict" /\ Same(p)
  <2>1. Taking(p) /\ call[p].item = i
    BY <1>5 DEF ReadAfter, Taking, Looking, Same
  <2>2. ~BeingWritten(i) /\ heap[i] # Never /\ heap[i] # Unset
    BY <1>5, <2>1, TakenUnwritten DEF LossInv, OnceInv, TakenExpires, ReadAfter, TypeInv, Allocated
  <2>3. heap[i] \in Int /\ now \in Int /\ call[p].t \in Int /\ call[p].t <= now
    BY <1>5, <2>2 DEF LossInv, OnceInv, ReadingsPast, ReadAfter, TypeInv, TypeOK, Calls, Instants
  <2>4. After(call[p].t, heap[i])
    <3>1. FALSE \in AfterReads(i, call[p].t) /\ Hit(p) => call'[p].pc = "hit"
      BY DEF Hit, Finish, Goto, At, LossInv, OnceInv, TypeInv, TypeOK
    <3>2. TRUE \in AfterReads(i, call[p].t)
      BY <1>5, <2>1, <3>1 DEF ReadAfter
    <3> QED
      BY <2>2, <3>2 DEF AfterReads, Torn, Expiry
  <2> QED
    BY <1>2, <2>1, <2>2, <2>3, <2>4 DEF After, Live, Expiry
<1>6. CASE Evict(p)
  <2>1. call[p].pc = "evict" /\ call'[p] = At("miss", call[p].op, call[p].key, call[p].item)
    BY <1>6 DEF Evict, Finish, Goto, LossInv, OnceInv, TypeInv, TypeOK
  <2>2. call[p].op = "take" /\ call[p].item = i
    BY <2>1 DEF At
  <2> QED
    BY <1>2, <2>1, <2>2 DEF LossInv, TakenDead
<1>7. Step(p) => \/ call'[p] = call[p] \/ Evict(p)
                 \/ ReadAfter(p) /\ call'[p].pc = "evict" /\ Same(p)
  <2>1. Step(p) /\ call'[p].pc = "evict" => ReadAfter(p) /\ Same(p)
    BY CallMoves DEF LossInv, OnceInv, Step, Invoke, Lockless, Locking, Begins, Set, SetOrFail, Delete,
       GetRead, GetLocked, GetWrite, ReadClock, ReadZero, Evict, SweepStart, Sweep, Return
  <2>2. \A c : Goto(p, c) => call'[p] = c
    BY DEF Goto, LossInv, OnceInv, TypeInv, TypeOK
  <2>3. ASSUME Step(p), call'[p].pc = "miss" PROVE Evict(p)
    <3>1. \A pc, op, k, j : Finish(p, pc, op, k, j) => call'[p].pc = pc /\ call'[p].op = op /\ call'[p].item = j
      BY <2>2 DEF Finish, At
    <3>2. \A op, k, j : Found(p, op, k, j) => call'[p].pc = "clock"
      BY <2>2 DEF Found, At
    <3>3. \A op : SweepStart(p, op) => call'[p].pc = "sweep"
      BY <2>2 DEF SweepStart, At
    <3>4. \A k, o : Touch(p, k, o) => call'[p].pc = "write"
      BY <2>2 DEF Touch, At
    <3>5. \A pc : GotoPc(p, pc) => call'[p].pc = pc
      BY <2>2 DEF GotoPc, LossInv, OnceInv, TypeInv, TypeOK, Calls
    <3>6. ReadClock(p) => call'[p].pc = "zero"
      BY <2>2 DEF ReadClock, LossInv, OnceInv, TypeInv, TypeOK, Calls
    <3>7. Return(p) => call'[p].pc = "idle"
      BY <2>2 DEF Return, Idle, At
    <3> QED
      BY <2>3, <3>1, <3>2, <3>3, <3>4, <3>5, <3>6, <3>7 DEF Step, Invoke, Lockless, Locking, Set,
         SetOrFail, Delete, GetRead, GetLocked, Take, GetWrite, ReadZero, ReadAfter, Hit, Sweep
  <2> QED
    BY <2>1, <2>3
<1> QED
  BY <1>1, <1>4, <1>5, <1>6, <1>7

\* A consuming Get that found an entry and then misses has not lost a live
\* value: no expiry changes between Get's lock and getItem's look at it.
THEOREM TakeLosesOnlyExpiredCorrect == Spec => []TakeLosesOnlyExpired
<1>1. Init => LossInv
  BY TypeInit DEF Init, LossInv, OnceInv, ReadingsPast, MapInv, TakerInv, Taking, ServedAtMostOnce,
     Idle, At, Looking, WrittenHeld, TakenExpires, TakenDead
<1>2. OnceInv /\ LossInv /\ [Next]_vars /\ OnceInv' => LossInv'
  BY WrittenHeldStep, TakenExpiresStep, TakenDeadStep DEF LossInv, OnceInv
<1>3. LossInv => TakeLosesOnlyExpired
  BY DEF LossInv, TakenDead, TakeLosesOnlyExpired
<1> QED
  BY OnceInvariant, <1>1, <1>2, <1>3, PTL DEF Spec

LEMMA Replaced ==
  ASSUME TypeInv, ReadingsPast, [Next]_vars, NEW k \in Keys, LosesLive(k)
  PROVE  \E p \in Procs :
           \/ Does(p, Removals)
           \/ call[p].pc = "evict" /\ call'[p] # call[p] /\ call[p].item = items[k]
<1>1. PICK p \in Procs : Step(p)
  BY DEF LosesLive, Next, Tick, vars
<1>2. \A c : Goto(p, c) => call'[p] = c
  BY DEF Goto, TypeInv, TypeOK
<1>3. \A pc, op, l, i : Finish(p, pc, op, l, i) => call'[p].pc = pc /\ call'[p].op = op
  BY <1>2 DEF Finish, At
<1>4. \A op, l, i : Found(p, op, l, i) => call'[p].pc = "clock" /\ call'[p].op = op
  BY <1>2 DEF Found, At
<1>5. \A t : mux = Nil /\ IsExpired(heap[items[k]], t) /\ t \in Int /\ t <= now => FALSE
  BY DEF LosesLive, Live, Expiry, BeingWritten, IsExpired, After, TypeInv, TypeOK, Allocated, Instants
<1>6. now \in Int
  BY DEF TypeInv, TypeOK
<1>7. CASE \/ \E l \in Keys, o \in SetOpts : Set(p, l, o)
           \/ \E l \in Keys : Delete(p, l)
  BY <1>3, <1>7 DEF Set, Delete, Begins, Does, Removals
<1>8. ASSUME NEW l \in Keys, NEW o \in SetOpts, SetOrFail(p, l, o) PROVE FALSE
  BY <1>5, <1>6, <1>8 DEF SetOrFail, Store, Begins, Free, LosesLive, TypeInv, TypeOK
<1>9. ASSUME NEW l \in Keys, NEW o \in GetOpts, GetLocked(p, l, o) PROVE Does(p, Removals)
  <2>1. Take(p, l) /\ call[p].pc = "idle"
    BY <1>9 DEF GetLocked, Touch, LosesLive, Begins
  <2> QED
    BY <1>4, <2>1 DEF Take, Does, Removals
<1>10. CASE Evict(p)
  <2>1. call'[p].pc = "miss" /\ call[p].pc = "evict"
    BY <1>3, <1>10 DEF Evict
  <2>2. call[p].item = items[k]
    BY <1>10 DEF Evict, StillHeld, LosesLive, TypeInv, TypeOK
  <2> QED
    BY <2>1, <2>2
<1>11. CASE Sweep(p)
  <2>1. mux = Nil /\ call[p].t \in Int /\ call[p].t <= now /\ call[p].pc = "sweep"
    BY <1>11 DEF Sweep, Free, ReadingsPast, TypeInv, TypeOK, Calls
  <2>2. items' # Swept(call[p].t)
    BY <1>5, <2>1 DEF Swept, LosesLive
  <2> QED
    BY <1>3, <1>11, <2>1, <2>2 DEF Sweep, Does, Removals
<1> QED
  BY <1>1, <1>7, <1>8, <1>9, <1>10, <1>11 DEF LosesLive, Step, Invoke, Lockless, Locking, GetRead,
     GetWrite, ReadClock, ReadZero, ReadAfter, SweepStart, Return

\* A live entry is removed by those who mean to, or by a Get that evicts the very
\* item it looked up, whatever is replaced, extended and swept meanwhile.
THEOREM ReplacementStaysCorrect == Spec => ReplacementStays
<1>1. OnceInv /\ [Next]_vars =>
        [\A k \in Keys : LosesLive(k) =>
           \E p \in Procs :
             \/ Does(p, Removals)
             \/ call[p].pc = "evict" /\ call'[p] # call[p] /\ call[p].item = items[k]]_vars
  BY Replaced DEF OnceInv
<1> QED
  BY OnceInvariant, <1>1, PTL DEF Spec, ReplacementStays

-----------------------------------------------------------------------------
(* Where no Get changes an expiry, evictions are right as well.            *)

NoExtensions == \A o \in GetOpts : o.delete

\* What a Get finds expired without the lock is still so: no expiry changes.
LookedExpires == \A p \in Procs : call[p].pc = "after" => heap[call[p].item] # Never

LookedDead == \A p \in Procs : call[p].pc = "evict" => ~Live(call[p].item)

StillInv == TypeInv /\ ReadingsPast /\ Free /\ LookedExpires /\ LookedDead

LEMMA NothingStored ==
  ASSUME NoExtensions, TypeInv, Free, [Next]_vars
  PROVE  Free' /\ \A i \in Items : heap[i] # Unset => heap'[i] = heap[i]
<1>1. mux' = mux
  <2>1. ASSUME NEW p \in Procs, NEW k \in Keys, NEW o \in GetOpts, GetLocked(p, k, o)
        PROVE  mux' = mux
    BY <2>1 DEF NoExtensions, GetLocked, Take
  <2>2. ASSUME NEW p \in Procs, GetWrite(p) PROVE FALSE
    BY <2>2, ConstantsOK DEF GetWrite, TypeInv, LockHeld, Free
  <2>3. ASSUME NEW p \in Procs, Sweep(p) PROVE mux' = mux
    BY <2>3 DEF Sweep
  <2>4. ASSUME NEW p \in Procs, Invoke(p) PROVE mux' = mux
    BY <2>1, <2>4 DEF Invoke, Set, SetOrFail, Delete, GetRead, SweepStart
  <2>5. ASSUME NEW p \in Procs, Step(p) PROVE mux' = mux
    BY <2>2, <2>3, <2>4, <2>5 DEF Step, Lockless, Locking, ReadClock, ReadZero, ReadAfter, Evict, Return
  <2> QED
    BY <2>5 DEF Next, Tick, vars
<1>2. Leaves
  BY <1>1, LockSteps, ConstantsOK DEF Free, Takes, Stores
<1> QED
  BY <1>1, <1>2 DEF Free, Leaves

LEMMA LookedStep ==
  ASSUME NoExtensions, StillInv, [Next]_vars
  PROVE  LookedExpires' /\ LookedDead'
<1> SUFFICES ASSUME NEW p \in Procs, NEW i, call'[p].item = i
             PROVE  /\ call'[p].pc = "after" => heap'[i] # Never
                    /\ call'[p].pc = "evict" => ~Live(i)'
  BY DEF LookedExpires, LookedDead
<1>1. call'[p] = call[p] \/ Same(p) => i = call[p].item
  BY DEF Same
<1>2. i = call[p].item /\ call[p].pc \in {"zero", "after", "evict"} =>
        i \in Items /\ heap[i] # Unset /\ heap'[i] = heap[i] /\ ~BeingWritten(i)
  BY <1>1, NothingStored, ConstantsOK
     DEF StillInv, Free, BeingWritten, TypeInv, TypeOK, Allocated, CallOK, Looking
<1>3. i = call[p].item /\ call[p].pc = "evict" => ~Live(i) /\ ~Live(i)'
  BY <1>1, <1>2, DeadStaysDead DEF StillInv, LookedDead
<1>4. CASE call'[p] = call[p]
  BY <1>1, <1>2, <1>3, <1>4 DEF StillInv, LookedExpires
<1>5. Hit(p) => call'[p].pc = "hit"
  BY DEF Hit, Finish, Goto, At, StillInv, TypeInv, TypeOK
<1>6. CASE ReadZero(p) /\ call'[p].pc = "after" /\ Same(p)
  <2>1. FALSE \in ZeroReads(i)
    BY <1>1, <1>6, <1>5 DEF ReadZero
  <2> QED
    BY <1>1, <1>2, <1>6, <2>1 DEF ReadZero, ZeroReads, Torn, Same
<1>7. CASE ReadAfter(p) /\ call'[p].pc = "evict" /\ Same(p)
  <2>1. /\ call[p].pc = "after" /\ i = call[p].item /\ heap[i] # Never /\ heap[i] # Unset
        /\ heap[i] \in Int /\ now \in Int /\ call[p].t \in Int /\ call[p].t <= now
    <3>1. /\ call[p].pc = "after" /\ i = call[p].item /\ heap[i] # Unset /\ i \in Items
      BY <1>1, <1>2, <1>7 DEF ReadAfter
    <3>2. heap[i] # Never
      BY <3>1 DEF StillInv, LookedExpires
    <3> QED
      BY <3>1, <3>2 DEF StillInv, ReadingsPast, TypeInv, TypeOK, Calls, Instants
  <2>2. TRUE \in AfterReads(i, call[p].t)
    BY <1>1, <1>7, <1>5 DEF ReadAfter
  <2>3. ~Live(i)
    <3>1. ~BeingWritten(i)
      BY <1>2, <2>1
    <3>2. After(call[p].t, heap[i])
      BY <2>2, <3>1 DEF AfterReads, Torn, Expiry
    <3> QED
      BY <2>1, <3>1, <3>2 DEF After, Live, Expiry
  <2> QED
    BY <1>1, <1>2, <1>7, <2>1, <2>3, DeadStaysDead DEF StillInv, Same
<1>8. call'[p] = call[p] \/ Step(p)
  BY Moves DEF StillInv, Next, Tick, vars
<1>9. Step(p) /\ call'[p].pc = "after" => ReadZero(p) /\ Same(p)
  <2>1. Step(p) /\ call'[p].pc = "after" => call[p].pc = "zero" /\ Same(p)
    BY <1>5, CallMoves DEF StillInv
  <2>2. Step(p) /\ call[p].pc = "zero" => ReadZero(p)
    BY DEF Step, Invoke, Lockless, Locking, Begins, Set, SetOrFail, Delete, GetRead, GetLocked,
       GetWrite, ReadClock, ReadAfter, Evict, SweepStart, Sweep, Return
  <2> QED
    BY <2>1, <2>2
<1>10. Step(p) /\ call'[p].pc = "evict" => ReadAfter(p) /\ Same(p)
  <2>1. Step(p) /\ call'[p].pc = "evict" => call[p].pc = "after" /\ Same(p)
    BY <1>5, CallMoves DEF StillInv
  <2>2. Step(p) /\ call[p].pc = "after" => ReadAfter(p)
    BY DEF Step, Invoke, Lockless, Locking, Begins, Set, SetOrFail, Delete, GetRead, GetLocked,
       GetWrite, ReadClock, ReadZero, Evict, SweepStart, Sweep, Return
  <2> QED
    BY <2>1, <2>2
<1> QED
  BY <1>4, <1>6, <1>7, <1>8, <1>9, <1>10

\* Among callers that pass no TTL option to Get, a live entry leaves the map
\* only when somebody overwrites, deletes, consumes or drains it: every eviction
\* that loses an extension is one of a Get that raced with a TTL option.
THEOREM LiveEntryStaysCorrect ==
  ASSUME \A o \in GetOpts : o.delete
  PROVE  Spec => LiveEntryStays
<1>1. Init => StillInv
  BY TypeInit DEF Init, StillInv, ReadingsPast, Free, LookedExpires, LookedDead, Idle, At
<1>2. OnceInv /\ OnceInv' /\ StillInv /\ [Next]_vars => StillInv'
  BY NothingStored, LookedStep DEF StillInv, OnceInv, NoExtensions
<1>3. ASSUME StillInv, [Next]_vars, NEW k \in Keys, LosesLive(k)
      PROVE  \E p \in Procs : Does(p, Removals)
  <2>1. PICK p \in Procs :
          \/ Does(p, Removals)
          \/ call[p].pc = "evict" /\ call[p].item = items[k]
    BY <1>3, Replaced DEF StillInv
  <2>2. ~(call[p].pc = "evict" /\ call[p].item = items[k])
    BY <1>3 DEF StillInv, LookedDead, LosesLive
  <2> QED
    BY <2>1, <2>2
<1>4. StillInv /\ [Next]_vars =>
        [\A k \in Keys : LosesLive(k) => \E p \in Procs : Does(p, Removals)]_vars
  BY <1>3
<1> QED
  BY OnceInvariant, <1>1, <1>2, <1>4, PTL DEF Spec, LiveEntryStays
=============================================================================
