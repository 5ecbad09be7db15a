------------------------- MODULE MemoryContractProofs -------------------------
(***************************************************************************)
(* The in-memory backend implements the contract of the Cache interface,   *)
(* for any numbers of keys, goroutines and stores, any options and any     *)
(* clock: every step of it is a step of the contract, or one that the      *)
(* contract does not see.                                                  *)
(***************************************************************************)
EXTENDS MemoryContract, MemoryCacheProofs

USE NeverIsNoInstant, NilIsNoInstant, ConstantsOK

\* The points at which a Get has found an item and not judged it finally.
Held == Looking \cup {"write", "evict"}

\* A Get has found an item that its key held alive during the call, or one
\* that nobody can see any more.
HeldInv == \A p \in Procs : call[p].pc \in Held => call[p].item \in seen[p] \/ ~Live(call[p].item)

CInv == IInv /\ HeldInv

(* The abstract state. *)
Lapsed == {i \in Items : (\E k \in Keys : items[k] = i) /\ ~Live(i)}
Used == {i \in Items : heap[i] # Unset}
OpOf == [p \in Procs |-> Effect(p)]
HeldBy == [p \in Procs |-> Finding(p)]

-----------------------------------------------------------------------------
(* What a step leaves as it is. *)

LEMMA HeldItem ==
  ASSUME TypeInv, NEW q \in Procs, call[q].pc \in Held
  PROVE  /\ call[q].item \in Items /\ call[q].item # Nil /\ heap[call[q].item] # Unset
         /\ call[q].key \in Keys /\ call[q].op \in {"get", "touch", "take"}
BY DEF Held, TypeInv, TypeOK, Allocated, CallOK, Calls, Looking

\* While a Get looks at its item, what it has found does not change.
LEMMA FindingKeeps ==
  ASSUME CInv, [Next]_vars, NEW q \in Procs, call[q].pc \in Held, call'[q].pc \in Held, Same(q)
  PROVE  Finding(q)' = Finding(q) /\ (call[q].item \in seen[q] <=> call'[q].item \in seen'[q])
<1> DEFINE i == call[q].item
<1>1. TypeInv /\ TypeInv'
  BY TypeStep DEF CInv, IInv, SeenInv
<1>2. i \in Items /\ i # Nil /\ heap[i] # Unset /\ call'[q].item = i
      /\ call'[q].key \in Keys /\ call'[q].op \in {"get", "touch", "take"}
  BY <1>1, HeldItem DEF Same
<1>3. CASE i \in seen[q]
  BY <1>1, <1>2, <1>3, SeenGrows DEF Finding, Held, Looking
<1>4. CASE i \notin seen[q]
  <2>1. ~Live(i) /\ ~Live(i)'
    BY <1>1, <1>2, <1>4, DeadStaysDead DEF CInv, HeldInv
  <2>2. View'[call'[q].key] # i
    BY <1>2, <2>1 DEF View
  <2>3. CASE UNCHANGED vars
    BY <1>2, <1>4, <2>3 DEF vars, Finding, Held
  <2>4. CASE Watch
    BY <1>2, <1>4, <2>2, <2>4 DEF Watch, Told, Finding, Held, Looking
  <2> QED
    BY <1>1, <2>3, <2>4, Moves DEF Next, Tick
<1> QED
  BY <1>3, <1>4

LEMMA Unmoved ==
  ASSUME CInv, [Next]_vars, NEW q \in Procs, call'[q] = call[q]
  PROVE  Effect(q)' = Effect(q) /\ Finding(q)' = Finding(q)
<1>1. Effect(q)' = Effect(q)
  BY DEF Effect
<1>2. CASE call[q].pc \in Held
  BY <1>1, <1>2, FindingKeeps DEF Same
<1>3. CASE call[q].pc \notin Held
  BY <1>1, <1>3 DEF Finding, Held
<1> QED
  BY <1>2, <1>3

\* A step of p moves p's operation only.
LEMMA OnlyMine ==
  ASSUME CInv, NEW p \in Procs, Step(p)
  PROVE  /\ OpOf' = [OpOf EXCEPT ![p] = Effect(p)']
         /\ HeldBy' = [HeldBy EXCEPT ![p] = Finding(p)']
         /\ now' = now /\ Watch
<1>1. now' = now /\ Watch /\ \A q \in Procs \ {p} : call'[q] = call[q]
  BY Moves DEF CInv, IInv, SeenInv
<1>2. \A q \in Procs \ {p} : Effect(q)' = Effect(q) /\ Finding(q)' = Finding(q)
  BY <1>1, Unmoved DEF Next
<1> QED
  BY <1>1, <1>2 DEF OpOf, HeldBy

\* Only a getter with a TTL option and the clock decide on the expiry of an entry.
LEMMA LiveKeeps ==
  ASSUME TypeInv, now' = now, Leaves \/ \E p \in Procs : Stores(p), NEW i \in Items, heap[i] # Unset
  PROVE  Live(i)' = Live(i)
<1>1. CASE Leaves
  BY <1>1 DEF Leaves, Live, Expiry, BeingWritten
<1>2. ASSUME NEW p \in Procs, Stores(p) PROVE Live(i)' = Live(i)
  BY <1>2 DEF Stores, Live, Expiry, BeingWritten, TypeInv, TypeOK
<1> QED
  BY <1>1, <1>2

\* With the lock free, an entry is seen if the expiry test lets it pass.
LEMMA FreeView ==
  ASSUME TypeInv, Free, NEW k \in Keys
  PROVE  /\ View[k] \in {items[k], Nil}
         /\ View[k] # Nil <=> items[k] # Nil /\ ~IsExpired(heap[items[k]], now)
BY DEF Free, View, Live, Expiry, BeingWritten, IsExpired, After, TypeInv, TypeOK, Allocated, Instants

LEMMA HeldStep ==
  ASSUME CInv, [Next]_vars
  PROVE  HeldInv'
<1> SUFFICES ASSUME NEW q \in Procs, call'[q].pc \in Held
             PROVE  call'[q].item \in seen'[q] \/ ~Live(call[q].item)'
  BY DEF HeldInv
<1>1. TypeInv /\ TypeInv'
  BY TypeStep DEF CInv, IInv, SeenInv
<1>2. call'[q] = call[q] \/ Step(q)
  BY <1>1, Moves DEF Next, Tick, vars
<1>3. CASE call[q].pc \in Held /\ Same(q)
  BY <1>1, <1>3, FindingKeeps, DeadStaysDead, HeldItem DEF Same, CInv, HeldInv
<1>4. CASE Step(q) /\ call[q].pc = "idle"
  <2>1. call'[q].op \in {"get", "touch", "take"} /\ call'[q].key \in Keys /\ call'[q].item \in Items
    BY <1>1 DEF TypeInv, TypeOK, CallOK, Held, Calls
  <2>2. FoundSeen' /\ ReadingsPast'
    BY FoundSeenStep, ReadingsStep DEF CInv, IInv, SeenInv
  <2>3. call'[q].pc \in {"clock", "write"}
    BY <1>1, <1>4, CallMoves DEF Held, Looking
  <2>4. CASE FoundDead(q)' /\ call'[q].pc = "clock"
    BY <1>1, <2>1, <2>4 DEF FoundDead, Live, Expiry, TypeInv, TypeOK, Allocated, Instants
  <2> QED
    BY <2>2, <2>3, <2>4 DEF FoundSeen, Looking
<1>5. CASE Step(q) /\ call[q].pc # "idle"
  BY <1>1, <1>3, <1>5, CallMoves DEF Held, Looking
<1> QED
  BY <1>2, <1>3, <1>4, <1>5 DEF Same

LEMMA ContractInv == Spec => []CInv
<1>1. Init => HeldInv
  BY DEF Init, HeldInv, Held, Idle, At, Looking
<1>2. CInv /\ [Next]_vars => HeldInv'
  BY HeldStep
<1> QED
  BY <1>1, <1>2, InductiveInvariantCorrect, PTL DEF Spec, CInv

-----------------------------------------------------------------------------
(* One lemma for each operation: the step of the contract that it is. *)

LEMMA InitMaps == Init => Contract!Init
  BY DEF Init, Contract!Init, View, Effect, Finding, Idle, At, Looking

\* The contract does not see it.
LEMMA Unseen ==
  ASSUME CInv, NEW p \in Procs, Step(p), items' = items, served' = served,
         Leaves \/ Stores(p), Used' = Used,
         Effect(p)' = Effect(p), Finding(p)' = Finding(p)
  PROVE  UNCHANGED Contract!vars
<1>1. TypeInv /\ now' = now
  BY OnlyMine DEF CInv, IInv, SeenInv
<1>2. \A i \in Items : heap[i] # Unset => Live(i)' = Live(i)
  BY <1>1, LiveKeeps
<1>3. View' = View /\ Lapsed' = Lapsed
  BY <1>1, <1>2 DEF View, Lapsed, TypeInv, TypeOK, Allocated
<1>4. OpOf' = OpOf /\ HeldBy' = HeldBy
  BY OnlyMine DEF OpOf, HeldBy
<1> QED
  BY <1>3, <1>4 DEF Contract!vars, Lapsed, Used, OpOf, HeldBy

LEMMA DeleteMaps ==
  ASSUME CInv, NEW p \in Procs, NEW k \in Keys, Delete(p, k)
  PROVE  Contract!Delete(p, k)
<1>1. TypeInv /\ Step(p)
  BY DEF CInv, IInv, SeenInv, Step, Invoke
<1>2. call[p].pc = "idle" /\ call'[p] = At("done", "delete", Nil, Nil)
  BY <1>1 DEF Delete, Begins, Finish, Goto, TypeInv, TypeOK
<1>3. Effect(p) = "none" /\ Effect(p)' = "done" /\ Finding(p) = {} /\ Finding(p)' = {}
  BY <1>2 DEF Effect, Finding, At, Looking
<1>4. Leaves /\ heap' = heap /\ served' = served /\ items' = [items EXCEPT ![k] = Nil]
  BY <1>1 DEF Delete, Begins, Free, Leaves
<1>5. \A i \in Items : heap[i] # Unset => Live(i)' = Live(i)
  BY <1>1, <1>4, LiveKeeps, OnlyMine
<1>6. View' = [View EXCEPT ![k] = Nil] /\ Lapsed' \subseteq Lapsed
  BY <1>1, <1>4, <1>5 DEF View, Lapsed, TypeInv, TypeOK, Allocated
<1>7. OpOf' = [OpOf EXCEPT ![p] = "done"] /\ HeldBy' = HeldBy
  BY <1>1, <1>3, OnlyMine DEF HeldBy
<1> QED
  BY <1>3, <1>4, <1>6, <1>7
     DEF Contract!Delete, Contract!Begins, Contract!Becomes, Contract!Lapse, Lapsed, OpOf, HeldBy

\* newItem under key k, for Set and SetOrFail.
LEMMA StoreMaps ==
  ASSUME CInv, NEW p \in Procs, Step(p), NEW k \in Keys, NEW o \in SetOpts,
         Begins(p), mux' = mux, Store(k, o)
  PROVE  Contract!Put(k)
<1>1. TypeInv /\ now' = now
  BY OnlyMine DEF CInv, IInv, SeenInv
<1>2. PICK i \in Items :
        /\ heap[i] = Unset
        /\ heap' = [heap EXCEPT ![i] = NewUntil(o, DefaultTTL, now)]
        /\ items' = [items EXCEPT ![k] = i]
  BY DEF Store
<1>3. NewUntil(o, DefaultTTL, now) \in Instants /\ i # Nil
  BY <1>1, NewUntilType DEF TypeInv, TypeOK
<1>4. Used' = Used \cup {i} /\ i \notin Used
  BY <1>1, <1>2, <1>3 DEF Used, TypeInv, TypeOK
<1>5. Leaves
  BY <1>1, <1>2 DEF Leaves, Begins, Free, TypeInv, TypeOK
<1>6. \A j \in Items : heap[j] # Unset => Live(j)' = Live(j)
  BY <1>1, <1>5, LiveKeeps
<1>7. \A l \in Keys : items[l] # i
  BY <1>1, <1>2, <1>3 DEF TypeInv, TypeOK, Allocated
<1>8. CASE Live(i)'
  <2>1. View' = [View EXCEPT ![k] = i] /\ Lapsed' \subseteq Lapsed
    BY <1>1, <1>2, <1>3, <1>6, <1>7, <1>8 DEF View, Lapsed, TypeInv, TypeOK, Allocated
  <2> QED
    BY <1>4, <2>1 DEF Contract!Put, Contract!Lapse, Lapsed, Used
<1>9. CASE ~Live(i)'
  <2>1. View' = [View EXCEPT ![k] = Nil] /\ Lapsed' \subseteq Lapsed \cup {i}
    BY <1>1, <1>2, <1>3, <1>6, <1>7, <1>9 DEF View, Lapsed, TypeInv, TypeOK, Allocated
  <2> QED
    BY <1>4, <2>1 DEF Contract!Put, Contract!Lapse, Lapsed, Used
<1> QED
  BY <1>8, <1>9

\* Set and SetOrFail: one section, and the call is done.
LEMMA SetMaps ==
  ASSUME CInv, NEW p \in Procs, NEW k \in Keys, NEW o \in SetOpts, Set(p, k, o) \/ SetOrFail(p, k, o)
  PROVE  Contract!Set(p, k) \/ Contract!SetOrFail(p, k)
<1>1. TypeInv /\ Step(p) /\ Begins(p) /\ mux' = mux /\ served' = served
  BY DEF CInv, IInv, SeenInv, Step, Invoke, Set, SetOrFail
<1>2. PICK op \in {"set", "setorfail"} : call'[p] = At("done", op, Nil, Nil)
  BY <1>1 DEF Set, SetOrFail, Finish, Goto, TypeInv, TypeOK
<1>3. Effect(p) = "none" /\ Effect(p)' = "done" /\ Finding(p) = {} /\ Finding(p)' = {}
  BY <1>1, <1>2 DEF Begins, Effect, Finding, At, Looking
<1>4. OpOf[p] = "none" /\ OpOf' = [OpOf EXCEPT ![p] = "done"] /\ HeldBy' = HeldBy
  BY <1>1, <1>3, OnlyMine DEF HeldBy, OpOf
<1>5. ASSUME Set(p, k, o) PROVE Contract!Set(p, k)
  <2>1. Contract!Put(k)
    BY <1>1, <1>5, StoreMaps DEF Set
  <2> QED
    BY <1>1, <1>4, <2>1 DEF Contract!Set, Contract!Begins, Contract!Becomes, OpOf, HeldBy
<1>6. ASSUME SetOrFail(p, k, o) PROVE Contract!SetOrFail(p, k)
  <2>1. items[k] # Nil /\ ~IsExpired(heap[items[k]], now) <=> View[k] # Nil
    BY <1>1, FreeView DEF Begins
  <2>2. CASE UNCHANGED <<items, heap>> /\ View[k] # Nil
    <3>1. Leaves
      BY <1>1, <2>2 DEF Leaves, Begins, Free
    <3>2. UNCHANGED <<View, Lapsed, Used>>
      BY <1>1, <2>2, <3>1, LiveKeeps, OnlyMine DEF View, Lapsed, Used, TypeInv, TypeOK, Allocated
    <3> QED
      BY <1>1, <1>4, <2>2, <3>2
         DEF Contract!SetOrFail, Contract!Begins, Contract!Becomes, Lapsed, Used, OpOf, HeldBy
  <2>3. CASE Store(k, o) /\ View[k] = Nil
    <3>1. Contract!Put(k)
      BY <1>1, <2>3, StoreMaps
    <3> QED
      BY <1>1, <1>4, <2>3, <3>1 DEF Contract!SetOrFail, Contract!Begins, Contract!Becomes, OpOf, HeldBy
  <2> QED
    BY <1>6, <2>1, <2>2, <2>3 DEF SetOrFail
<1> QED
  BY <1>5, <1>6

\* What a getter that leaves the expiry alone finds: Effect and Finding.
LEMMA LookupFinds ==
  ASSUME CInv, NEW p \in Procs, Step(p), Begins(p), NEW k \in Keys, NEW op \in {"get", "touch", "take"},
         \/ items[k] = Nil /\ Finish(p, "miss", op, k, Nil)
         \/ items[k] # Nil /\ Found(p, op, k, items[k])
         \/ items[k] # Nil /\ \E u : Goto(p, [At("write", op, k, items[k]) EXCEPT !.until = u]),
         View'[k] \in {View[k], Nil}
  PROVE  /\ OpOf[p] = "none"
         /\ OpOf' = [OpOf EXCEPT ![p] = IF op = "take" THEN "take" ELSE "get"]
         /\ HeldBy' = [HeldBy EXCEPT ![p] = {View[k]} \ {Nil}]
<1>1. TypeInv /\ \A c : Goto(p, c) => call'[p] = c
  BY DEF CInv, IInv, SeenInv, Goto, TypeInv, TypeOK
<1>2. OpOf[p] = "none"
  BY DEF OpOf, Effect, Begins
<1>3. CASE items[k] = Nil /\ Finish(p, "miss", op, k, Nil)
  <2>1. call'[p] = At("miss", op, k, Nil)
    BY <1>1, <1>3 DEF Finish
  <2>2. Effect(p)' = (IF op = "take" THEN "take" ELSE "get") /\ Finding(p)' = {}
    BY <2>1 DEF Effect, Finding, At, Looking
  <2>3. View[k] = Nil
    BY <1>3 DEF View
  <2> QED
    BY <1>2, <2>2, <2>3, OnlyMine
<1>4. CASE items[k] # Nil /\ call'[p].pc \in {"clock", "write"} /\ call'[p].op = op
           /\ call'[p].key = k /\ call'[p].item = items[k]
  <2>1. Effect(p)' = (IF op = "take" THEN "take" ELSE "get")
    BY <1>4 DEF Effect
  <2>2. seen'[p] = {View'[k], View[k]}
    BY <1>4, OnlyMine DEF Watch, Told, Begins
  <2>3. Finding(p)' = {View[k]} \ {Nil}
    BY <1>4, <2>2 DEF Finding, Looking, View
  <2> QED
    BY <1>2, <2>1, <2>3, OnlyMine
<1>5. CASE items[k] # Nil /\ Found(p, op, k, items[k])
  BY <1>1, <1>4, <1>5 DEF Found, At
<1>6. ASSUME items[k] # Nil, NEW u, Goto(p, [At("write", op, k, items[k]) EXCEPT !.until = u])
      PROVE  /\ call'[p].pc \in {"clock", "write"} /\ call'[p].op = op
             /\ call'[p].key = k /\ call'[p].item = items[k]
  BY <1>1, <1>6 DEF At
<1> QED
  BY <1>3, <1>4, <1>5, <1>6

LEMMA GetReadMaps ==
  ASSUME CInv, NEW p \in Procs, NEW k \in Keys, GetRead(p, k)
  PROVE  Contract!Look(p, k)
<1>1. TypeInv /\ Step(p) /\ Begins(p) /\ items' = items /\ heap' = heap /\ served' = served /\ Leaves
  BY DEF CInv, IInv, SeenInv, Step, Invoke, GetRead, Begins, Free, Leaves
<1>2. UNCHANGED <<View, Lapsed, Used>>
  BY <1>1, LiveKeeps, OnlyMine DEF View, Lapsed, Used, TypeInv, TypeOK, Allocated
<1>3. OpOf[p] = "none" /\ OpOf' = [OpOf EXCEPT ![p] = "get"]
      /\ HeldBy' = [HeldBy EXCEPT ![p] = {View[k]} \ {Nil}]
  BY <1>1, <1>2, LookupFinds DEF GetRead
<1> QED
  BY <1>1, <1>2, <1>3
     DEF Contract!Look, Contract!Begins, Contract!Becomes, Contract!Finds, Lapsed, Used, OpOf, HeldBy

\* A TTL option may end the time of the entry it finds.
LEMMA TouchMaps ==
  ASSUME CInv, NEW p \in Procs, NEW k \in Keys, NEW o \in GetOpts, GetLocked(p, k, o),
         Usable(items[k]), Touch(p, k, o)
  PROVE  Contract!Look(p, k)
<1> DEFINE i == items[k]
           u == Touched(o, heap[i], DefaultTTL, now)
<1>1. /\ TypeInv /\ MapInv /\ Step(p) /\ Begins(p) /\ i \in Items /\ i # Nil
      /\ items' = items /\ heap' = heap /\ served' = served /\ mux = Nil /\ mux' = p
  BY DEF CInv, IInv, SeenInv, OnceInv, Step, Invoke, GetLocked, Begins, Free, Touch, Usable,
         TypeInv, TypeOK
<1>2. now' = now /\ call'[p] = [At("write", "touch", k, i) EXCEPT !.until = u]
  BY <1>1, OnlyMine DEF Touch, Goto, TypeInv, TypeOK
<1> HIDE DEF u
<1>3. \A j \in Items \ {i} : heap[j] # Unset => Live(j)' = Live(j)
  BY <1>1, <1>2 DEF Live, Expiry, BeingWritten, At
<1>4. View[k] = i
  BY <1>1, FreeView DEF Usable, Begins
<1>5. Used' = Used
  BY <1>1 DEF Used
<1>6. View'[k] \in {View[k], Nil}
  BY <1>1, <1>4 DEF View
<1>7. OpOf[p] = "none" /\ OpOf' = [OpOf EXCEPT ![p] = "get"]
      /\ HeldBy' = [HeldBy EXCEPT ![p] = {View[k]} \ {Nil}]
  BY <1>1, <1>2, <1>6, LookupFinds DEF Touch
<1>8. \A l \in Keys \ {k} : items[l] # i /\ View'[l] = View[l]
  BY <1>1, <1>3 DEF MapInv, View, TypeInv, TypeOK, Allocated
<1>9. Live(i)
  BY <1>4, <1>1 DEF View
<1>10. CASE Live(i)'
  <2>1. View' = View /\ Lapsed' = Lapsed
    BY <1>1, <1>3, <1>8, <1>9, <1>10 DEF View, Lapsed, TypeInv, TypeOK, Allocated
  <2> QED
    BY <1>1, <1>5, <1>7, <2>1
       DEF Contract!Look, Contract!Begins, Contract!Becomes, Contract!Finds, Lapsed, Used, OpOf, HeldBy
<1>11. CASE ~Live(i)'
  <2>1. View' = [View EXCEPT ![k] = Nil] /\ Lapsed' \subseteq Lapsed \cup ({View[k]} \ {Nil})
    <3>1. View'[k] = Nil
      BY <1>1, <1>11 DEF View
    <3>2. View' = [View EXCEPT ![k] = Nil]
      BY <1>8, <3>1 DEF View
    <3>3. ASSUME NEW j \in Lapsed', j # i PROVE j \in Lapsed
      BY <1>1, <1>3, <3>3 DEF Lapsed, TypeInv, Allocated
    <3> QED
      BY <1>1, <1>4, <3>2, <3>3
  <2> QED
    BY <1>1, <1>5, <1>7, <2>1
       DEF Contract!Look, Contract!Begins, Contract!Becomes, Contract!Finds, Contract!Lapse,
           Lapsed, Used, OpOf, HeldBy
<1> QED
  BY <1>10, <1>11

LEMMA GetLockedMaps ==
  ASSUME CInv, NEW p \in Procs, NEW k \in Keys, NEW o \in GetOpts, GetLocked(p, k, o)
  PROVE  Contract!Look(p, k) \/ Contract!Take(p, k)
<1> DEFINE i  == items[k]
           op == IF o.delete THEN "take" ELSE "touch"
<1>1. /\ TypeInv /\ MapInv /\ Step(p) /\ Begins(p) /\ op \in {"touch", "take"}
      /\ heap' = heap /\ served' = served
  BY DEF CInv, IInv, SeenInv, OnceInv, Step, Invoke, GetLocked
<1>2. Used' = Used
  BY <1>1 DEF Used
<1>3. CASE \/ i = Nil /\ Finish(p, "miss", op, k, Nil) /\ UNCHANGED <<items, mux>>
           \/ i # Nil /\ ~Usable(i) /\ Found(p, op, k, i) /\ UNCHANGED <<items, mux>>
  <2>1. View[k] = Nil
    BY <1>1, <1>3, FreeView DEF Usable, Begins
  <2>2. Leaves
    BY <1>1, <1>3 DEF Leaves, Begins, Free
  <2>3. UNCHANGED <<View, Lapsed>>
    BY <1>1, <1>3, <2>2, LiveKeeps, OnlyMine DEF View, Lapsed, TypeInv, TypeOK, Allocated
  <2>4. /\ OpOf[p] = "none"
        /\ OpOf' = [OpOf EXCEPT ![p] = IF op = "take" THEN "take" ELSE "get"]
        /\ HeldBy' = [HeldBy EXCEPT ![p] = {View[k]} \ {Nil}]
    BY <1>1, <1>3, <2>3, LookupFinds
  <2>5. View' = [View EXCEPT ![k] = Nil]
    BY <2>1, <2>3 DEF View
  <2>6. CASE op = "take"
    BY <1>1, <1>2, <2>3, <2>4, <2>5, <2>6
       DEF Contract!Take, Contract!Begins, Contract!Becomes, Contract!Finds, Lapsed, Used, OpOf, HeldBy
  <2>7. CASE op # "take"
    BY <1>1, <1>2, <2>3, <2>4, <2>7
       DEF Contract!Look, Contract!Begins, Contract!Becomes, Contract!Finds, Lapsed, Used, OpOf, HeldBy
  <2> QED
    BY <2>6, <2>7
<1>4. CASE Usable(i) /\ o.delete /\ Take(p, k)
  <2>1. i # Nil /\ i \in Items /\ items' = [items EXCEPT ![k] = Nil] /\ mux' = mux /\ View[k] = i
    BY <1>1, <1>4, FreeView DEF Usable, Take, Begins, TypeInv, TypeOK
  <2>2. Leaves
    BY <1>1, <2>1 DEF Leaves, Begins, Free
  <2>3. \A j \in Items : heap[j] # Unset => Live(j)' = Live(j)
    BY <1>1, <2>2, LiveKeeps, OnlyMine
  <2>4. View' = [View EXCEPT ![k] = Nil]
    BY <1>1, <2>1, <2>3 DEF View, TypeInv, TypeOK, Allocated
  <2>5. Live(i) /\ i \notin Lapsed
    BY <2>1 DEF View, Lapsed
  <2>6. Lapsed' = Lapsed
    BY <1>1, <2>1, <2>3, <2>5 DEF Lapsed, TypeInv, TypeOK, Allocated
  <2>7. View'[k] \in {View[k], Nil}
    BY <2>4 DEF View
  <2>8. /\ OpOf[p] = "none"
        /\ OpOf' = [OpOf EXCEPT ![p] = "take"]
        /\ HeldBy' = [HeldBy EXCEPT ![p] = {View[k]} \ {Nil}]
    BY <1>1, <1>4, <2>1, <2>7, LookupFinds DEF Take
  <2> QED
    BY <1>1, <1>2, <2>4, <2>6, <2>8
       DEF Contract!Take, Contract!Begins, Contract!Becomes, Contract!Finds, Lapsed, Used, OpOf, HeldBy
<1>5. CASE Usable(i) /\ Touch(p, k, o)
  BY <1>5, TouchMaps
<1> QED
  BY <1>3, <1>4, <1>5 DEF GetLocked

\* The steps of a call that callers cannot tell: it stores an expiry that was
\* decided already, reads the clock, or waits for the lock.
LEMMA QuietMaps ==
  ASSUME CInv, NEW p \in Procs,
         \/ GetWrite(p) \/ ReadClock(p)
         \/ \E op \in {"cleanup", "drain"} : SweepStart(p, op)
  PROVE  UNCHANGED Contract!vars
<1>1. TypeInv /\ Step(p) /\ items' = items /\ served' = served
  BY DEF CInv, IInv, SeenInv, Step, Invoke, Lockless, GetWrite, ReadClock, SweepStart
<1>2. Leaves \/ Stores(p)
  BY <1>1, Moves DEF GetWrite, ReadClock, SweepStart, Stores, Leaves, TypeInv, TypeOK, LockHeld
<1>3. Used' = Used
  BY <1>1 DEF GetWrite, ReadClock, SweepStart, Used, TypeInv, TypeOK, Allocated, CallOK, Calls
<1>4. CASE GetWrite(p) \/ ReadClock(p)
  <2>1. call[p].pc \in {"write", "clock"} /\ call'[p].pc \in {"clock", "zero"} /\ Same(p)
    <3>1. \A c : Goto(p, c) => call'[p] = c
      BY <1>1 DEF Goto, TypeInv, TypeOK
    <3>2. CASE GetWrite(p)
      BY <3>1, <3>2 DEF GetWrite, Found, At, Same
    <3>3. CASE ReadClock(p)
      BY <1>1, <3>1, <3>3 DEF ReadClock, Same, TypeInv, TypeOK, Calls
    <3> QED
      BY <1>4, <3>2, <3>3
  <2>2. Effect(p)' = Effect(p)
    BY <2>1 DEF Effect, Same
  <2> QED
    BY <1>1, <1>2, <1>3, <2>1, <2>2, FindingKeeps, Unseen DEF Next, Held, Looking
<1>5. CASE \E op \in {"cleanup", "drain"} : SweepStart(p, op)
  <2>1. call[p].pc = "idle" /\ call'[p].pc = "sweep"
    BY <1>1, <1>5 DEF SweepStart, Goto, At, TypeInv, TypeOK
  <2>2. Effect(p)' = Effect(p) /\ Finding(p)' = Finding(p)
    BY <2>1 DEF Effect, Finding, Looking
  <2> QED
    BY <1>1, <1>2, <1>3, <2>2, Unseen
<1> QED
  BY <1>4, <1>5

\* isExpired has the answer: a hit, or an item to evict.
LEMMA JudgeMaps ==
  ASSUME CInv, NEW p \in Procs, ReadZero(p) \/ ReadAfter(p)
  PROVE  Contract!Hit(p) \/ UNCHANGED Contract!vars
<1>1. /\ TypeInv /\ FoundSeen /\ Step(p) /\ items' = items /\ heap' = heap /\ mux' = mux
      /\ call[p].pc \in {"zero", "after"}
  BY DEF CInv, IInv, SeenInv, Step, Lockless, ReadZero, ReadAfter
<1>2. Leaves
  BY <1>1, Moves DEF Leaves, TypeInv, TypeOK, LockHeld
<1>3. UNCHANGED <<View, Lapsed, Used>>
  BY <1>1, <1>2, LiveKeeps, OnlyMine DEF View, Lapsed, Used, TypeInv, TypeOK, Allocated
<1>4. PICK i \in Items : i = call[p].item /\ call[p].op \in {"get", "touch", "take"}
  BY <1>1, HeldItem DEF Held, Looking
<1>5. OpOf[p] = IF call[p].op = "take" THEN "take" ELSE "get"
  BY <1>1 DEF OpOf, Effect
<1>6. CASE Hit(p)
  <2>1. call'[p] = At("hit", call[p].op, call[p].key, i)
    BY <1>1, <1>4, <1>6 DEF Hit, Finish, Goto, TypeInv, TypeOK
  <2>2. i \in seen[p]
    BY <1>1, <1>4, <1>6, DeadNeverHits DEF FoundSeen
  <2>3. HeldBy[p] = {i}
    BY <1>1, <1>4, <2>2 DEF HeldBy, Finding, Looking
  <2>4. Effect(p)' = "done" /\ Finding(p)' = {}
    BY <2>1 DEF Effect, Finding, At, Looking
  <2>5. OpOf' = [OpOf EXCEPT ![p] = "done"] /\ HeldBy' = [HeldBy EXCEPT ![p] = {}]
    BY <1>1, <2>4, OnlyMine
  <2>6. served' = IF call[p].op = "take"
                    THEN [v \in Items |-> IF v \in HeldBy[p] THEN served[v] + 1 ELSE served[v]]
                    ELSE served
    BY <1>1, <1>4, <1>6, <2>3 DEF Hit, TypeInv, TypeOK
  <2> QED
    BY <1>3, <1>5, <2>3, <2>5, <2>6
       DEF Contract!Hit, Contract!Becomes, Contract!Serve, Lapsed, Used, OpOf, HeldBy
<1>7. CASE (GotoPc(p, "after") \/ GotoPc(p, "evict")) /\ served' = served
  <2>1. call'[p].pc \in {"after", "evict"} /\ Same(p)
    BY <1>1, <1>7 DEF GotoPc, Goto, Same, TypeInv, TypeOK, Calls
  <2>2. Effect(p)' = Effect(p)
    BY <1>1, <2>1 DEF Effect, Same
  <2>3. Finding(p)' = Finding(p)
    BY <1>1, <2>1, FindingKeeps DEF Next, Held, Looking
  <2> QED
    BY <1>1, <1>2, <1>3, <1>7, <2>2, <2>3, Unseen
<1> QED
  BY <1>6, <1>7 DEF ReadZero, ReadAfter

\* An eviction removes the item that the call found, or one whose time is up.
LEMMA EvictMaps ==
  ASSUME CInv, NEW p \in Procs, Evict(p)
  PROVE  Contract!Forget(p)
<1>1. /\ TypeInv /\ MapInv /\ Step(p) /\ heap' = heap /\ mux' = mux /\ served' = served
      /\ call[p].pc = "evict" /\ Free
  BY DEF CInv, IInv, SeenInv, OnceInv, Step, Locking, Evict
<1>2. Leaves
  BY <1>1 DEF Leaves, Free
<1>3. PICK i \in Items, k \in Keys :
        /\ i = call[p].item /\ k = call[p].key /\ i # Nil
        /\ call[p].op \in {"get", "touch", "take"}
  BY <1>1, HeldItem DEF Held
<1>4. items' = IF items[k] = i THEN [items EXCEPT ![k] = Nil] ELSE items
  BY <1>3 DEF Evict, StillHeld
<1>5. call'[p] = At("miss", call[p].op, k, i)
  BY <1>1, <1>3 DEF Evict, Finish, Goto, TypeInv, TypeOK
<1>6. Effect(p)' = Effect(p) /\ Effect(p) \in {"get", "take"} /\ Finding(p)' = {}
  BY <1>1, <1>5 DEF Effect, Finding, At, Looking
<1>7. OpOf' = OpOf /\ OpOf[p] \in {"get", "take"} /\ HeldBy' = [HeldBy EXCEPT ![p] = {}]
  BY <1>1, <1>6, OnlyMine DEF OpOf
<1>8. HeldBy[p] = IF i \in seen[p] THEN {i} ELSE {}
  BY <1>1, <1>3 DEF HeldBy, Finding
<1>9. \A j \in Items : heap[j] # Unset => Live(j)' = Live(j)
  BY <1>1, <1>2, LiveKeeps, OnlyMine
<1>10. Used' = Used /\ Lapsed' \subseteq Lapsed
  BY <1>1, <1>4, <1>9 DEF Used, Lapsed, TypeInv, TypeOK, Allocated
<1>11. CASE items[k] = i /\ Live(i)
  <2>1. i \in seen[p]
    BY <1>1, <1>3, <1>11 DEF CInv, HeldInv, Held
  <2>2. View' = [l \in Keys |-> IF View[l] \in HeldBy[p] THEN Nil ELSE View[l]]
    BY <1>1, <1>3, <1>4, <1>8, <1>9, <1>11, <2>1 DEF View, MapInv, TypeInv, TypeOK, Allocated
  <2> QED
    BY <1>1, <1>7, <1>10, <2>2
       DEF Contract!Forget, Contract!Becomes, Contract!Lapse, Lapsed, Used, OpOf, HeldBy
<1>12. CASE ~(items[k] = i /\ Live(i))
  <2>1. View' = View
    BY <1>1, <1>3, <1>4, <1>9, <1>12 DEF View, TypeInv, TypeOK, Allocated
  <2> QED
    BY <1>1, <1>7, <1>10, <2>1
       DEF Contract!Forget, Contract!Becomes, Contract!Lapse, Lapsed, Used, OpOf, HeldBy
<1> QED
  BY <1>11, <1>12

\* Cleanup removes what nobody sees any more; Drain hands out what is seen, and
\* the entries that its old reading of the clock takes for live.
LEMMA SweepMaps ==
  ASSUME CInv, NEW p \in Procs, Sweep(p)
  PROVE  Contract!Cleanup(p) \/ Contract!Drain(p)
<1> DEFINE t == call[p].t
<1>1. /\ TypeInv /\ Step(p) /\ heap' = heap /\ mux' = mux /\ call[p].pc = "sweep" /\ Free
      /\ t \in Int /\ now \in Int /\ t <= now
  BY DEF CInv, IInv, SeenInv, ReadingsPast, Step, Locking, Sweep, TypeInv, TypeOK, Calls
<1>2. Leaves
  BY <1>1 DEF Leaves, Free
<1>3. call'[p] = At("done", call[p].op, Nil, Nil)
  BY <1>1 DEF Sweep, Finish, Goto, TypeInv, TypeOK
<1>4. Effect(p) = "none" /\ Effect(p)' = "done" /\ Finding(p) = {} /\ Finding(p)' = {}
  BY <1>1, <1>3 DEF Effect, Finding, At, Looking
<1>5. OpOf[p] = "none" /\ OpOf' = [OpOf EXCEPT ![p] = "done"] /\ HeldBy' = HeldBy
  BY <1>1, <1>4, OnlyMine DEF OpOf, HeldBy
<1>6. \A j \in Items : heap[j] # Unset => Live(j)' = Live(j)
  BY <1>1, <1>2, LiveKeeps, OnlyMine
<1>7. Used' = Used
  BY <1>1 DEF Used
<1>8. ASSUME NEW k \in Keys, items[k] # Nil, IsExpired(heap[items[k]], t)
      PROVE  ~Live(items[k])
  BY <1>1, <1>8 DEF Free, Live, Expiry, BeingWritten, IsExpired, After, TypeInv, TypeOK, Allocated, Instants
<1> HIDE DEF t
<1>9. CASE items' = Swept(t) /\ served' = served
  <2>1. \A k \in Keys : items'[k] = IF items[k] # Nil /\ IsExpired(heap[items[k]], t) THEN Nil ELSE items[k]
    BY <1>9 DEF Swept
  <2>2. View' = View
    BY <1>1, <1>6, <1>8, <2>1 DEF View, TypeInv, TypeOK, Allocated
  <2>3. Lapsed' \subseteq Lapsed
    BY <1>1, <1>6, <2>1 DEF Lapsed, TypeInv, TypeOK, Allocated
  <2> QED
    BY <1>5, <1>7, <1>9, <2>2, <2>3
       DEF Contract!Cleanup, Contract!Begins, Contract!Becomes, Contract!Lapse, Lapsed, Used, OpOf, HeldBy
<1>10. CASE /\ items' = [k \in Keys |-> Nil]
            /\ served' = [i \in Items |-> IF \E k \in Keys : Swept(t)[k] = i
                                             THEN served[i] + 1 ELSE served[i]]
  <2> DEFINE S == {i \in Lapsed : \E k \in Keys : Swept(t)[k] = i}
             Seen == {View[k] : k \in Keys} \ {Nil}
  <2>1. ASSUME NEW i \in Items PROVE (\E k \in Keys : Swept(t)[k] = i) <=> i \in S \cup Seen
    <3>1. ASSUME NEW k \in Keys, Swept(t)[k] = i PROVE i \in S \cup Seen
      <4>1. items[k] = i /\ i # Nil
        BY <3>1 DEF Swept
      <4>2. CASE Live(i)
        BY <4>1, <4>2 DEF View
      <4>3. CASE ~Live(i)
        BY <3>1, <4>1, <4>3 DEF Lapsed
      <4> QED
        BY <4>2, <4>3
    <3>2. ASSUME NEW k \in Keys, View[k] = i, i # Nil PROVE Swept(t)[k] = i
      BY <1>8, <3>2 DEF View, Swept
    <3> QED
      BY <3>1, <3>2
  <2>2. served' = [i \in Items |-> IF i \in S \cup Seen THEN served[i] + 1 ELSE served[i]]
    BY <1>10, <2>1
  <2>3. View' = [k \in Keys |-> Nil] /\ Lapsed' = {}
    BY <1>10 DEF View, Lapsed
  <2>4. S \in SUBSET Lapsed /\ Lapsed' \in SUBSET (Lapsed \ S)
    BY <2>3
  <2> HIDE DEF S
  <2> QED
    BY <1>5, <1>7, <2>2, <2>3, <2>4
       DEF Contract!Drain, Contract!Begins, Contract!Becomes, Contract!Serve, Contract!Visible,
           Lapsed, Used, OpOf, HeldBy
<1> QED
  BY <1>9, <1>10 DEF Sweep, t

LEMMA ReturnMaps ==
  ASSUME CInv, NEW p \in Procs, Return(p)
  PROVE  Contract!Return(p)
<1>1. /\ TypeInv /\ Step(p) /\ items' = items /\ heap' = heap /\ mux' = mux /\ served' = served
      /\ call[p].pc \in {"hit", "miss", "done"}
  BY DEF CInv, IInv, SeenInv, Step, Lockless, Return
<1>2. Leaves
  BY <1>1, Moves DEF Leaves, TypeInv, TypeOK, LockHeld
<1>3. UNCHANGED <<View, Lapsed, Used>>
  BY <1>1, <1>2, LiveKeeps, OnlyMine DEF View, Lapsed, Used, TypeInv, TypeOK, Allocated
<1>4. call'[p] = Idle
  BY <1>1 DEF Return, Goto, TypeInv, TypeOK
<1>5. Effect(p) # "none" /\ Effect(p)' = "none" /\ Finding(p) = {} /\ Finding(p)' = {}
  BY <1>1, <1>4 DEF Effect, Finding, Idle, At, Looking
<1>6. OpOf[p] # "none" /\ OpOf' = [OpOf EXCEPT ![p] = "none"] /\ HeldBy[p] = {} /\ HeldBy' = HeldBy
  BY <1>1, <1>5, OnlyMine DEF OpOf, HeldBy
<1> QED
  BY <1>1, <1>3, <1>6 DEF Contract!Return, Contract!Becomes, Lapsed, Used, OpOf, HeldBy

\* With the time, entries leave the view and nothing enters it.
LEMMA TickMaps ==
  ASSUME CInv, Tick
  PROVE  Contract!Expire
<1>1. TypeInv /\ items' = items /\ heap' = heap /\ mux' = mux /\ call' = call /\ served' = served
  BY DEF CInv, IInv, SeenInv, Tick
<1>2. \A i \in Items : heap[i] # Unset /\ Live(i)' => Live(i)
  BY <1>1, DeadStaysDead DEF Next
<1>3. \A p \in Procs : Effect(p)' = Effect(p) /\ Finding(p)' = Finding(p)
  BY <1>1, Unmoved DEF Next
<1>4. UNCHANGED <<OpOf, HeldBy, Used>>
  BY <1>1, <1>3 DEF OpOf, HeldBy, Used
<1> DEFINE S == {k \in Keys : View'[k] = Nil}
<1>5. View' = [k \in Keys |-> IF k \in S THEN Nil ELSE View[k]]
  BY <1>1, <1>2 DEF View, TypeInv, TypeOK, Allocated
<1>6. Lapsed' \subseteq Lapsed \cup ({View[k] : k \in S} \ {Nil})
  <2> SUFFICES ASSUME NEW i \in Lapsed', Live(i) PROVE i \in {View[k] : k \in S} \ {Nil}
    BY <1>1 DEF Lapsed
  <2>1. PICK k \in Keys : items[k] = i /\ i # Nil /\ ~Live(i)'
    BY <1>1 DEF Lapsed
  <2>2. View[k] = i /\ View'[k] = Nil
    BY <1>1, <2>1 DEF View
  <2> QED
    BY <2>1, <2>2
<1> HIDE DEF S
<1>7. S \in SUBSET Keys
  BY DEF S
<1> QED
  BY <1>1, <1>4, <1>5, <1>6, <1>7 DEF Contract!Expire, Contract!Lapse, Lapsed, Used, OpOf, HeldBy

LEMMA StepMaps == CInv /\ [Next]_vars => [Contract!Next]_(Contract!vars)
<1> SUFFICES ASSUME CInv, [Next]_vars PROVE Contract!Next \/ UNCHANGED Contract!vars
  OBVIOUS
<1>1. CASE UNCHANGED vars
  BY <1>1 DEF vars, Contract!vars, View, Live, Expiry, BeingWritten, Effect, Finding
<1>2. CASE Tick
  BY <1>2, TickMaps DEF Contract!Next
<1>3. ASSUME NEW p \in Procs, Step(p)
      PROVE  Contract!Step(p) \/ UNCHANGED Contract!vars
  <2>1. ASSUME NEW k \in Keys, NEW o \in SetOpts, Set(p, k, o) \/ SetOrFail(p, k, o)
        PROVE  Contract!Step(p)
    BY <2>1, SetMaps DEF Contract!Step
  <2>2. ASSUME NEW k \in Keys, Delete(p, k) \/ GetRead(p, k)
        PROVE  Contract!Step(p)
    BY <2>2, DeleteMaps, GetReadMaps DEF Contract!Step
  <2>3. ASSUME NEW k \in Keys, NEW o \in GetOpts, GetLocked(p, k, o)
        PROVE  Contract!Step(p)
    BY <2>3, GetLockedMaps DEF Contract!Step
  <2>4. CASE ReadZero(p) \/ ReadAfter(p)
    BY <2>4, JudgeMaps DEF Contract!Step
  <2>5. CASE Evict(p) \/ Sweep(p) \/ Return(p)
    BY <2>5, EvictMaps, SweepMaps, ReturnMaps DEF Contract!Step
  <2> QED
    BY <1>3, <2>1, <2>2, <2>3, <2>4, <2>5, QuietMaps DEF Step, Invoke, Lockless, Locking
<1> QED
  BY <1>1, <1>2, <1>3 DEF Next, Contract!Next

\* Whatever goroutines race on the in-memory cache, every step of it is one that
\* the Cache interface allows, or one that no caller can tell (memory.go).
THEOREM KeepsContractCorrect == Spec => KeepsContract
  BY InitMaps, StepMaps, ContractInv, PTL DEF Spec, KeepsContract, Contract!Spec

-----------------------------------------------------------------------------
(* What every cache that keeps the contract does.                           *)

\* The contract again, with what is proved about it.
Kept == INSTANCE CacheContractProofs WITH
  Values <- Items, store <- View, lapsed <- Lapsed, used <- Used, op <- OpOf, held <- HeldBy

LEMMA SameContract == Contract!Spec => Kept!Spec
<1>1. Contract!Init => Kept!Init
  BY DEF Contract!Init, Kept!Init, Lapsed, Used, OpOf, HeldBy
<1>2. [Contract!Next]_(Contract!vars) => [Kept!Next]_(Kept!vars)
  <2>1. UNCHANGED Contract!vars => UNCHANGED Kept!vars
    BY DEF Contract!vars, Kept!vars, Lapsed, Used, OpOf, HeldBy
  <2>2. ASSUME NEW p \in Procs, Contract!Step(p) PROVE Kept!Step(p)
    BY <2>2 DEF Contract!Step, Kept!Step, Contract!Set, Kept!Set, Contract!SetOrFail,
       Kept!SetOrFail, Contract!Delete, Kept!Delete, Contract!Look, Kept!Look, Contract!Take,
       Kept!Take, Contract!Hit, Kept!Hit, Contract!Forget, Kept!Forget, Contract!Drain,
       Kept!Drain, Contract!Cleanup, Kept!Cleanup, Contract!Close, Kept!Close, Contract!Fail,
       Kept!Fail, Contract!Return, Kept!Return, Contract!Put, Kept!Put, Contract!Finds,
       Kept!Finds, Contract!Begins, Kept!Begins, Contract!Becomes, Kept!Becomes,
       Contract!Lapse, Kept!Lapse, Contract!Serve, Kept!Serve, Contract!Visible, Kept!Visible,
       Lapsed, Used, OpOf, HeldBy
  <2>3. Contract!Expire => Kept!Expire
    BY DEF Contract!Expire, Kept!Expire, Contract!Lapse, Kept!Lapse, Lapsed, Used, OpOf, HeldBy
  <2> QED
    BY <2>1, <2>2, <2>3 DEF Contract!Next, Kept!Next
<1> QED
  BY <1>1, <1>2, PTL DEF Contract!Spec, Kept!Spec

\* An entry that a caller could no longer see never shows again, whatever TTL
\* options and lock-free readers race for it (memory.go).
THEOREM StaysGoneCorrect == Spec => Contract!StaysGone
<1>1. Nil \notin Items
  BY ConstantsOK
<1>2. Kept!Spec => Kept!StaysGone
  BY <1>1, Kept!ContractStaysGone
<1>3. Kept!StaysGone => Contract!StaysGone
  BY PTL DEF Kept!StaysGone, Contract!StaysGone, Kept!vars, Contract!vars, Lapsed, Used, OpOf, HeldBy
<1> QED
  BY KeepsContractCorrect, SameContract, <1>2, <1>3, PTL DEF KeepsContract
=============================================================================
