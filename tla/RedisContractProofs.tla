-------------------------- MODULE RedisContractProofs --------------------------
(***************************************************************************)
(* The Redis backend implements the contract of the Cache interface, for   *)
(* any numbers of keys, goroutines and values, any options and any clock,  *)
(* as long as no request is repeated and none arrives late.                *)
(***************************************************************************)
EXTENDS RedisContract, RedisCacheProofs

USE NilIsNoInstant, NeverIsNoInstant, ConstantsOK

RInv == TypeInv /\ WorkInv /\ ShapeInv /\ Unstored

(* The abstract state. *)
Seen(f) == IF f.val # Nil /\ (f.until = Never \/ now <= f.until) THEN f.val ELSE Nil
Store == [k \in Keys |-> IF Present(k) THEN hash[k].val ELSE Nil]
Used == {v \in Values : stored[v] > 0}
Handing(p) == IF Reading(p) THEN call[p].reply ELSE {}
OpOf == [p \in Procs |-> Effect(p)]
HeldBy == [p \in Procs |-> Handing(p)]

-----------------------------------------------------------------------------
(* What the contract sees of the server.                                   *)

LEMMA Facts ==
  ASSUME TypeInv
  PROVE  /\ hash \in [Keys -> Fields] /\ now \in Int /\ stored \in [Values -> Nat]
         /\ call \in [Procs -> Calls] /\ Nil \notin Values
BY DEF TypeInv, TypeOK, Fields

LEMMA StoreSeen == ASSUME NEW k \in Keys PROVE Store[k] = Seen(hash[k])
BY DEF Store, Seen, Present

\* A command that stores nothing leaves what was seen, or nothing.
LEMMA SeenAfter ==
  ASSUME TypeInv, NEW c \in Commands, c.cmd \notin {"hset", "hsetnx", "drainscript"}
  PROVE  Seen(FieldAfter(c)) \in {Store[c.key], Nil}
<1>1. c.key \in Keys /\ hash \in [Keys -> Fields] /\ now \in Int
  BY Facts, CommandParts
<1>2. FieldAfter(c).val \in {hash[c.key].val, Nil}
  BY <1>1, FieldAfterType
<1>3. CASE Present(c.key)
  BY <1>1, <1>2, <1>3 DEF Seen, Store
<1>4. CASE ~Present(c.key)
  <2>1. FieldAfter(c) \in {hash[c.key], Absent}
    BY <1>4, CommandParts DEF FieldAfter
  <2> QED
    BY <1>1, <1>4, <2>1 DEF Seen, Absent, Present
<1> QED
  BY <1>3, <1>4

LEMMA StoreAfter ==
  ASSUME TypeInv, NEW c \in Commands, Exec(c), now' = now, c.cmd # "drainscript"
  PROVE  c.key \in Keys /\ Store' = [Store EXCEPT ![c.key] = Seen(FieldAfter(c))]
<1>1. c.key \in Keys /\ hash \in [Keys -> Fields] /\ hash' = [hash EXCEPT ![c.key] = FieldAfter(c)]
  BY Facts, CommandParts DEF Exec
<1> QED
  BY <1>1 DEF Store, Seen, Present

\* Another goroutine's part of the abstract state.
LEMMA Mine ==
  ASSUME RInv, NEW p \in Procs, NEW d, Goto(p, d)
  PROVE  /\ OpOf' = [OpOf EXCEPT ![p] = Effect(p)']
         /\ HeldBy' = [HeldBy EXCEPT ![p] = Handing(p)']
         /\ call'[p] = d
         /\ OpOf[p] = Effect(p) /\ HeldBy[p] = Handing(p)
<1>1. call'[p] = d /\ \A q \in Procs \ {p} : call'[q] = call[q]
  BY Others DEF RInv
<1>2. \A q \in Procs \ {p} : Effect(q)' = Effect(q) /\ Handing(q)' = Handing(q)
  BY <1>1 DEF Effect, Handing, Reading, Begun
<1> QED
  BY <1>1, <1>2 DEF OpOf, HeldBy

LEMMA Still ==
  ASSUME RInv, NEW p \in Procs, NEW d, Goto(p, d), Effect(p)' = Effect(p), Handing(p)' = Handing(p)
  PROVE  OpOf' = OpOf /\ HeldBy' = HeldBy
<1>1. OpOf' = [OpOf EXCEPT ![p] = OpOf[p]] /\ HeldBy' = [HeldBy EXCEPT ![p] = HeldBy[p]]
  BY Mine
<1>2. OpOf = [q \in Procs |-> OpOf[q]] /\ HeldBy = [q \in Procs |-> HeldBy[q]]
  BY DEF OpOf, HeldBy
<1> QED
  BY <1>1, <1>2

\* How far a call has come.
LEMMA Progress ==
  ASSUME RInv, NEW p \in Procs, call[p].pc = "wait"
  PROVE  /\ call[p].todo = <<>> => Begun(p)
         /\ Len(call[p].todo) <= Len(call[p].sent)
         /\ call[p].op \in {"get", "take", "drain", "delete"} =>
              \E x \in Commands :
                /\ Sole(call[p], x)
                /\ \/ call[p].todo = <<x>> /\ ~Begun(p)
                   \/ call[p].todo = <<>> /\ Begun(p)
         /\ call[p].op = "setorfail" =>
              \/ call[p].todo = <<HSetNX(call[p].key, call[p].val)>> /\ ~Begun(p)
              \/ call[p].todo = <<>> /\ Begun(p)
         /\ call[p].op = "set" =>
              LET h == HSet(call[p].key, call[p].val) IN
              \/ call[p].todo = <<h>> /\ ~Begun(p)
              \/ \E at \in Int : call[p].todo = <<h, HExpireAt(call[p].key, at)>> /\ ~Begun(p)
              \/ \E at \in Int : call[p].todo = <<HExpireAt(call[p].key, at)>> /\ Begun(p)
              \/ call[p].todo = <<>> /\ Begun(p)
         /\ call[p].op = "expire" =>
              Begun(p) /\ (call[p].todo = <<>> \/ \E at \in Int : call[p].todo = <<HExpireAt(call[p].key, at)>>)
         /\ call[p].op \in {"get", "take", "drain", "delete", "setorfail", "set", "expire"}
<1> PICK c : c = call[p]
  OBVIOUS
<1>1. ShapeOK(c) /\ AtWork(c) /\ c.pc = "wait"
  BY DEF RInv, ShapeInv, WorkInv
<1>2. /\ \A x : Len(<<x>>) = 1 /\ <<x>> # <<>>
      /\ \A x, y : Len(<<x, y>>) = 2 /\ <<x, y>> # <<>>
      /\ Len(<<>>) = 0
  BY Tuples
<1>3. Begun(p) <=> Len(c.todo) < Len(c.sent) \/ c.op = "expire"
  BY DEF Begun
<1>4. c.op \in {"get", "take", "drain", "delete", "setorfail", "set", "expire"}
  BY <1>1 DEF ShapeOK, Sole
<1>5. ASSUME c.op \in {"get", "take", "drain", "delete"}
      PROVE  \E x \in Commands :
               /\ Sole(c, x)
               /\ \/ c.todo = <<x>> /\ ~Begun(p)
                  \/ c.todo = <<>> /\ Begun(p)
  BY <1>1, <1>2, <1>3, <1>5 DEF ShapeOK
<1>6. ASSUME c.op = "setorfail"
      PROVE  \/ c.todo = <<HSetNX(c.key, c.val)>> /\ ~Begun(p)
             \/ c.todo = <<>> /\ Begun(p)
  BY <1>1, <1>2, <1>3, <1>6 DEF ShapeOK
<1>7. ASSUME c.op = "set"
      PROVE  LET h == HSet(c.key, c.val) IN
             \/ c.todo = <<h>> /\ ~Begun(p)
             \/ \E at \in Int : c.todo = <<h, HExpireAt(c.key, at)>> /\ ~Begun(p)
             \/ \E at \in Int : c.todo = <<HExpireAt(c.key, at)>> /\ Begun(p)
             \/ c.todo = <<>> /\ Begun(p)
  BY <1>1, <1>2, <1>3, <1>7 DEF AtWork, Stores, SetAtWork
<1>8. ASSUME c.op = "expire"
      PROVE  Begun(p) /\ (c.todo = <<>> \/ \E at \in Int : c.todo = <<HExpireAt(c.key, at)>>)
  BY <1>1, <1>2, <1>3, <1>8 DEF AtWork, Stores, ExpireAtWork
<1>9. c.todo = <<>> => Begun(p)
  BY <1>2, <1>4, <1>5, <1>6, <1>7, <1>8
<1>10. Len(c.todo) <= Len(c.sent)
  <2>1. CASE c.op \in {"get", "take", "drain", "delete", "setorfail"}
    BY <1>1, <1>2, <2>1 DEF ShapeOK
  <2>2. CASE c.op = "set"
    BY <1>1, <1>2, <2>2 DEF AtWork, Stores, SetAtWork
  <2>3. CASE c.op = "expire"
    BY <1>1, <1>2, <2>3 DEF AtWork, Stores, ExpireAtWork
  <2> QED
    BY <1>4, <2>1, <2>2, <2>3
<1> QED
  BY <1>4, <1>5, <1>6, <1>7, <1>8, <1>9, <1>10

-----------------------------------------------------------------------------
(* Commands as steps of the contract.                                      *)

\* The value that a call stores is new.
LEMMA PutMaps ==
  ASSUME RInv, NEW p \in Procs, Serve(p), NEW c \in Commands, c = Head(call[p].todo), Exec(c), now' = now,
         c.cmd = "hset" \/ (c.cmd = "hsetnx" /\ ~Present(c.key))
  PROVE  c.key \in Keys /\ Contract!Put(c.key)
<1>1. c.val \in Values /\ stored \in [Values -> Nat] /\ now \in Int
  BY CommandParts, Facts DEF RInv
<1>2. Seen(FieldAfter(c)) = c.val
  BY <1>1 DEF FieldAfter, Seen
<1>3. c.key \in Keys /\ Store' = [Store EXCEPT ![c.key] = c.val]
  BY <1>2, StoreAfter DEF RInv
<1>4. stored[c.val] = 0
  BY DEF RInv, Unstored, Offers, Serve, InFlight
<1>5. stored' = [stored EXCEPT ![c.val] = @ + 1]
  BY DEF Exec
<1>6. c.val \in Values \ Used /\ Used' = Used \cup {c.val}
  BY <1>1, <1>4, <1>5 DEF Used
<1> QED
  BY <1>3, <1>6 DEF Contract!Put, Contract!Lapse, Store, Used

\* An expiry that is set may lie in the past.
LEMMA ExpireMaps ==
  ASSUME RInv, NEW c \in Commands, c.cmd = "hexpireat", Exec(c), now' = now,
         UNCHANGED <<OpOf, HeldBy, served>>
  PROVE  Contract!Expire
<1>1. c.key \in Keys /\ Store' = [Store EXCEPT ![c.key] = Seen(FieldAfter(c))]
  BY StoreAfter DEF RInv
<1>2. Seen(FieldAfter(c)) \in {Store[c.key], Nil}
  BY SeenAfter DEF RInv
<1>3. Used' = Used
  BY DEF Exec, Used
<1> DEFINE S == IF Seen(FieldAfter(c)) = Nil THEN {c.key} ELSE {}
<1>4. S \in SUBSET Keys /\ Store' = [k \in Keys |-> IF k \in S THEN Nil ELSE Store[k]]
  BY <1>1, <1>2 DEF Store
<1> HIDE DEF S
<1> QED
  BY <1>3, <1>4 DEF Contract!Expire, Contract!Lapse, Store, Used, OpOf, HeldBy, Handing

\* A call that has taken effect, and one that has not.
LEMMA Effects ==
  ASSUME NEW p \in Procs, call[p].pc = "wait",
         call[p].op \in {"get", "take", "drain", "delete", "setorfail", "set", "expire"}
  PROVE  /\ ~Begun(p) => Effect(p) = "none" /\ Handing(p) = {}
         /\ Begun(p) /\ call[p].op \in {"get", "take", "drain"}
              => Effect(p) = call[p].op /\ Handing(p) = call[p].reply
         /\ Begun(p) /\ call[p].op \in {"delete", "setorfail", "set", "expire"}
              => Effect(p) = "done" /\ Handing(p) = {}
BY DEF Effect, Handing, Reading

LEMMA ServedBegun ==
  ASSUME RInv, NEW p \in Procs, Serve(p)
  PROVE  Begun(p)'
<1>1. PICK d : /\ call[p].pc = "wait" /\ call[p].todo \in Seq(Commands) /\ call[p].todo # <<>>
               /\ Goto(p, d) /\ d.sent = call[p].sent /\ d.todo = Tail(call[p].todo)
  BY ServeParts DEF RInv
<1>2. Len(d.todo) = Len(call[p].todo) - 1 /\ Len(call[p].todo) \in Nat
  BY <1>1, HeadTailProperties
<1>3. Len(call[p].todo) <= Len(call[p].sent) /\ Len(call[p].sent) \in Nat
  BY <1>1, Progress DEF RInv, TypeInv, TypeOK
<1>4. Len(d.todo) < Len(d.sent)
  BY <1>1, <1>2, <1>3
<1>5. call'[p] = d
  BY <1>1, Mine
<1> QED
  BY <1>4, <1>5 DEF Begun

\* A call that stores executes a command.
LEMMA StoringMaps ==
  ASSUME RInv, NEW p \in Procs, Serve(p), call[p].op \in {"set", "setorfail", "expire"}
  PROVE  \/ \E k \in Keys : Contract!Set(p, k) \/ Contract!SetOrFail(p, k)
         \/ Contract!Expire
<1>1. PICK c, d :
        /\ c \in Commands
        /\ call[p].pc = "wait" /\ c = Head(call[p].todo) /\ Exec(c) /\ Goto(p, d)
        /\ d.pc = "wait" /\ d.op = call[p].op /\ d.key = call[p].key /\ d.val = call[p].val
        /\ d.todo = Tail(call[p].todo) /\ call[p].todo # <<>>
        /\ UNCHANGED <<now, served>>
  BY ServeParts DEF RInv
<1>2. /\ call'[p] = d /\ OpOf[p] = Effect(p) /\ HeldBy[p] = Handing(p)
      /\ OpOf' = [OpOf EXCEPT ![p] = Effect(p)'] /\ HeldBy' = [HeldBy EXCEPT ![p] = Handing(p)']
  BY <1>1, Mine
<1>3. Begun(p)' /\ Effect(p)' = "done" /\ Handing(p)' = {}
  BY <1>1, <1>2, ServedBegun DEF Effect, Handing, Reading
<1>4. \A h, e : Head(<<h>>) = h /\ Head(<<h, e>>) = h /\ Tail(<<h>>) = <<>> /\ Tail(<<h, e>>) = <<e>>
  BY Tuples
<1>5. ASSUME c.cmd = "hexpireat", Begun(p)
      PROVE  Contract!Expire
  <2>1. Effect(p) = "done" /\ Handing(p) = {}
    BY <1>1, <1>5, Effects
  <2>2. OpOf' = OpOf /\ HeldBy' = HeldBy
    BY <1>1, <1>3, <2>1, Still
  <2> QED
    BY <1>1, <1>5, <2>2, ExpireMaps
<1>6. ASSUME ~Begun(p)
      PROVE  Contract!Begins(p) /\ Contract!Becomes(p, "done") /\ HeldBy' = HeldBy
  <2>1. Effect(p) = "none" /\ Handing(p) = {}
    BY <1>1, <1>6, Effects
  <2> QED
    BY <1>2, <1>3, <1>6, <2>1 DEF Contract!Begins, Contract!Becomes, OpOf, HeldBy
<1>7. CASE call[p].op = "set"
  <2> DEFINE h == HSet(call[p].key, call[p].val)
             e(at) == HExpireAt(call[p].key, at)
  <2>1. \/ call[p].todo = <<h>> /\ ~Begun(p)
        \/ \E at \in Int : call[p].todo = <<h, e(at)>> /\ ~Begun(p)
        \/ \E at \in Int : call[p].todo = <<e(at)>> /\ Begun(p)
    BY <1>1, <1>7, Progress
  <2>2. CASE c = h /\ ~Begun(p)
    <3>1. c.cmd = "hset" /\ c.key = call[p].key
      BY <2>2, Kinds
    <3>2. c.key \in Keys /\ Contract!Put(c.key)
      BY <1>1, <3>1, PutMaps
    <3> QED
      BY <1>1, <1>6, <2>2, <3>2 DEF Contract!Set, HeldBy, Handing
  <2>3. ASSUME NEW at \in Int, call[p].todo = <<e(at)>>, Begun(p)
        PROVE  Contract!Expire
    <3>1. c = e(at) /\ d.todo = <<>> /\ c.cmd = "hexpireat"
      BY <1>1, <1>4, <2>3, Kinds
    <3> QED
      BY <1>5, <2>3, <3>1
  <2> QED
    BY <1>1, <1>4, <2>1, <2>2, <2>3
<1>8. CASE call[p].op = "setorfail"
  <2> DEFINE h == HSetNX(call[p].key, call[p].val)
  <2>1. call[p].todo = <<h>> /\ ~Begun(p)
    BY <1>1, <1>8, Progress
  <2>2. c = h /\ d.todo = <<>> /\ c.cmd = "hsetnx" /\ c.key = call[p].key
    BY <1>1, <1>4, <2>1, Kinds
  <2>4. c.key \in Keys
    BY <1>1, <2>2, CommandParts
  <2>5. CASE Present(c.key)
    <3>1. Store[c.key] # Nil /\ hash \in [Keys -> Fields]
      BY <2>4, <2>5, Facts DEF Store, Present, RInv
    <3>2. hash' = hash /\ stored' = stored
      BY <1>1, <2>2, <2>4, <2>5, <3>1 DEF Exec, FieldAfter
    <3>3. Store' = Store /\ Used' = Used
      BY <1>1, <3>2 DEF Store, Used, Present
    <3> QED
      BY <1>1, <1>6, <2>1, <2>4, <3>1, <3>3 DEF Contract!SetOrFail, HeldBy, Handing, Store, Used
  <2>6. CASE ~Present(c.key)
    <3>1. Store[c.key] = Nil
      BY <2>4, <2>6 DEF Store
    <3>2. Contract!Put(c.key)
      BY <1>1, <2>2, <2>6, PutMaps
    <3> QED
      BY <1>1, <1>6, <2>1, <2>4, <3>1, <3>2 DEF Contract!SetOrFail, HeldBy, Handing, Store
  <2> QED
    BY <2>5, <2>6
<1>9. CASE call[p].op = "expire"
  <2>1. PICK at \in Int : call[p].todo = <<HExpireAt(call[p].key, at)>> /\ Begun(p)
    BY <1>1, <1>9, Progress
  <2>2. c.cmd = "hexpireat"
    BY <1>1, <1>4, <2>1, Kinds
  <2> QED
    BY <1>5, <2>1, <2>2
<1> QED
  BY <1>7, <1>8, <1>9

\* A call that reads or removes executes its command.
LEMMA SoleMaps ==
  ASSUME RInv, NEW p \in Procs, Serve(p), call[p].op \in {"get", "take", "drain", "delete"}
  PROVE  \/ \E k \in Keys : Contract!Delete(p, k) \/ Contract!Look(p, k) \/ Contract!Take(p, k)
         \/ Contract!Drain(p)
<1>1. PICK c, d :
        /\ c \in Commands
        /\ call[p].pc = "wait" /\ c = Head(call[p].todo) /\ Exec(c) /\ Goto(p, d)
        /\ d.pc = "wait" /\ d.op = call[p].op /\ d.reply = Reply(c)
        /\ call[p].todo # <<>>
        /\ UNCHANGED <<now, served>>
  BY ServeParts DEF RInv
<1>2. /\ call'[p] = d /\ OpOf[p] = Effect(p) /\ HeldBy[p] = Handing(p)
      /\ OpOf' = [OpOf EXCEPT ![p] = Effect(p)'] /\ HeldBy' = [HeldBy EXCEPT ![p] = Handing(p)']
  BY <1>1, Mine
<1>3. PICK x \in Commands : Sole(call[p], x) /\ call[p].todo = <<x>> /\ ~Begun(p)
  BY <1>1, Progress
<1>4. c = x
  BY <1>1, <1>3, Tuples
<1>5. Contract!Begins(p) /\ HeldBy[p] = {}
  <2>1. Effect(p) = "none" /\ Handing(p) = {}
    BY <1>1, <1>3, Effects
  <2> QED
    BY <1>2, <2>1 DEF Contract!Begins, OpOf
<1>6. /\ d.op = "delete" => Effect(p)' = "done" /\ Handing(p)' = {}
      /\ d.op # "delete" => Effect(p)' = d.op /\ Handing(p)' = Reply(c)
  BY <1>1, <1>2, ServedBegun DEF Effect, Handing, Reading
<1>7. /\ d.op = "delete" => Contract!Becomes(p, "done") /\ HeldBy' = [HeldBy EXCEPT ![p] = {}]
      /\ d.op # "delete" => Contract!Becomes(p, d.op) /\ HeldBy' = [HeldBy EXCEPT ![p] = Reply(c)]
  BY <1>2, <1>6 DEF Contract!Becomes, OpOf
<1>8. c.cmd \notin {"hset", "hsetnx"} /\ Used' = Used
  <2>1. c.cmd \notin {"hset", "hsetnx"}
    BY <1>3, <1>4, Kinds DEF Sole
  <2> QED
    BY <1>1, <2>1 DEF Exec, Used
<1>9. ASSUME c.cmd \in {"hget", "getscript"} PROVE Reply(c) = {Store[c.key]} \ {Nil}
  <2>1. c.key \in Keys /\ (Present(c.key) => hash[c.key].val # Nil)
    BY <1>1, <1>9, CommandParts DEF Present
  <2> QED
    BY <1>9, <2>1 DEF Reply, Store
<1>10. ASSUME c.cmd # "drainscript"
      PROVE  c.key \in Keys /\ Store' = [Store EXCEPT ![c.key] = Seen(FieldAfter(c))]
  BY <1>1, <1>10, StoreAfter DEF RInv
<1>11. CASE call[p].op = "get"
  <2>1. c.cmd \in {"hget", "getscript"} /\ d.op = "get"
    BY <1>1, <1>3, <1>4, <1>11, Kinds DEF Sole
  <2>2. Seen(FieldAfter(c)) \in {Store[c.key], Nil}
    BY <1>1, <2>1, SeenAfter DEF RInv
  <2>3. Store' = Store \/ Store' = [Store EXCEPT ![c.key] = Nil]
    BY <1>10, <2>1, <2>2 DEF Store
  <2> QED
    <3>1. Contract!Look(p, c.key)
      BY <1>1, <1>5, <1>8, <1>9, <1>7, <2>1, <2>3
         DEF Contract!Look, Contract!Finds, Contract!Lapse, Store, Used, HeldBy, Handing
    <3> QED
      BY <1>10, <2>1, <3>1
<1>12. CASE call[p].op = "take"
  <2>1. c.cmd = "getscript" /\ c.del /\ d.op = "take"
    BY <1>1, <1>3, <1>4, <1>12 DEF Sole
  <2>2. Seen(FieldAfter(c)) = Nil
    <3>1. CASE Present(c.key)
      BY <2>1, <3>1 DEF FieldAfter, TouchedField, Seen, Absent
    <3>2. CASE ~Present(c.key)
      BY <2>1, <3>2 DEF FieldAfter, Seen, Present
    <3> QED
      BY <3>1, <3>2
  <2> QED
    <3>1. Contract!Take(p, c.key)
      BY <1>1, <1>5, <1>8, <1>9, <1>10, <1>7, <2>1, <2>2
         DEF Contract!Take, Contract!Finds, Store, Used, HeldBy, Handing
    <3> QED
      BY <1>10, <2>1, <3>1
<1>13. CASE call[p].op = "delete"
  <2>1. c.cmd = "hdel" /\ d.op = "delete"
    BY <1>1, <1>3, <1>4, <1>13, Kinds DEF Sole
  <2>2. Seen(FieldAfter(c)) = Nil
    BY <2>1 DEF FieldAfter, Seen, Absent
  <2>3. HeldBy' = HeldBy
    BY <1>2, <1>5, <1>6, <2>1 DEF HeldBy
  <2> QED
    <3>1. Contract!Delete(p, c.key)
      BY <1>1, <1>5, <1>8, <1>10, <1>7, <2>1, <2>2, <2>3
         DEF Contract!Delete, Contract!Lapse, Store, Used, HeldBy, Handing
    <3> QED
      BY <1>10, <2>1, <3>1
<1>14. CASE call[p].op = "drain"
  <2>1. c.cmd = "drainscript" /\ d.op = "drain"
    BY <1>1, <1>3, <1>4, <1>14, Kinds DEF Sole
  <2>2. hash' = [k \in Keys |-> Absent] /\ Store' = [k \in Keys |-> Nil]
    BY <1>1, <2>1 DEF Exec, Store, Present, Absent
  <2>3. Reply(c) = {} \cup ({Store[k] : k \in Keys} \ {Nil})
    <3>1. \A k \in Keys : Store[k] = (IF Present(k) THEN hash[k].val ELSE Nil) /\ (Present(k) => hash[k].val # Nil)
      BY DEF Store, Present
    <3>2. Reply(c) = {hash[k].val : k \in {l \in Keys : Present(l)}}
      BY <2>1 DEF Reply
    <3> QED
      BY <3>1, <3>2
  <2>4. /\ {} \in SUBSET {} /\ {} \in SUBSET ({} \ {})
    OBVIOUS
  <2> QED
    BY <1>1, <1>5, <1>8, <1>7, <2>1, <2>2, <2>3, <2>4
       DEF Contract!Drain, Contract!Visible, Store, Used, HeldBy, Handing
<1> QED
  BY <1>11, <1>12, <1>13, <1>14

\* A call begins: its request is on its way, and nothing has happened.
LEMMA InvokeMaps ==
  ASSUME RInv, NEW p \in Procs, Invoke(p)
  PROVE  UNCHANGED Contract!vars
<1>1. PICK c : Begin(p, c) /\ Starts(c)
  BY Invoked DEF RInv
<1>2. Goto(p, c) /\ UNCHANGED <<now, hash, stored, served>> /\ call[p].pc = "idle"
  BY <1>1 DEF Begin
<1>3. /\ call'[p] = c /\ OpOf[p] = Effect(p) /\ HeldBy[p] = Handing(p)
      /\ OpOf' = [OpOf EXCEPT ![p] = Effect(p)'] /\ HeldBy' = [HeldBy EXCEPT ![p] = Handing(p)']
  BY <1>2, Mine
<1>4. c.pc = "wait" /\ c.op # "expire" /\ c.todo = c.sent
  BY <1>1 DEF Starts
<1>5. ~Begun(p)'
  BY <1>3, <1>4 DEF Begun
<1>6. Effect(p)' = "none" /\ Handing(p)' = {}
  BY <1>3, <1>4, <1>5 DEF Effect, Handing, Reading
<1>7. Effect(p) = "none" /\ Handing(p) = {}
  BY <1>2 DEF Effect, Handing, Reading
<1>8. OpOf' = OpOf /\ HeldBy' = HeldBy
  BY <1>2, <1>6, <1>7, Still
<1> QED
  BY <1>2, <1>8 DEF Contract!vars, Present, OpOf, HeldBy, Handing

\* The answer arrives.
LEMMA AnswerMaps ==
  ASSUME RInv, NEW p \in Procs, Answer(p)
  PROVE  Contract!Hit(p) \/ Contract!Forget(p) \/ UNCHANGED Contract!vars
<1>1. /\ call[p].pc = "wait" /\ call[p].todo = <<>> /\ UNCHANGED <<now, hash, stored>>
      /\ call[p].reply \subseteq Values
      /\ served \in [Values -> Nat]
  BY DEF Answer, RInv, TypeInv, TypeOK
<1>2. Begun(p) /\ call[p].op \in {"get", "take", "drain", "delete", "setorfail", "set", "expire"}
  BY <1>1, Progress
<1>3. PICK d : /\ Goto(p, d)
               /\ \/ d.pc = "done" /\ ~NeedsExpiry(p)
                  \/ d.pc = "wait" /\ d.op = "expire" /\ call[p].op = "setorfail" /\ served' = served
  <2>1. CASE NeedsExpiry(p)
    BY <2>1, ExpireParts DEF RInv
  <2>2. CASE ~NeedsExpiry(p)
    BY <2>2, FinishParts DEF Answer
  <2> QED
    BY <2>1, <2>2
<1>4. /\ call'[p] = d /\ OpOf[p] = Effect(p) /\ HeldBy[p] = Handing(p)
      /\ OpOf' = [OpOf EXCEPT ![p] = Effect(p)'] /\ HeldBy' = [HeldBy EXCEPT ![p] = Handing(p)']
  BY <1>3, Mine
<1>5. Effect(p)' = "done" /\ Handing(p)' = {}
  BY <1>3, <1>4 DEF Effect, Handing, Reading, Begun
<1>6. Store' = Store /\ Used' = Used
  BY <1>1 DEF Store, Used, Present
<1>7. CASE call[p].op \in {"delete", "setorfail", "set", "expire"}
  <2>1. Effect(p) = "done" /\ Handing(p) = {}
    BY <1>1, <1>2, <1>7, Effects
  <2>2. OpOf' = OpOf /\ HeldBy' = HeldBy
    BY <1>3, <1>5, <2>1, Still
  <2>3. served' = served
    <3>1. CASE NeedsExpiry(p)
      BY <1>3, <3>1
    <3>2. CASE ~NeedsExpiry(p)
      BY <1>1, <1>7, <3>2 DEF Answer
    <3> QED
      BY <3>1, <3>2
  <2> QED
    BY <1>6, <2>2, <2>3 DEF Contract!vars, Store, Used, OpOf, HeldBy, Handing
<1>8. CASE call[p].op \in {"get", "take", "drain"}
  <2>1. OpOf[p] = call[p].op /\ HeldBy[p] = call[p].reply
    BY <1>1, <1>2, <1>4, <1>8, Effects
  <2>2. OpOf' = [OpOf EXCEPT ![p] = "done"] /\ HeldBy' = [HeldBy EXCEPT ![p] = {}]
    BY <1>4, <1>5
  <2>3. served' = [v \in Values |->
                    IF call[p].op \in {"take", "drain"} /\ v \in call[p].reply
                      THEN served[v] + 1 ELSE served[v]]
    BY <1>8 DEF Answer, NeedsExpiry
  <2>4. CASE call[p].op # "drain" /\ call[p].reply = {}
    <3>1. served' = served
      BY <1>1, <2>3, <2>4
    <3> QED
      BY <1>6, <1>8, <2>1, <2>2, <3>1
         DEF Contract!Forget, Contract!Becomes, Contract!Lapse, Store, Used, OpOf, HeldBy, Handing
  <2>5. CASE call[p].op = "drain" \/ call[p].reply # {}
    <3>1. IF OpOf[p] = "get" THEN served' = served ELSE Contract!Serve(HeldBy[p])
      BY <1>1, <1>8, <2>1, <2>3 DEF Contract!Serve
    <3> QED
      BY <1>6, <1>8, <2>1, <2>2, <2>5, <3>1
         DEF Contract!Hit, Contract!Becomes, Store, Used, OpOf, HeldBy, Handing
  <2> QED
    BY <2>4, <2>5
<1> QED
  BY <1>2, <1>7, <1>8

\* A call gives up before it had any effect, or forgets what it has read.
LEMMA GiveUpMaps ==
  ASSUME RInv, NEW p \in Procs, GiveUp(p)
  PROVE  Contract!Fail(p) \/ Contract!Forget(p) \/ UNCHANGED Contract!vars
<1>1. PICK d : Goto(p, d) /\ d.pc = "done"
  BY FinishParts DEF GiveUp
<1>2. call[p].pc = "wait" /\ UNCHANGED <<now, hash, stored, served>>
  BY DEF GiveUp
<1>3. /\ call'[p] = d /\ OpOf[p] = Effect(p) /\ HeldBy[p] = Handing(p)
      /\ OpOf' = [OpOf EXCEPT ![p] = Effect(p)'] /\ HeldBy' = [HeldBy EXCEPT ![p] = Handing(p)']
  BY <1>1, Mine
<1>4. Effect(p)' = "done" /\ Handing(p)' = {}
  BY <1>1, <1>3 DEF Effect, Handing, Reading, Begun
<1>5. call[p].op \in {"get", "take", "drain", "delete", "setorfail", "set", "expire"}
  BY <1>2, Progress
<1>6. Store' = Store /\ Used' = Used
  BY <1>2 DEF Store, Used, Present
<1>7. CASE ~Begun(p)
  <2>1. OpOf[p] = "none" /\ HeldBy[p] = {}
    BY <1>2, <1>3, <1>5, <1>7, Effects
  <2>2. HeldBy' = HeldBy
    BY <1>3, <1>4, <2>1 DEF HeldBy
  <2> QED
    BY <1>2, <1>3, <1>4, <1>6, <2>1, <2>2
       DEF Contract!Fail, Contract!Begins, Contract!Becomes, Store, Used, OpOf, HeldBy, Handing
<1>8. CASE Begun(p) /\ call[p].op \in {"get", "take", "drain"}
  <2>1. OpOf[p] \in {"get", "take", "drain"}
    BY <1>2, <1>3, <1>5, <1>8, Effects
  <2> QED
    BY <1>2, <1>3, <1>4, <1>6, <2>1
       DEF Contract!Forget, Contract!Becomes, Contract!Lapse, Store, Used, OpOf, HeldBy, Handing
<1>9. CASE Begun(p) /\ call[p].op \notin {"get", "take", "drain"}
  <2>1. Effect(p) = "done" /\ Handing(p) = {}
    BY <1>2, <1>5, <1>9, Effects
  <2>2. OpOf' = OpOf /\ HeldBy' = HeldBy
    BY <1>1, <1>4, <2>1, Still
  <2> QED
    BY <1>2, <1>6, <2>2 DEF Contract!vars, Store, Used, OpOf, HeldBy, Handing
<1> QED
  BY <1>7, <1>8, <1>9

LEMMA ReturnMaps ==
  ASSUME RInv, NEW p \in Procs, Return(p)
  PROVE  Contract!Return(p)
<1>1. Goto(p, Idle) /\ call[p].pc = "done" /\ UNCHANGED <<now, hash, stored, served>>
  BY DEF Return
<1>2. /\ call'[p] = Idle /\ OpOf[p] = Effect(p) /\ HeldBy[p] = Handing(p)
      /\ OpOf' = [OpOf EXCEPT ![p] = Effect(p)'] /\ HeldBy' = [HeldBy EXCEPT ![p] = Handing(p)']
  BY <1>1, Mine
<1>3. Effect(p)' = "none" /\ Handing(p)' = {}
  BY <1>2 DEF Effect, Handing, Reading, Idle
<1>4. Effect(p) = "done" /\ Handing(p) = {}
  BY <1>1 DEF Effect, Handing, Reading
<1>5. Store' = Store /\ Used' = Used /\ HeldBy' = HeldBy
  BY <1>1, <1>2, <1>3, <1>4 DEF Store, Used, Present, HeldBy
<1> QED
  BY <1>1, <1>2, <1>3, <1>4, <1>5
     DEF Contract!Return, Contract!Becomes, Store, Used, OpOf, HeldBy, Handing

\* With the time, fields leave the view and nothing enters it.
LEMMA TickMaps ==
  ASSUME RInv, Tick
  PROVE  Contract!Expire
<1>1. UNCHANGED <<hash, call, stored, served>> /\ now' = now + 1 /\ now \in Int /\ hash \in [Keys -> Fields]
  BY Facts DEF Tick, RInv
<1>2. UNCHANGED <<OpOf, HeldBy, Used>>
  BY <1>1 DEF OpOf, HeldBy, Used, Effect, Handing, Reading, Begun
<1>3. \A k \in Keys : Present(k)' => Present(k)
  BY <1>1 DEF Present, Fields, Instants
<1> DEFINE S == {k \in Keys : ~Present(k)'}
<1>4. Store' = [k \in Keys |-> IF k \in S THEN Nil ELSE Store[k]]
  BY <1>1, <1>3 DEF Store
<1>5. S \in SUBSET Keys
  OBVIOUS
<1> HIDE DEF S
<1> QED
  BY <1>1, <1>2, <1>4, <1>5 DEF Contract!Expire, Contract!Lapse, Store, Used, OpOf, HeldBy, Handing

LEMMA InitMaps == Init => Contract!Init
<1> SUFFICES ASSUME Init PROVE Contract!Init
  OBVIOUS
<1>1. \A p \in Procs : Effect(p) = "none" /\ ~Reading(p)
  BY DEF Init, Effect, Reading, Idle
<1>2. \A k \in Keys : ~Present(k)
  BY DEF Init, Present, Absent
<1> QED
  BY <1>1, <1>2 DEF Init, Contract!Init

LEMMA StepMaps ==
  ASSUME "retry" \notin Faults, RInv, [Next]_vars
  PROVE  [Contract!Next]_(Contract!vars)
<1>1. CASE UNCHANGED vars
  <2>1. UNCHANGED <<Store, Used, OpOf, HeldBy, served>>
    BY <1>1 DEF vars, Store, Present, Used, OpOf, HeldBy, Effect, Handing, Reading, Begun
  <2> QED
    BY <2>1 DEF Contract!vars, Store, Used, OpOf, HeldBy, Handing
<1>2. CASE Tick
  BY <1>2, TickMaps DEF Contract!Next
<1>3. ASSUME NEW p \in Procs, Step(p) PROVE Contract!Next \/ UNCHANGED Contract!vars
  <2>1. CASE Invoke(p) \/ Answer(p) \/ GiveUp(p)
    BY <2>1, InvokeMaps, AnswerMaps, GiveUpMaps DEF Contract!Next, Contract!Step
  <2>2. CASE Serve(p)
    <3>1. call[p].op \in {"get", "take", "drain", "delete", "setorfail", "set", "expire"}
      BY <2>2, Progress DEF Serve, InFlight
    <3> QED
      BY <2>2, <3>1, StoringMaps, SoleMaps DEF Contract!Next, Contract!Step
  <2>3. CASE Return(p)
    BY <2>3, ReturnMaps DEF Contract!Next, Contract!Step
  <2> QED
    BY <1>3, <2>1, <2>2, <2>3 DEF Step, Retry
<1> QED
  BY <1>1, <1>2, <1>3 DEF Next, RInv, WorkInv

\* Where no request is repeated or late, every step of the Redis cache is one that
\* the Cache interface allows, or one that no caller can tell, although a call may
\* fail at any point (redis.go).
THEOREM KeepsContractCorrect ==
  ASSUME "retry" \notin Faults, "late" \notin Faults
  PROVE  Spec => KeepsContract
<1> DEFINE IInv == TypeInv /\ WorkInv /\ ShapeInv /\ BudgetInv
<1>1. Init => IInv
  BY TypeInit, WorkInit, ShapeInit, BudgetInit
<1>2. IInv /\ [Next]_vars => IInv'
  BY TypeStep, WorkStep, ShapeStep, BudgetStep
<1>3. IInv => RInv
  BY SentOnce DEF RInv
<1>4. RInv /\ [Next]_vars => [Contract!Next]_(Contract!vars)
  BY StepMaps
<1> HIDE DEF IInv
<1> QED
  BY InitMaps, <1>1, <1>2, <1>3, <1>4, PTL DEF Spec, KeepsContract, Contract!Spec

-----------------------------------------------------------------------------
(* What every cache that keeps the contract does.                           *)

\* The contract again, with what is proved about it.
Kept == INSTANCE CacheContractProofs WITH
  store <- Store, lapsed <- {}, used <- Used, op <- OpOf, held <- HeldBy

LEMMA SameContract == Contract!Spec => Kept!Spec
<1>1. Contract!Init => Kept!Init
  BY DEF Contract!Init, Kept!Init, Store, Used, OpOf, HeldBy, Handing
<1>2. [Contract!Next]_(Contract!vars) => [Kept!Next]_(Kept!vars)
  <2>1. UNCHANGED Contract!vars => UNCHANGED Kept!vars
    BY Zenon DEF Contract!vars, Kept!vars, Store, Used, OpOf, HeldBy, Handing
  <2>2. ASSUME NEW p \in Procs, Contract!Step(p) PROVE Kept!Step(p)
    BY <2>2 DEF Contract!Step, Kept!Step, Contract!Set, Kept!Set, Contract!SetOrFail,
       Kept!SetOrFail, Contract!Delete, Kept!Delete, Contract!Look, Kept!Look, Contract!Take,
       Kept!Take, Contract!Hit, Kept!Hit, Contract!Forget, Kept!Forget, Contract!Drain,
       Kept!Drain, Contract!Cleanup, Kept!Cleanup, Contract!Close, Kept!Close, Contract!Fail,
       Kept!Fail, Contract!Return, Kept!Return, Contract!Put, Kept!Put, Contract!Finds,
       Kept!Finds, Contract!Begins, Kept!Begins, Contract!Becomes, Kept!Becomes,
       Contract!Lapse, Kept!Lapse, Contract!Serve, Kept!Serve, Contract!Visible, Kept!Visible,
       Store, Used, OpOf, HeldBy, Handing
  <2>3. Contract!Expire => Kept!Expire
    BY DEF Contract!Expire, Kept!Expire, Contract!Lapse, Kept!Lapse, Store, Used, OpOf, HeldBy, Handing
  <2> QED
    BY <2>1, <2>2, <2>3 DEF Contract!Next, Kept!Next
<1> QED
  BY <1>1, <1>2, PTL DEF Contract!Spec, Kept!Spec

\* Where no request is repeated or late, no value comes back that expired, or was
\* deleted, replaced or consumed: no script revives a field, and no
\* pipeline that fails half way does (redis.go).
THEOREM StaysGoneCorrect ==
  ASSUME "retry" \notin Faults, "late" \notin Faults
  PROVE  Spec => Contract!StaysGone
<1>1. Nil \notin Values
  BY ConstantsOK
<1>2. Kept!Spec => Kept!StaysGone
  BY <1>1, Kept!ContractStaysGone
<1>3. Kept!StaysGone => Contract!StaysGone
  BY PTL DEF Kept!StaysGone, Contract!StaysGone, Kept!vars, Contract!vars, Store, Used, OpOf, HeldBy, Handing
<1> QED
  BY KeepsContractCorrect, SameContract, <1>2, <1>3, PTL DEF KeepsContract
=============================================================================
