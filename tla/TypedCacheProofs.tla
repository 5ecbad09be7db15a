--------------------------- MODULE TypedCacheProofs ---------------------------
(***************************************************************************)
(* Proofs about the typed wrapper, for any storage that keeps the contract *)
(* and any numbers of keys, goroutines and values, whichever decode.       *)
(***************************************************************************)
EXTENDS TypedCache, CacheContractProofs, FiniteSetTheorems

USE NilIsNoValue, TypedOK

\* The values that p's call has consumed and not returned yet.
Carries(p) ==
  IF typed[p].pc = "in" /\ typed[p].kind \in {"take", "drain"} THEN typed[p].data ELSE {}

\* What is in the storage's hands is not in the wrapper's: until the storage has
\* answered, a consuming call carries nothing.
Linked == \A p \in Procs : typed[p].pc = "in" =>
  /\ op[p] \in {"take", "drain"} =>
       typed[p].data = {} /\ (typed[p].kind \in {"take", "drain"} \/ held[p] = {})
  /\ op[p] = "get" => typed[p].kind \notin {"take", "drain"}

Balanced == \A v \in Values :
  /\ IsFiniteSet(Carrying(v))
  /\ served[v] = delivered[v] + reported[v] + Cardinality(Carrying(v))

TInv == IInv /\ TTypeOK /\ Linked /\ Balanced

Kinds == {"none", "set", "get", "take", "delete", "cleanup", "close", "drain", "failed"}
TypedCalls == [pc : {"out", "in", "done"}, data : SUBSET Values, ok : BOOLEAN, kind : Kinds]

-----------------------------------------------------------------------------
(* The books.                                                              *)

\* Only p's call changes what it carries.
OthersCarry(p) == \A q \in Procs \ {p} : Carries(q)' = Carries(q)

LEMMA CarryingIs == \A v \in Values : Carrying(v) = {p \in Procs : v \in Carries(p)}
  BY DEF Carrying, Carries

LEMMA QuietBalance ==
  ASSUME Balanced, NEW p \in Procs, OthersCarry(p), Carries(p)' = Carries(p),
         UNCHANGED <<served, delivered, reported>>
  PROVE  Balanced'
<1>1. \A v \in Values : Carrying(v)' = Carrying(v)
  BY CarryingIs DEF OthersCarry, Carrying, Carries
<1> QED
  BY <1>1 DEF Balanced

\* The storage hands the values of S to p's call.
LEMMA ServedBalance ==
  ASSUME Balanced, TTypeOK, TypeOK, NEW p \in Procs, OthersCarry(p), NEW S \in SUBSET Values,
         Carries(p) = {}, Carries(p)' = S, Serve(S), UNCHANGED <<delivered, reported>>
  PROVE  Balanced'
<1> SUFFICES ASSUME NEW v \in Values
             PROVE  /\ IsFiniteSet(Carrying(v)')
                    /\ served'[v] = delivered[v] + reported[v] + Cardinality(Carrying(v)')
  BY DEF Balanced
<1>1. /\ IsFiniteSet(Carrying(v)) /\ served[v] = delivered[v] + reported[v] + Cardinality(Carrying(v))
      /\ delivered[v] \in Nat /\ reported[v] \in Nat /\ Cardinality(Carrying(v)) \in Nat
  BY FS_CardinalityType DEF Balanced, TTypeOK
<1>2. p \notin Carrying(v)
  BY DEF Carrying, Carries
<1>3. CASE v \in S
  <2>1. Carrying(v)' = Carrying(v) \cup {p}
    BY <1>3 DEF OthersCarry, Carrying, Carries
  <2>2. served'[v] = served[v] + 1
    BY <1>3 DEF Serve
  <2>3. /\ IsFiniteSet(Carrying(v) \cup {p})
        /\ Cardinality(Carrying(v) \cup {p}) = Cardinality(Carrying(v)) + 1
    BY <1>1, <1>2, FS_AddElement
  <2> QED
    BY <1>1, <2>1, <2>2, <2>3
<1>4. CASE v \notin S
  <2>1. Carrying(v)' = Carrying(v)
    BY <1>2, <1>4 DEF OthersCarry, Carrying, Carries
  <2>2. served'[v] = served[v]
    BY <1>4 DEF Serve
  <2> QED
    BY <1>1, <2>1, <2>2
<1> QED
  BY <1>3, <1>4

\* p's call returns what it carries: decoded, or as an error.
LEMMA ReturnedBalance ==
  ASSUME Balanced, TTypeOK, NEW p \in Procs, OthersCarry(p), Carries(p)' = {}, UNCHANGED served,
         \/ delivered' = Add(delivered, Carries(p)) /\ UNCHANGED reported
         \/ reported' = Add(reported, Carries(p)) /\ UNCHANGED delivered
  PROVE  Balanced'
<1> SUFFICES ASSUME NEW v \in Values
             PROVE  /\ IsFiniteSet(Carrying(v)')
                    /\ served[v] = delivered'[v] + reported'[v] + Cardinality(Carrying(v)')
  BY DEF Balanced
<1>1. /\ IsFiniteSet(Carrying(v)) /\ served[v] = delivered[v] + reported[v] + Cardinality(Carrying(v))
      /\ delivered[v] \in Nat /\ reported[v] \in Nat /\ Cardinality(Carrying(v)) \in Nat
  BY FS_CardinalityType DEF Balanced, TTypeOK
<1>2. CASE v \in Carries(p)
  <2>1. Carrying(v)' = Carrying(v) \ {p} /\ p \in Carrying(v)
    BY <1>2 DEF OthersCarry, Carrying, Carries
  <2>2. delivered'[v] + reported'[v] = delivered[v] + reported[v] + 1
    BY <1>1, <1>2 DEF Add
  <2>3. delivered'[v] \in Nat /\ reported'[v] \in Nat
    BY <1>1, <1>2 DEF Add
  <2>4. IsFiniteSet(Carrying(v) \ {p}) /\ Cardinality(Carrying(v) \ {p}) = Cardinality(Carrying(v)) - 1
    BY <1>1, <2>1, FS_RemoveElement
  <2> QED
    BY <1>1, <2>1, <2>2, <2>3, <2>4
<1>3. CASE v \notin Carries(p)
  <2>1. Carrying(v)' = Carrying(v)
    BY <1>3 DEF OthersCarry, Carrying, Carries
  <2>2. delivered'[v] = delivered[v] /\ reported'[v] = reported[v]
    BY <1>3 DEF Add
  <2> QED
    BY <1>1, <2>1, <2>2
<1> QED
  BY <1>2, <1>3

-----------------------------------------------------------------------------
(* The steps.                                                              *)

LEMMA TInitOK == TInit => TInv
<1> SUFFICES ASSUME TInit PROVE TInv
  OBVIOUS
<1>1. IInv
  BY InitOK DEF TInit
<1>2. TTypeOK /\ Linked
  BY DEF TInit, Init, TTypeOK, Linked, Out
<1>3. \A v \in Values : Carrying(v) = {}
  BY DEF TInit, Out, Carrying
<1>4. Balanced
  BY <1>3, FS_EmptySet DEF TInit, Init, Balanced
<1> QED
  BY <1>1, <1>2, <1>4 DEF TInv

\* A step of the wrapper does what the storage may do, or nothing to it.
LEMMA StorageStep == [TNext]_tvars => [Next]_vars
  BY DEF TNext, tvars, history, Next, Step, TStep, TypedSet, TypedSetOrFail, TypedGet,
         TypedGetAndDelete, TypedDelete, TypedCleanup, TypedDrain, TypedClose, StorageAnswers,
         StorageReturns, TypedReturn, MarshalFails

\* What a change of p's call leaves to the others.
LEMMA OneCall ==
  ASSUME TTypeOK, NEW p \in Procs, NEW c, Goto(p, c)
  PROVE  typed'[p] = c /\ (\A q \in Procs \ {p} : typed'[q] = typed[q]) /\ OthersCarry(p)
BY DEF Goto, TTypeOK, OthersCarry, Carries

\* p's step in the storage is none of the others'.
Alone(p) == \A q \in Procs \ {p} : op'[q] = op[q] /\ held'[q] = held[q]

\* A call enters the storage, and returns from it later.
LEMMA CalledOK ==
  ASSUME TInv, IInv', NEW p \in Procs, typed[p].pc = "out", UNCHANGED history,
         NEW kind \in Kinds, NEW data \in SUBSET Values, Called(p, kind, data),
         Alone(p), op'[p] # "none",
         op'[p] \in {"take", "drain"} => data = {} /\ kind \in {"take", "drain"},
         op'[p] = "get" => kind \notin {"take", "drain"},
         Serve(IF kind \in {"take", "drain"} THEN data ELSE {})
  PROVE  TInv'
<1> DEFINE c == [Out EXCEPT !.pc = "in", !.kind = kind, !.data = data]
           S == IF kind \in {"take", "drain"} THEN data ELSE {}
<1>1. /\ c \in TypedCalls /\ c.pc = "in" /\ c.kind = kind /\ c.data = data
  BY DEF Out, TypedCalls, Kinds
<1>2. Goto(p, c)
  BY DEF Called
<1> HIDE DEF c
<1>3. typed'[p] = c /\ (\A q \in Procs \ {p} : typed'[q] = typed[q]) /\ OthersCarry(p)
  BY <1>2, OneCall DEF TInv
<1>4. typed' \in [Procs -> TypedCalls]
  BY <1>1, <1>2 DEF Goto, TInv, TTypeOK, TypedCalls, Kinds
<1>5. TTypeOK'
  BY <1>1, <1>3, <1>4 DEF TInv, TTypeOK, TypedCalls, Kinds, history, Alone
<1>6. Linked'
  BY <1>1, <1>3 DEF TInv, Linked, Alone
<1>7. Carries(p) = {} /\ Carries(p)' = S /\ S \in SUBSET Values
  BY <1>1, <1>3 DEF Carries
<1>8. Balanced'
  BY <1>3, <1>7, ServedBalance DEF TInv, IInv, history
<1> QED
  BY <1>5, <1>6, <1>8 DEF TInv

\* The steps of the contract that a call can enter the storage with.
LEMMA EntersStorage ==
  ASSUME TypeOK, NEW p \in Procs, NEW k
  PROVE  /\ Set(p, k) \/ SetOrFail(p, k) \/ Delete(p, k) \/ Cleanup(p) \/ Close(p) \/ Fail(p)
              => Alone(p) /\ op'[p] = "done" /\ Serve({})
         /\ Look(p, k) => Alone(p) /\ op'[p] = "get" /\ Serve({})
         /\ Take(p, k) => Alone(p) /\ op'[p] = "take" /\ Serve({})
<1>1. UNCHANGED served => Serve({})
  BY DEF TypeOK, Serve
<1>2. ASSUME NEW o, Becomes(p, o)
      PROVE  op'[p] = o /\ \A q \in Procs \ {p} : op'[q] = op[q]
  BY <1>2 DEF Becomes, TypeOK
<1>3. Set(p, k) \/ SetOrFail(p, k) \/ Delete(p, k) \/ Cleanup(p) \/ Close(p) \/ Fail(p)
        => Becomes(p, "done") /\ UNCHANGED <<held, served>>
  BY DEF Set, SetOrFail, Delete, Cleanup, Close, Fail
<1>4. Look(p, k) => Becomes(p, "get") /\ Finds(p, k) /\ UNCHANGED served
  BY DEF Look
<1>5. Take(p, k) => Becomes(p, "take") /\ Finds(p, k) /\ UNCHANGED served
  BY DEF Take
<1>6. Finds(p, k) => \A q \in Procs \ {p} : held'[q] = held[q]
  BY DEF Finds, TypeOK
<1> QED
  BY <1>1, <1>2, <1>3, <1>4, <1>5, <1>6 DEF Alone

LEMMA EntersOK ==
  ASSUME TInv, IInv', NEW p \in Procs, NEW k,
         \/ (TypedSet(p, k) \/ TypedSetOrFail(p, k)) /\ ~MarshalFails(p)
         \/ TypedGet(p, k) \/ TypedGetAndDelete(p, k) \/ TypedDelete(p, k)
         \/ TypedCleanup(p) \/ TypedClose(p)
  PROVE  TInv'
<1>1. typed[p].pc = "out" /\ UNCHANGED history /\ TypeOK
  BY DEF TypedSet, TypedSetOrFail, TypedGet, TypedGetAndDelete, TypedDelete, TypedCleanup, TypedClose,
         Enters, TInv, IInv
<1> DEFINE Plain == Set(p, k) \/ SetOrFail(p, k) \/ Delete(p, k) \/ Cleanup(p) \/ Close(p) \/ Fail(p)
<1>2. \/ \E kind \in {"set", "get", "delete", "cleanup", "close"} : Plain /\ Called(p, kind, {})
      \/ Look(p, k) /\ Called(p, "get", {})
      \/ Take(p, k) /\ Called(p, "take", {})
  BY DEF TypedSet, TypedSetOrFail, TypedGet, TypedGetAndDelete, TypedDelete, TypedCleanup, TypedClose
<1>3. ASSUME NEW kind \in {"set", "get", "delete", "cleanup", "close"}, Plain, Called(p, kind, {})
      PROVE  TInv'
  <2>1. Alone(p) /\ op'[p] = "done" /\ Serve({})
    BY <1>1, <1>3, EntersStorage
  <2> HIDE DEF Plain
  <2> QED
    BY <1>1, <1>3, <2>1, CalledOK DEF Kinds
<1>4. CASE Look(p, k) /\ Called(p, "get", {})
  BY <1>1, <1>4, EntersStorage, CalledOK DEF Kinds
<1>5. CASE Take(p, k) /\ Called(p, "take", {})
  BY <1>1, <1>5, EntersStorage, CalledOK DEF Kinds
<1> HIDE DEF Plain
<1> QED
  BY <1>2, <1>3, <1>4, <1>5

\* A Drain hands out what it takes at once, or later.
LEMMA DrainEntersOK ==
  ASSUME TInv, IInv', NEW p \in Procs, TypedDrain(p)
  PROVE  TInv'
<1> DEFINE new == {v \in Values : served'[v] > served[v]}
<1>1. typed[p].pc = "out" /\ UNCHANGED history /\ TypeOK
  BY DEF TypedDrain, Enters, TInv, IInv
<1>2. CASE Fail(p) /\ Called(p, "failed", {})
  <2>1. Becomes(p, "done") /\ UNCHANGED <<held, served>>
    BY <1>2 DEF Fail
  <2>2. Alone(p) /\ op'[p] = "done" /\ Serve({})
    BY <1>1, <2>1 DEF Becomes, Alone, TypeOK, Serve
  <2> QED
    BY <1>1, <1>2, <2>2, CalledOK DEF Kinds
<1>3. CASE Drain(p) /\ Called(p, "drain", new)
  <2>1. PICK S \in SUBSET lapsed :
          LET all == S \cup Visible IN
            \/ Becomes(p, "done") /\ Serve(all) /\ UNCHANGED held
            \/ Becomes(p, "drain") /\ held' = [held EXCEPT ![p] = all] /\ UNCHANGED served
    BY <1>3 DEF Drain
  <2> DEFINE all == S \cup Visible
  <2>2. all \in SUBSET Values
    BY <1>1 DEF TypeOK, Visible
  <2> HIDE DEF all
  <2>3. CASE Becomes(p, "done") /\ Serve(all) /\ UNCHANGED held
    <3>1. Alone(p) /\ op'[p] = "done"
      BY <1>1, <2>3 DEF Becomes, Alone, TypeOK
    <3>2. new = all
      BY <1>1, <2>2, <2>3 DEF Serve, TypeOK
    <3> HIDE DEF new
    <3> QED
      BY <1>1, <1>3, <2>2, <2>3, <3>1, <3>2, CalledOK DEF Kinds
  <2>4. CASE Becomes(p, "drain") /\ held' = [held EXCEPT ![p] = all] /\ UNCHANGED served
    <3>1. Alone(p) /\ op'[p] = "drain"
      BY <1>1, <2>4 DEF Becomes, Alone, TypeOK
    <3>2. new = {} /\ Serve({})
      BY <1>1, <2>4 DEF Serve, TypeOK
    <3> HIDE DEF new
    <3> QED
      BY <1>1, <1>3, <3>1, <3>2, CalledOK DEF Kinds
  <2> QED
    BY <2>1, <2>3, <2>4 DEF all
<1> QED
  BY <1>2, <1>3 DEF TypedDrain

\* The storage hands out what it had found, or does not.
LEMMA AnswersOK ==
  ASSUME TInv, IInv', NEW p \in Procs, StorageAnswers(p)
  PROVE  TInv'
<1>1. typed[p].pc = "in" /\ UNCHANGED history /\ TypeOK /\ typed[p] \in TypedCalls /\ held[p] \in SUBSET Values
  BY DEF StorageAnswers, TInv, IInv, TTypeOK, TypeOK, TypedCalls, Kinds
<1>2. CASE Hit(p) /\ Goto(p, [typed[p] EXCEPT !.data = held[p]])
  <2> DEFINE c == [typed[p] EXCEPT !.data = held[p]]
  <2>1. c \in TypedCalls /\ c.pc = "in" /\ c.kind = typed[p].kind /\ c.data = held[p]
    BY <1>1 DEF TypedCalls, Kinds
  <2>2. Goto(p, c)
    BY <1>2
  <2> HIDE DEF c
  <2>3. typed'[p] = c /\ (\A q \in Procs \ {p} : typed'[q] = typed[q]) /\ OthersCarry(p)
    BY <2>2, OneCall DEF TInv
  <2>4. typed' \in [Procs -> TypedCalls]
    BY <2>1, <2>2 DEF Goto, TInv, TTypeOK, TypedCalls, Kinds
  <2>5. /\ Alone(p) /\ op'[p] = "done"
        /\ op[p] \in {"get", "take", "drain"}
        /\ IF op[p] = "get" THEN UNCHANGED served ELSE Serve(held[p])
    BY <1>1, <1>2 DEF Hit, Becomes, Alone, TypeOK
  <2>6. TTypeOK'
    BY <1>1, <2>1, <2>3, <2>4, <2>5 DEF TInv, TTypeOK, TypedCalls, Kinds, history, Alone
  <2>7. Linked'
    BY <2>1, <2>3, <2>5 DEF TInv, Linked, Alone
  <2>8. CASE op[p] = "get"
    <3>1. Carries(p) = {} /\ Carries(p)' = {}
      BY <1>1, <2>1, <2>3, <2>8 DEF TInv, Linked, Carries
    <3>2. Balanced'
      BY <1>1, <2>3, <2>5, <2>8, <3>1, QuietBalance DEF TInv, history
    <3> QED
      BY <2>6, <2>7, <3>2 DEF TInv
  <2>9. CASE op[p] # "get"
    <3>1. /\ Carries(p) = {} /\ Carries(p)' = held[p]
      BY <1>1, <2>1, <2>3, <2>5, <2>9 DEF TInv, Linked, Carries
    <3>2. Balanced'
      BY <1>1, <2>3, <2>5, <2>9, <3>1, ServedBalance DEF TInv, history
    <3> QED
      BY <2>6, <2>7, <3>2 DEF TInv
  <2> QED
    BY <2>8, <2>9
<1>3. CASE Forget(p) /\ Goto(p, [typed[p] EXCEPT !.kind = "failed"])
  <2> DEFINE c == [typed[p] EXCEPT !.kind = "failed"]
  <2>1. c \in TypedCalls /\ c.pc = "in" /\ c.kind = "failed" /\ c.data = typed[p].data
    BY <1>1 DEF TypedCalls, Kinds
  <2>2. Goto(p, c)
    BY <1>3
  <2> HIDE DEF c
  <2>3. typed'[p] = c /\ (\A q \in Procs \ {p} : typed'[q] = typed[q]) /\ OthersCarry(p)
    BY <2>2, OneCall DEF TInv
  <2>4. typed' \in [Procs -> TypedCalls]
    BY <2>1, <2>2 DEF Goto, TInv, TTypeOK, TypedCalls, Kinds
  <2>5. /\ Alone(p) /\ op'[p] \in {op[p], "done"} /\ held'[p] = {}
        /\ op[p] \in {"get", "take", "drain"} /\ UNCHANGED served
    BY <1>1, <1>3 DEF Forget, Becomes, Alone, TypeOK
  <2>6. TTypeOK'
    BY <1>1, <2>1, <2>3, <2>4, <2>5 DEF TInv, TTypeOK, TypedCalls, Kinds, history, Alone
  <2>7. Linked'
    BY <1>1, <2>1, <2>3, <2>5 DEF TInv, Linked, Alone
  <2>8. Carries(p) = {} /\ Carries(p)' = {}
    BY <1>1, <2>1, <2>3, <2>5 DEF TInv, Linked, Carries
  <2>9. Balanced'
    BY <1>1, <2>3, <2>5, <2>8, QuietBalance DEF TInv, history
  <2> QED
    BY <2>6, <2>7, <2>9 DEF TInv
<1> QED
  BY <1>2, <1>3 DEF StorageAnswers

\* The storage returns, and the call with it: decoded, or with an error.
LEMMA ReturnsOK ==
  ASSUME TInv, IInv', NEW p \in Procs, StorageReturns(p)
  PROVE  TInv'
<1> DEFINE d == Decode(p)
           consumed == IF typed[p].kind \in {"take", "drain"} THEN d.data ELSE {}
           c == [Out EXCEPT !.pc = "done", !.kind = typed[p].kind, !.data = d.data,
                            !.ok = Found(typed[p]) /\ d.ok]
<1>1. /\ typed[p].pc = "in" /\ Return(p) /\ Goto(p, c)
      /\ \/ delivered' = Add(delivered, consumed) /\ UNCHANGED reported
         \/ reported' = Add(reported, consumed) /\ UNCHANGED delivered
  BY DEF StorageReturns
<1>2. typed[p] \in TypedCalls /\ TypeOK /\ d.data = typed[p].data /\ d.ok \in BOOLEAN
  BY DEF TInv, IInv, TTypeOK, TypedCalls, Kinds, Decode, NewItem
<1>3. consumed = Carries(p)
  BY <1>1, <1>2 DEF Carries
<1>4. c \in TypedCalls /\ c.pc = "done"
  BY <1>2 DEF Out, TypedCalls, Kinds, Found
<1> HIDE DEF c, consumed
<1>5. typed'[p] = c /\ (\A q \in Procs \ {p} : typed'[q] = typed[q]) /\ OthersCarry(p)
  BY <1>1, OneCall DEF TInv
<1>6. typed' \in [Procs -> TypedCalls]
  BY <1>1, <1>4 DEF Goto, TInv, TTypeOK, TypedCalls, Kinds
<1>7. Alone(p) /\ op'[p] = "none" /\ UNCHANGED served
  BY <1>1, <1>2 DEF Return, Becomes, Alone, TypeOK
<1>8. delivered' \in [Values -> Nat] /\ reported' \in [Values -> Nat]
  BY <1>1 DEF Add, TInv, TTypeOK
<1>9. TTypeOK'
  BY <1>4, <1>5, <1>6, <1>7, <1>8 DEF TInv, TTypeOK, TypedCalls, Kinds, Alone
<1>10. Linked'
  BY <1>4, <1>5, <1>7 DEF TInv, Linked, Alone
<1>11. Carries(p)' = {}
  BY <1>4, <1>5 DEF Carries
<1>12. Balanced'
  BY <1>1, <1>3, <1>5, <1>7, <1>11, ReturnedBalance DEF TInv
<1> QED
  BY <1>9, <1>10, <1>12 DEF TInv

\* A call that never reached the storage, or has left it.
LEMMA OutsideOK ==
  ASSUME TInv, IInv', NEW p \in Procs, UNCHANGED <<vars, history>>,
         NEW c \in TypedCalls, c.pc # "in", typed[p].pc # "in", Goto(p, c)
  PROVE  TInv'
<1>1. typed'[p] = c /\ (\A q \in Procs \ {p} : typed'[q] = typed[q]) /\ OthersCarry(p)
  BY OneCall DEF TInv
<1>2. typed' \in [Procs -> TypedCalls]
  BY DEF Goto, TInv, TTypeOK, TypedCalls, Kinds
<1>3. TTypeOK' /\ Linked'
  BY <1>1, <1>2 DEF TInv, TTypeOK, TypedCalls, Kinds, Linked, vars, history
<1>4. Carries(p) = {} /\ Carries(p)' = {}
  BY <1>1 DEF Carries
<1>5. Balanced'
  BY <1>1, <1>4, QuietBalance DEF TInv, vars, history
<1> QED
  BY <1>3, <1>5 DEF TInv

LEMMA TStepOK == TInv /\ [TNext]_tvars => TInv'
<1> SUFFICES ASSUME TInv, [TNext]_tvars
             PROVE  TInv'
  OBVIOUS
<1>1. IInv'
  BY StorageStep, StepOK DEF TInv
<1>2. CASE UNCHANGED <<typed, history, op, held, served>>
  <2>1. TTypeOK' /\ Linked'
    BY <1>2 DEF TInv, TTypeOK, Linked, history
  <2>2. Balanced'
    BY <1>2 DEF TInv, Balanced, Carrying, history
  <2> QED
    BY <1>1, <2>1, <2>2 DEF TInv
<1>3. CASE UNCHANGED tvars
  BY <1>2, <1>3 DEF tvars, vars
<1>4. CASE Expire /\ UNCHANGED <<typed, history>>
  BY <1>2, <1>4 DEF Expire
<1>5. ASSUME NEW p \in Procs, NEW k \in Keys, TypedSet(p, k) \/ TypedSetOrFail(p, k), MarshalFails(p)
      PROVE  TInv'
  <2> DEFINE c == [Out EXCEPT !.pc = "done", !.kind = "set"]
  <2>1. c \in TypedCalls /\ c.pc = "done"
    BY DEF Out, TypedCalls, Kinds
  <2>2. UNCHANGED <<vars, history>> /\ typed[p].pc = "out" /\ Goto(p, c)
    BY <1>5 DEF TypedSet, TypedSetOrFail, MarshalFails, Enters
  <2> HIDE DEF c
  <2> QED
    BY <1>1, <2>1, <2>2, OutsideOK
<1>6. ASSUME NEW p \in Procs, TypedReturn(p)
      PROVE  TInv'
  <2>1. Out \in TypedCalls /\ Out.pc = "out"
    BY DEF Out, TypedCalls, Kinds
  <2> QED
    BY <1>1, <1>6, <2>1, OutsideOK DEF TypedReturn
<1>7. ASSUME NEW p \in Procs, NEW k \in Keys,
             \/ (TypedSet(p, k) \/ TypedSetOrFail(p, k)) /\ ~MarshalFails(p)
             \/ TypedGet(p, k) \/ TypedGetAndDelete(p, k) \/ TypedDelete(p, k)
      PROVE  TInv'
  BY <1>1, <1>7, EntersOK
<1>8. ASSUME NEW p \in Procs, TypedCleanup(p) \/ TypedClose(p)
      PROVE  TInv'
  <2>1. \A k : TypedCleanup(p) \/ TypedClose(p) => TInv'
    BY <1>1, EntersOK
  <2> QED
    BY <1>8, <2>1
<1> QED
  BY <1>1, <1>3, <1>4, <1>5, <1>6, <1>7, <1>8, DrainEntersOK, AnswersOK, ReturnsOK DEF TNext, TStep

-----------------------------------------------------------------------------
(* The theorems.                                                           *)

LEMMA TypedInvariant == TSpec => []TInv
  BY TInitOK, TStepOK, PTL DEF TSpec

\* Every typed call keeps to its kind, and is in the storage exactly while the
\* storage works for it.
THEOREM TypedTypeCorrect == TSpec => []TTypeOK
<1>1. TInv => TTypeOK
  BY DEF TInv
<1> QED
  BY <1>1, TypedInvariant, PTL

\* Whatever the storage has handed to a typed call that consumes is returned by
\* it once, or reported once as an error, or still on its way: no value is
\* dropped in silence (typed.go, Get with AndDelete, GetAndDelete and Drain).
THEOREM NothingDroppedCorrect == TSpec => []NothingDropped
<1>1. TInv => NothingDropped
  BY DEF TInv, Balanced, NothingDropped
<1> QED
  BY <1>1, TypedInvariant, PTL

\* Typed calls leave the storage its contract: no value has two consumers
\* through any number of wrappers (typed.go).
THEOREM TypedServesOnce == TSpec => []ServedAtMostOnce
<1>1. TInv => ServedAtMostOnce
  BY DEF TInv, IInv
<1> QED
  BY <1>1, TypedInvariant, PTL

\* The wrapper is a caller of the storage like any other: whatever holds of the
\* contract holds beneath it.
THEOREM TypedUsesStorage == TSpec => Spec
<1>1. TInit => Init
  BY DEF TInit
<1> QED
  BY <1>1, StorageStep, PTL DEF TSpec, Spec

\* No entry comes back beneath the wrapper: above all not one that a typed call
\* has consumed and then failed to decode (typed.go, Get).
THEOREM TypedStaysGone == TSpec => StaysGone
BY TypedUsesStorage, ContractStaysGone, PTL
===============================================================================
