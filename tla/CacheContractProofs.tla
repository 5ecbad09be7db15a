-------------------------- MODULE CacheContractProofs --------------------------
(***************************************************************************)
(* Proofs about CacheContract: its inductive invariant, and that no value  *)
(* is handed to two consumers, for any number of keys, goroutines and      *)
(* values.                                                                 *)
(***************************************************************************)
EXTENDS CacheContract, TLAPS

USE NilIsNoValue

LEMMA InitOK == Init => IInv
  BY DEF Init, IInv, TypeOK, OnePlace, NotServedYet, ServedAtMostOnce, Consuming, Visible

(* Set and SetOrFail: a value that was never stored gets its one place. *)
LEMMA PutOK ==
  ASSUME IInv, NEW p \in Procs, NEW k \in Keys,
         Begins(p), Becomes(p, "done"), Put(k), UNCHANGED <<held, served>>
  PROVE  IInv'
<1>1. PICK v \in Values \ used :
        /\ used' = used \cup {v}
        /\ \/ store' = [store EXCEPT ![k] = v] /\ Lapse({})
           \/ store' = [store EXCEPT ![k] = Nil] /\ Lapse({v})
  BY DEF Put
<1>2. TypeOK'
  BY <1>1 DEF IInv, TypeOK, Becomes, Lapse
<1>3. OnePlace'
  BY <1>1 DEF IInv, TypeOK, OnePlace, NotServedYet, Becomes, Begins, Lapse, Consuming, Visible
<1>4. NotServedYet'
  BY <1>1 DEF IInv, TypeOK, OnePlace, NotServedYet, Becomes, Begins, Lapse, Consuming, Visible
<1>5. ServedAtMostOnce'
  BY DEF IInv, ServedAtMostOnce
<1> QED
  BY <1>2, <1>3, <1>4, <1>5 DEF IInv

(* Whatever only moves values from the store to the lapsed ones, and drops     *)
(* values from either, disturbs nothing: Delete, Cleanup, Expire, Forget, Look. *)
LEMMA DropOK ==
  ASSUME IInv, TypeOK',
         \A k \in Keys : store'[k] \in {store[k], Nil},
         lapsed' \subseteq lapsed \cup (Visible \ Visible'),
         UNCHANGED <<used, served>>,
         \A p \in Procs : \/ Consuming(p)' \subseteq Consuming(p) /\ held'[p] \subseteq held[p]
                          \/ Consuming(p)' = {} /\ held'[p] \subseteq Visible
  PROVE  IInv'
<1>1. OnePlace'
  BY DEF IInv, TypeOK, OnePlace, Visible
<1>2. NotServedYet'
  BY DEF IInv, TypeOK, NotServedYet, OnePlace, Visible
<1>3. ServedAtMostOnce'
  BY DEF IInv, ServedAtMostOnce
<1> QED
  BY <1>1, <1>2, <1>3 DEF IInv

LEMMA DeleteOK ==
  ASSUME IInv, NEW p \in Procs, NEW k \in Keys, Delete(p, k)
  PROVE  IInv'
  BY DropOK DEF Delete, Begins, Becomes, Lapse, IInv, TypeOK, Consuming, Visible

LEMMA LookOK ==
  ASSUME IInv, NEW p \in Procs, NEW k \in Keys, Look(p, k)
  PROVE  IInv'
<1>1. TypeOK'
  BY DEF Look, Begins, Becomes, Finds, Lapse, IInv, TypeOK
<1>2. \A l \in Keys : store'[l] \in {store[l], Nil}
  BY DEF Look, IInv, TypeOK
<1>3. lapsed' \subseteq lapsed \cup (Visible \ Visible')
  BY DEF Look, Lapse, IInv, TypeOK, Visible, OnePlace
<1>4. Consuming(p)' = {} /\ held'[p] \subseteq Visible
  BY DEF Look, Becomes, Finds, IInv, TypeOK, Consuming, Visible
<1>5. \A q \in Procs \ {p} : Consuming(q)' = Consuming(q) /\ held'[q] = held[q]
  BY DEF Look, Becomes, Finds, IInv, TypeOK, Consuming
<1> QED
  BY <1>1, <1>2, <1>3, <1>4, <1>5, DropOK DEF Look

LEMMA ForgetOK ==
  ASSUME IInv, NEW p \in Procs, Forget(p)
  PROVE  IInv'
<1>1. TypeOK'
  BY DEF Forget, Becomes, Lapse, IInv, TypeOK
<1>2. \A l \in Keys : store'[l] \in {store[l], Nil}
  BY DEF Forget, IInv, TypeOK
<1>3. lapsed' \subseteq lapsed
  BY DEF Forget, Lapse
<1>4. \A q \in Procs : Consuming(q)' \subseteq Consuming(q) /\ held'[q] \subseteq held[q]
  BY DEF Forget, Becomes, IInv, TypeOK, Consuming
<1> QED
  BY <1>1, <1>2, <1>3, <1>4, DropOK DEF Forget

LEMMA ExpireOK ==
  ASSUME IInv, Expire
  PROVE  IInv'
<1>1. PICK S \in SUBSET Keys :
        /\ store' = [k \in Keys |-> IF k \in S THEN Nil ELSE store[k]]
        /\ Lapse({store[k] : k \in S} \ {Nil})
        /\ UNCHANGED <<used, op, held, served>>
  BY DEF Expire
<1>2. TypeOK'
  BY <1>1 DEF Lapse, IInv, TypeOK
<1>3. lapsed' \subseteq lapsed \cup (Visible \ Visible')
  BY <1>1 DEF Lapse, IInv, TypeOK, OnePlace, Visible
<1> QED
  BY <1>1, <1>2, <1>3, DropOK DEF Consuming

LEMMA QuietOK ==
  ASSUME IInv, NEW p \in Procs, Cleanup(p) \/ Close(p) \/ Fail(p) \/ Return(p)
  PROVE  IInv'
<1>1. TypeOK'
  BY DEF Cleanup, Close, Fail, Return, Becomes, Lapse, IInv, TypeOK
<1>2. UNCHANGED <<store, used, held, served>> /\ lapsed' \subseteq lapsed
  BY DEF Cleanup, Close, Fail, Return, Lapse
<1>3. \A q \in Procs : Consuming(q)' \subseteq Consuming(q)
  BY DEF Cleanup, Close, Fail, Return, Begins, Becomes, IInv, TypeOK, Consuming
<1> QED
  BY <1>1, <1>2, <1>3, DropOK

(* A value that is taken leaves its place in the store for the taker. *)
LEMMA TakeOK ==
  ASSUME IInv, NEW p \in Procs, NEW k \in Keys, Take(p, k)
  PROVE  IInv'
<1>1. TypeOK'
  BY DEF Take, Begins, Becomes, Finds, IInv, TypeOK
<1>2. /\ Consuming(p)' = {store[k]} \ {Nil}
      /\ \A q \in Procs \ {p} : Consuming(q)' = Consuming(q) /\ held'[q] = held[q]
  BY DEF Take, Becomes, Finds, IInv, TypeOK, Consuming
<1>3. Visible' = Visible \ {store[k]}
  BY DEF Take, IInv, TypeOK, OnePlace, Visible
<1>4. OnePlace'
  <2>1. \A i, j \in Keys : store'[i] # Nil /\ store'[i] = store'[j] => i = j
    BY DEF Take, IInv, TypeOK, OnePlace
  <2>2. \A i \in Keys : store'[i] \notin lapsed'
    BY DEF Take, IInv, TypeOK, OnePlace
  <2>3. \A q \in Procs : Consuming(q)' \cap (lapsed \cup Visible)' = {}
    BY <1>2, <1>3 DEF Take, IInv, TypeOK, OnePlace, Visible
  <2>4. \A q, r \in Procs : q # r => Consuming(q)' \cap Consuming(r)' = {}
    BY <1>2 DEF IInv, TypeOK, OnePlace, Visible
  <2> QED
    BY <2>1, <2>2, <2>3, <2>4 DEF OnePlace
<1>5. NotServedYet'
  BY <1>2 DEF Take, Finds, IInv, TypeOK, NotServedYet
<1>6. ServedAtMostOnce'
  BY DEF Take, IInv, ServedAtMostOnce
<1> QED
  BY <1>1, <1>4, <1>5, <1>6 DEF IInv

LEMMA HitOK ==
  ASSUME IInv, NEW p \in Procs, Hit(p)
  PROVE  IInv'
<1>1. TypeOK'
  BY DEF Hit, Becomes, Serve, IInv, TypeOK
<1>2. /\ held'[p] = {} /\ Consuming(p)' = {}
      /\ \A q \in Procs \ {p} : Consuming(q)' = Consuming(q) /\ held'[q] = held[q]
  BY DEF Hit, Becomes, IInv, TypeOK, Consuming
<1>3. \A v \in Values : served'[v] = IF v \in Consuming(p) THEN served[v] + 1 ELSE served[v]
  BY DEF Hit, Serve, IInv, TypeOK, Consuming
<1>4. OnePlace'
  BY <1>2 DEF Hit, IInv, TypeOK, OnePlace, Visible
<1>5. NotServedYet'
  BY <1>2, <1>3 DEF Hit, IInv, TypeOK, OnePlace, NotServedYet, Visible, Consuming
<1>6. ServedAtMostOnce'
  BY <1>3 DEF IInv, TypeOK, NotServedYet, ServedAtMostOnce
<1> QED
  BY <1>1, <1>4, <1>5, <1>6 DEF IInv

LEMMA DrainOK ==
  ASSUME IInv, NEW p \in Procs, Drain(p)
  PROVE  IInv'
<1>1. PICK S \in SUBSET lapsed :
        LET all == S \cup Visible IN
        /\ Begins(p)
        /\ store' = [k \in Keys |-> Nil]
        /\ lapsed' \in SUBSET (lapsed \ S)
        /\ \/ Becomes(p, "done") /\ Serve(all) /\ UNCHANGED held
           \/ Becomes(p, "drain") /\ held' = [held EXCEPT ![p] = all] /\ UNCHANGED served
        /\ UNCHANGED used
  BY DEF Drain
<1> DEFINE all == S \cup Visible
<1>2. all \subseteq Values /\ \A v \in all : v \in used /\ served[v] = 0
  BY DEF IInv, TypeOK, NotServedYet, Visible
<1>3. Visible' = {} /\ lapsed' \cap all = {} /\ lapsed' \subseteq lapsed
  BY <1>1 DEF IInv, OnePlace, Visible
<1>4. TypeOK'
  BY <1>1, <1>2 DEF Becomes, Serve, IInv, TypeOK
<1>5. CASE Becomes(p, "done") /\ Serve(all) /\ UNCHANGED held
  <2>1. \A q \in Procs : Consuming(q)' = Consuming(q)
    BY <1>1, <1>5 DEF Becomes, Begins, IInv, TypeOK, Consuming
  <2>2. \A v \in Values : served'[v] = IF v \in all THEN served[v] + 1 ELSE served[v]
    BY <1>5 DEF Serve
  <2>3. OnePlace'
    BY <1>1, <1>3, <2>1 DEF IInv, TypeOK, OnePlace
  <2>4. NotServedYet'
    BY <1>1, <1>2, <1>3, <1>5, <2>1, <2>2 DEF IInv, TypeOK, OnePlace, NotServedYet, Consuming
  <2>5. ServedAtMostOnce'
    BY <1>2, <2>2 DEF IInv, ServedAtMostOnce
  <2> QED
    BY <1>4, <2>3, <2>4, <2>5 DEF IInv
<1>6. CASE Becomes(p, "drain") /\ held' = [held EXCEPT ![p] = all] /\ UNCHANGED served
  <2>1. /\ Consuming(p)' = all /\ held'[p] = all
        /\ \A q \in Procs \ {p} : Consuming(q)' = Consuming(q) /\ held'[q] = held[q]
    BY <1>6 DEF Becomes, IInv, TypeOK, Consuming
  <2>2. OnePlace'
    BY <1>1, <1>3, <2>1 DEF IInv, TypeOK, OnePlace
  <2>3. NotServedYet'
    BY <1>1, <1>2, <1>3, <1>6, <2>1 DEF IInv, TypeOK, NotServedYet
  <2>4. ServedAtMostOnce'
    BY <1>6 DEF IInv, ServedAtMostOnce
  <2> QED
    BY <1>4, <2>2, <2>3, <2>4 DEF IInv
<1> QED
  BY <1>1, <1>5, <1>6

LEMMA SetOrFailOK ==
  ASSUME IInv, NEW p \in Procs, NEW k \in Keys, SetOrFail(p, k)
  PROVE  IInv'
<1>1. CASE UNCHANGED <<store, lapsed, used>>
  BY <1>1, QuietOK DEF SetOrFail, Fail
<1>2. CASE Put(k)
  BY <1>2, PutOK DEF SetOrFail
<1> QED
  BY <1>1, <1>2 DEF SetOrFail

LEMMA StepOK == IInv /\ [Next]_vars => IInv'
<1> SUFFICES ASSUME IInv, [Next]_vars PROVE IInv'
  OBVIOUS
<1>1. CASE Expire
  BY <1>1, ExpireOK
<1>2. ASSUME NEW p \in Procs, NEW k \in Keys,
             Set(p, k) \/ SetOrFail(p, k) \/ Delete(p, k) \/ Look(p, k) \/ Take(p, k)
      PROVE  IInv'
  BY <1>2, PutOK, SetOrFailOK, DeleteOK, LookOK, TakeOK DEF Set
<1>3. ASSUME NEW p \in Procs, Hit(p) \/ Forget(p) \/ Drain(p)
      PROVE  IInv'
  BY <1>3, HitOK, ForgetOK, DrainOK
<1>4. ASSUME NEW p \in Procs, Cleanup(p) \/ Close(p) \/ Fail(p) \/ Return(p)
      PROVE  IInv'
  BY <1>4, QuietOK
<1>5. CASE UNCHANGED vars
  BY <1>5 DEF vars, IInv, TypeOK, OnePlace, NotServedYet, ServedAtMostOnce, Consuming, Visible
<1> QED
  BY <1>1, <1>2, <1>3, <1>4, <1>5 DEF Next, Step

-----------------------------------------------------------------------------

\* Every state of a cache that keeps the contract satisfies the inductive
\* invariant: a value is in one place only until it is served (cache.go).
THEOREM ContractInvariant == Spec => []IInv
  BY InitOK, StepOK, PTL DEF Spec

\* No cache that keeps the contract of the Cache interface hands one value to two
\* consumers (cache.go, GetAndDelete, AndDelete and Drain).
THEOREM ContractServesOnce == Spec => []ServedAtMostOnce
<1>1. IInv => ServedAtMostOnce
  BY DEF IInv
<1> QED
  BY <1>1, ContractInvariant, PTL

\* Whatever a call does, nothing that was stored before shows where it did not.
LEMMA NothingReturns ==
  ASSUME IInv, [Next]_vars, NEW k \in Keys, store'[k] \in used
  PROVE  store'[k] = store[k]
<1> USE DEF IInv, TypeOK
<1>1. ASSUME NEW l \in Keys, Put(l) PROVE store'[k] = store[k]
  BY <1>1 DEF Put
<1>2. ASSUME NEW p \in Procs, NEW l \in Keys,
             Set(p, l) \/ SetOrFail(p, l) \/ Delete(p, l) \/ Look(p, l) \/ Take(p, l)
      PROVE  store'[k] = store[k]
  BY <1>1, <1>2 DEF Set, SetOrFail, Delete, Look, Take
<1>3. ASSUME NEW p \in Procs, Hit(p) \/ Forget(p) \/ Drain(p)
      PROVE  store'[k] = store[k]
  BY <1>3 DEF Hit, Forget, Drain
<1>4. CASE Expire
  BY <1>4 DEF Expire
<1> QED
  BY <1>2, <1>3, <1>4 DEF Next, Step, Cleanup, Close, Fail, Return, vars

\* In no cache that keeps the contract does an entry come back that had expired,
\* or was deleted, replaced or consumed, whatever the others do meanwhile.
THEOREM ContractStaysGone == Spec => StaysGone
<1>1. IInv /\ [Next]_vars => [\A k \in Keys : store'[k] \in used => store'[k] = store[k]]_vars
  BY NothingReturns
<1> QED
  BY <1>1, ContractInvariant, PTL DEF Spec, StaysGone
=============================================================================
