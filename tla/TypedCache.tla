------------------------------ MODULE TypedCache ------------------------------
(***************************************************************************)
(* The typed wrapper, cache/typed.go, around any storage that keeps the    *)
(* contract: Marshal before a call of the storage, Unmarshal after it. The *)
(* storage has removed what a consuming call hands out by the time the     *)
(* wrapper learns that it does not decode.                                 *)
(***************************************************************************)
EXTENDS CacheContract, FiniteSets

CONSTANTS
  Corrupt,  \* values that Unmarshal rejects: another version of T stored them
  Pointer   \* T is a pointer type

ASSUME TypedOK == Corrupt \subseteq Values /\ Pointer \in BOOLEAN

VARIABLES
  typed,      \* goroutine -> the typed call it executes
  \* History: nothing below influences a step.
  delivered,  \* value -> how many consuming calls returned it, decoded
  reported    \* value -> how many that had consumed it returned an error

history == <<delivered, reported>>
tvars == <<vars, typed, history>>

-----------------------------------------------------------------------------

\* data is what the storage has handed out, ok that the call returns it decoded.
Out == [pc |-> "out", kind |-> "none", data |-> {}, ok |-> FALSE]

Goto(p, c) == typed' = [typed EXCEPT ![p] = c]

\* p has called the storage and is to wait for its return.
Called(p, kind, data) == Goto(p, [Out EXCEPT !.pc = "in", !.kind = kind, !.data = data])

Enters(p) == typed[p].pc = "out" /\ UNCHANGED history

\* Fault: the error of Marshal is looked at after the storage was called.
MarshalFailsLate(p) ==
  /\ Goto(p, [Out EXCEPT !.pc = "done", !.kind = "set"])
  /\ \E k \in Keys : Set(p, k)

\* Marshal fails: the storage is not called.
MarshalFails(p) ==
  /\ Goto(p, [Out EXCEPT !.pc = "done", !.kind = "set"])
  /\ UNCHANGED vars

TypedSet(p, k) ==
  /\ Enters(p)
  /\ \/ MarshalFails(p)
     \/ (Set(p, k) \/ Fail(p)) /\ Called(p, "set", {})

TypedSetOrFail(p, k) ==
  /\ Enters(p)
  /\ \/ MarshalFails(p)
     \/ (SetOrFail(p, k) \/ Fail(p)) /\ Called(p, "set", {})

\* The storage gets the options unchanged.
TypedGet(p, k) ==
  /\ Enters(p)
  /\ \/ Look(p, k) /\ Called(p, "get", {})
     \/ Take(p, k) /\ Called(p, "take", {})
     \/ Fail(p) /\ Called(p, "get", {})

TypedGetAndDelete(p, k) ==
  /\ Enters(p)
  /\ \/ Take(p, k) /\ Called(p, "take", {})
     \/ Fail(p) /\ Called(p, "get", {})

TypedDelete(p, k) ==
  /\ Enters(p)
  /\ Delete(p, k) \/ Fail(p)
  /\ Called(p, "delete", {})

TypedCleanup(p) ==
  /\ Enters(p)
  /\ Cleanup(p) \/ Fail(p)
  /\ Called(p, "cleanup", {})

TypedClose(p) ==
  /\ Enters(p)
  /\ Close(p) \/ Fail(p)
  /\ Called(p, "close", {})

TypedDrain(p) ==
  /\ Enters(p)
  /\ \/ Drain(p) /\ Called(p, "drain", {v \in Values : served'[v] > served[v]})
     \/ Fail(p) /\ Called(p, "failed", {})

-----------------------------------------------------------------------------

\* The storage goes on with p's call.
StorageAnswers(p) ==
  /\ typed[p].pc = "in"
  /\ \/ Hit(p) /\ Goto(p, [typed[p] EXCEPT !.data = held[p]])
     \/ Forget(p) /\ Goto(p, [typed[p] EXCEPT !.kind = "failed"])
  /\ UNCHANGED history

\* The storage returned something to be decoded, if only an empty map.
Found(c) == c.kind = "drain" \/ c.data # {}

\* newItem makes a value to decode into.
NewItem == Pointer

\* Fault: a value that does not decode is passed over.
DecodeOrSkip(p) ==
  [ok |-> TRUE, data |-> IF NewItem THEN typed[p].data \ Corrupt ELSE {}]

\* newItem and Unmarshal of every value: one failure and the call returns an
\* error, and none of them.
Decode(p) ==
  [ok |-> typed[p].data = {} \/ (NewItem /\ typed[p].data \cap Corrupt = {}),
   data |-> typed[p].data]

Add(f, S) == [v \in Values |-> IF v \in S THEN f[v] + 1 ELSE f[v]]

\* The storage has returned, and the typed call does.
StorageReturns(p) ==
  /\ typed[p].pc = "in" /\ Return(p)
  /\ LET d == Decode(p)
         consumed == IF typed[p].kind \in {"take", "drain"} THEN d.data ELSE {}
     IN
       /\ Goto(p, [Out EXCEPT !.pc = "done", !.kind = typed[p].kind, !.data = d.data,
                              !.ok = Found(typed[p]) /\ d.ok])
       /\ IF d.ok THEN delivered' = Add(delivered, consumed) /\ UNCHANGED reported
                  ELSE reported' = Add(reported, consumed) /\ UNCHANGED delivered

TypedReturn(p) ==
  /\ typed[p].pc = "done"
  /\ Goto(p, Out)
  /\ UNCHANGED <<vars, history>>

TInit ==
  /\ Init
  /\ typed = [p \in Procs |-> Out]
  /\ delivered = [v \in Values |-> 0] /\ reported = [v \in Values |-> 0]

TStep(p) ==
  \/ \E k \in Keys : \/ TypedSet(p, k) \/ TypedSetOrFail(p, k) \/ TypedGet(p, k)
                     \/ TypedGetAndDelete(p, k) \/ TypedDelete(p, k)
  \/ TypedCleanup(p) \/ TypedDrain(p) \/ TypedClose(p)
  \/ StorageAnswers(p) \/ StorageReturns(p) \/ TypedReturn(p)

TNext ==
  \/ Expire /\ UNCHANGED <<typed, history>>
  \/ \E p \in Procs : TStep(p)

TSpec == TInit /\ [][TNext]_tvars

-----------------------------------------------------------------------------
(* Properties *)

TTypeOK ==
  /\ typed \in [Procs -> [pc : {"out", "in", "done"}, data : SUBSET Values, ok : BOOLEAN,
                         kind : {"none", "set", "get", "take", "delete", "cleanup", "close", "drain", "failed"}]]
  /\ delivered \in [Values -> Nat] /\ reported \in [Values -> Nat]
  /\ \A p \in Procs : typed[p].pc # "in" <=> op[p] = "none"

\* The calls that have consumed v and not returned yet.
Carrying(v) ==
  {p \in Procs : typed[p].pc = "in" /\ typed[p].kind \in {"take", "drain"} /\ v \in typed[p].data}

\* Whatever the storage handed to a consuming typed call is returned by it, or
\* the call returns an error: nothing is dropped in silence, and nothing
\* is handed out twice (typed.go, Get and Drain).
NothingDropped ==
  \A v \in Values : served[v] = delivered[v] + reported[v] + Cardinality(Carrying(v))

\* A consuming call that fails has lost nothing but what could not be decoded.
SoundSurvive == Pointer => \A v \in Values \ Corrupt : reported[v] = 0
=============================================================================
