------------------------------- MODULE Factory -------------------------------
(***************************************************************************)
(* The factory and the tracker of the caches it handed out: factory.go.    *)
(*                                                                         *)
(* Factories derived through WithName share the tracker and the builder of *)
(* their parent, so one tracker stands for a whole family. A cache is the  *)
(* identity of its unregisteringCache wrapper, which is what the tracker   *)
(* compares. Of the cache inside, only what a sweep is about is kept: does *)
(* it hold entries that have expired?                                      *)
(***************************************************************************)
EXTENDS Naturals, Sequences, SequencesExt

CONSTANTS
  Procs,   \* goroutines that call the factory or its caches
  Caches,  \* identities of wrappers: bounds the number of successful News
  Broken,  \* caches whose Cleanup may return an error
  Nil      \* no cache

ASSUME CachesOK == Broken \subseteq Caches /\ Nil \notin Caches

VARIABLES
  tracker,  \* t.caches, in the order of the slice
  built,    \* caches that f.new returned
  stale,    \* caches that hold expired entries
  call,     \* goroutine -> the operation it executes
  \* History: nothing below influences a step.
  handed,   \* caches that New returned
  closed,   \* caches of which a Close returned
  swept     \* goroutine -> about its CleanupAll, see NoSweep

vars == <<tracker, built, stale, call, handed, closed, swept>>

-----------------------------------------------------------------------------

\* list is the copy that CleanupAll ranges over, at the position in it.
Idle == [pc |-> "idle", cache |-> Nil, list |-> <<>>, at |-> 0]

Calls ==
  [pc : {"idle", "add", "remove", "sweep", "swept", "done"}, cache : Caches \cup {Nil},
   list : Seq(Caches), at : Nat]

\* must: open from the start of the CleanupAll on; gone: closed before it
\* started; visited: the caches it called Cleanup of.
NoSweep == [must |-> {}, gone |-> {}, visited |-> {}]

Goto(p, c) == call' = [call EXCEPT ![p] = c]

Done(p) == Goto(p, [Idle EXCEPT !.pc = "done"])

-----------------------------------------------------------------------------
(* New: the builder, which may fail, and then the tracker. *)

\* Fault: the builder's error is not looked at.
BuildUnchecked(p) ==
  /\ call[p].pc = "idle"
  /\ Goto(p, [Idle EXCEPT !.pc = "add"])
  /\ UNCHANGED <<tracker, built, stale, handed, closed, swept>>

Build(p) ==
  /\ call[p].pc = "idle"
  /\ \/ \E c \in Caches \ built :
          /\ built' = built \cup {c}
          /\ Goto(p, [Idle EXCEPT !.pc = "add", !.cache = c])
     \/ Done(p) /\ UNCHANGED built
  /\ UNCHANGED <<tracker, stale, handed, closed, swept>>

\* cacheTracker.add
With(s, c) == Append(s, c)

\* The new cache is registered, and New returns.
Add(p) ==
  /\ call[p].pc = "add"
  /\ tracker' = With(tracker, call[p].cache)
  /\ handed' = handed \cup {call[p].cache}
  /\ Done(p)
  /\ UNCHANGED <<built, stale, closed, swept>>

-----------------------------------------------------------------------------
(* Close: the cache inside, and then, whatever that returned, the tracker.  *)
(* A caller may close a cache twice, and two callers at the same time.      *)

CloseInner(p, c) ==
  /\ call[p].pc = "idle" /\ c \in handed
  /\ Goto(p, [Idle EXCEPT !.pc = "remove", !.cache = c])
  /\ UNCHANGED <<tracker, built, stale, handed, closed, swept>>

\* Fault: an off-by-one in the slice expression drops the neighbour.
CutNext(s, i) == IF i < Len(s) THEN RemoveAt(s, i + 1) ELSE RemoveAt(s, i)

\* append(s[:i], s[i+1:]...)
Cut(s, i) == RemoveAt(s, i)

\* Fault: an entry stays if its cache failed to close.
WithoutWorking(s, c) == IF c \in Broken THEN s ELSE SelectSeq(s, LAMBDA d : d # c)

\* The tracker without the first entry of cache c, if there is one.
Without(s, c) ==
  IF c \in Range(s)
    THEN Cut(s, CHOOSE i \in DOMAIN s : s[i] = c /\ \A j \in 1..(i - 1) : s[j] # c)
    ELSE s

\* cacheTracker.remove, and Close returns.
Unregister(p) ==
  /\ call[p].pc = "remove"
  /\ tracker' = Without(tracker, call[p].cache)
  /\ closed' = closed \cup {call[p].cache}
  /\ swept' = [q \in Procs |-> [swept[q] EXCEPT !.must = @ \ {call[p].cache}]]
  /\ Done(p)
  /\ UNCHANGED <<built, stale, handed>>

-----------------------------------------------------------------------------
(* CleanupAll: a copy of the list, and then one Cleanup after the other. *)

List(p) ==
  /\ call[p].pc = "idle"
  /\ Goto(p, [Idle EXCEPT !.pc = "sweep", !.list = tracker, !.at = 1])
  /\ swept' = [swept EXCEPT ![p] = [must |-> handed \ closed, gone |-> closed, visited |-> {}]]
  /\ UNCHANGED <<tracker, built, stale, handed, closed>>

\* Fault: list returns t.caches itself, whose array remove shifts in place.
ListedShared(p) ==
  [i \in DOMAIN call[p].list |-> IF i \in DOMAIN tracker THEN tracker[i] ELSE call[p].list[i]]

Listed(p) == call[p].list

\* Fault: the loop returns at the first error.
StopAtError(p) == Goto(p, [call[p] EXCEPT !.pc = "swept"])

\* An error is collected and the loop goes on.
GoOn(p) == Goto(p, [call[p] EXCEPT !.at = @ + 1])

\* Cleanup of the next cache: it evicts what has expired, or fails.
CleanupNext(p) ==
  /\ call[p].pc = "sweep" /\ call[p].at <= Len(Listed(p))
  /\ LET c == Listed(p)[call[p].at] IN
       /\ \/ stale' = stale \ {c} /\ Goto(p, [call[p] EXCEPT !.at = @ + 1])
          \/ c \in Broken /\ UNCHANGED stale /\ GoOn(p)
       /\ swept' = [swept EXCEPT ![p].visited = @ \cup {c}]
  /\ UNCHANGED <<tracker, built, handed, closed>>

\* The loop is over: the errors are joined.
CleanupEnd(p) ==
  /\ call[p].pc = "sweep" /\ call[p].at > Len(Listed(p))
  /\ Goto(p, [call[p] EXCEPT !.pc = "swept"])
  /\ UNCHANGED <<tracker, built, stale, handed, closed, swept>>

Return(p) ==
  /\ call[p].pc \in {"swept", "done"}
  /\ Goto(p, Idle)
  /\ swept' = [swept EXCEPT ![p] = NoSweep]
  /\ UNCHANGED <<tracker, built, stale, handed, closed>>

-----------------------------------------------------------------------------

\* Entries of a cache in use run out of time.
Expire(c) ==
  /\ c \in handed
  /\ stale' = stale \cup {c}
  /\ UNCHANGED <<tracker, built, call, handed, closed, swept>>

Init ==
  /\ tracker = <<>>
  /\ built = {} /\ handed = {} /\ closed = {} /\ stale = {}
  /\ call = [p \in Procs |-> Idle]
  /\ swept = [p \in Procs |-> NoSweep]

Invoke(p) == Build(p) \/ (\E c \in Caches : CloseInner(p, c)) \/ List(p)

\* A call that is under way goes on.
Proceed(p) == Add(p) \/ Unregister(p) \/ CleanupNext(p) \/ CleanupEnd(p) \/ Return(p)

Next ==
  \/ \E p \in Procs : Invoke(p) \/ Proceed(p)
  \/ \E c \in Caches : Expire(c)

Spec == Init /\ [][Next]_vars

-----------------------------------------------------------------------------
(* Properties *)

TypeOK ==
  /\ tracker \in Seq(Caches)
  /\ built \subseteq Caches /\ handed \subseteq built /\ closed \subseteq handed
  /\ stale \subseteq handed
  /\ call \in [Procs -> Calls]
  /\ swept \in [Procs -> [must : SUBSET Caches, gone : SUBSET Caches, visited : SUBSET Caches]]

\* The tracker holds every cache that was handed out and not closed, none that
\* was closed, and none twice, whatever News and Closes overlap and however
\* often a cache is closed (factory.go, unregisteringCache.Close).
TrackerExact ==
  /\ Range(tracker) = handed \ closed
  /\ Len(tracker) = Cardinality(handed \ closed)

\* A CleanupAll calls Cleanup of every cache that was open while it ran,
\* although others fail, and although Close shifts the tracker's array
\* meanwhile (factory.go, CleanupAll and list).
SweepCovers == \A p \in Procs : call[p].pc = "swept" => swept[p].must \subseteq swept[p].visited

\* A CleanupAll never calls Cleanup of a cache closed before it started.
ClosedBeforeNotSwept == \A p \in Procs : swept[p].gone \cap swept[p].visited = {}

\* A cache the caller has closed is not swept any more (factory.go,
\* unregisteringCache).
ClosedNotSwept ==
  [][\A p \in Procs : (swept'[p].visited \ swept[p].visited) \cap closed = {}]_vars

-----------------------------------------------------------------------------
(* The inductive invariant behind the safety properties. *)

\* A cache on its way into the tracker is not handed out yet, and is one New's
\* alone; one on its way out was.
CallsInv ==
  /\ \A p \in Procs :
       /\ call[p].pc = "add" => call[p].cache \in built \ handed
       /\ call[p].pc = "remove" => call[p].cache \in handed
  /\ \A p, q \in Procs :
       call[p].pc = "add" /\ call[q].pc = "add" /\ call[p].cache = call[q].cache => p = q

\* A sweep has visited the caches it owes, or they are further down its list,
\* on which there is none that was closed before.
SweepInv ==
  \A p \in Procs : call[p].pc = "sweep" =>
    /\ call[p].at >= 1
    /\ \A c \in swept[p].must \ swept[p].visited :
         \E i \in DOMAIN call[p].list : call[p].at <= i /\ call[p].list[i] = c
    /\ Range(call[p].list) \cap swept[p].gone = {}

IInv ==
  /\ TypeOK
  /\ Range(tracker) = handed \ closed
  /\ IsInjective(tracker)
  /\ CallsInv
  /\ SweepInv /\ SweepCovers /\ ClosedBeforeNotSwept
=============================================================================
