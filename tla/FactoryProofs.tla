----------------------------- MODULE FactoryProofs -----------------------------
(***************************************************************************)
(* Proofs about the factory and its tracker, for any number of goroutines  *)
(* and of caches, whichever of them fail, and about Run of the sweeper     *)
(* among any number of callers of the factory.                             *)
(***************************************************************************)
EXTENDS Sweeper, SequenceTheorems, FiniteSetTheorems, TLAPS

USE CachesOK

(* Sequences.                                                              *)

LEMMA AppendNew ==
  ASSUME NEW s \in Seq(Caches), NEW c \in Caches, IsInjective(s), c \notin Range(s)
  PROVE  /\ With(s, c) \in Seq(Caches)
         /\ IsInjective(With(s, c))
         /\ Range(With(s, c)) = Range(s) \cup {c}
<1> DEFINE t == With(s, c)
<1>1. /\ t \in Seq(Caches) /\ Len(t) = Len(s) + 1 /\ Len(s) \in Nat
      /\ DOMAIN t = 1..Len(t) /\ DOMAIN s = 1..Len(s)
      /\ \A i \in 1..Len(s) : t[i] = s[i]
      /\ t[Len(s) + 1] = c
  BY AppendProperties DEF With
<1> HIDE DEF t
<1>2. IsInjective(t)
  BY <1>1 DEF IsInjective, Range
<1>3. Range(t) = Range(s) \cup {c}
  BY <1>1 DEF Range
<1> QED
  BY <1>1, <1>2, <1>3 DEF t

LEMMA CutOne ==
  ASSUME NEW s \in Seq(Caches), NEW i \in DOMAIN s
  PROVE  /\ Cut(s, i) \in Seq(Caches)
         /\ Len(Cut(s, i)) = Len(s) - 1
         /\ \A j \in 1..(Len(s) - 1) : Cut(s, i)[j] = IF j < i THEN s[j] ELSE s[j + 1]
<1>1. Len(s) \in Nat /\ i \in 1..Len(s) /\ \A j \in 1..Len(s) : s[j] \in Caches
  BY ElementOfSeq
<1> DEFINE a == SubSeq(s, 1, i - 1)
           b == SubSeq(s, i + 1, Len(s))
<1>2. /\ a \in Seq(Caches) /\ Len(a) = i - 1
      /\ \A j \in 1..(i - 1) : a[j] = s[j]
  BY <1>1, SubSeqProperties
<1>3. /\ b \in Seq(Caches) /\ Len(b) = Len(s) - i
      /\ \A j \in 1..(Len(s) - i) : b[j] = s[i + j]
  BY <1>1, SubSeqProperties
<1>4. Cut(s, i) = a \o b
  BY DEF Cut, RemoveAt
<1> HIDE DEF a, b
<1>5. /\ a \o b \in Seq(Caches) /\ Len(a \o b) = Len(s) - 1
      /\ \A j \in 1..(Len(s) - 1) : (a \o b)[j] = IF j <= i - 1 THEN a[j] ELSE b[j - (i - 1)]
  BY <1>1, <1>2, <1>3, ConcatProperties
<1> DEFINE t == a \o b
<1> HIDE DEF t
<1>6. ASSUME NEW j \in 1..(Len(s) - 1)
      PROVE  t[j] = IF j < i THEN s[j] ELSE s[j + 1]
  <2>1. j \in Int /\ i \in Int /\ t[j] = IF j <= i - 1 THEN a[j] ELSE b[j - (i - 1)]
    BY <1>1, <1>5 DEF t
  <2>2. CASE j < i
    BY <1>1, <1>2, <2>1, <2>2
  <2>3. CASE j >= i
    <3> DEFINE l == j - (i - 1)
    <3>1. l \in 1..(Len(s) - i) /\ i + l = j + 1
      BY <1>1, <2>3
    <3>2. t[j] = b[l]
      BY <2>1, <2>3
    <3> HIDE DEF l
    <3>3. b[l] = s[j + 1]
      BY <1>3, <3>1
    <3> QED
      BY <2>1, <2>3, <3>2, <3>3
  <2> QED
    BY <2>1, <2>2, <2>3
<1> QED
  BY <1>4, <1>5, <1>6 DEF t

\* remove takes out the one entry of c, and leaves the others.
LEMMA RemoveOne ==
  ASSUME NEW s \in Seq(Caches), NEW c \in Caches, IsInjective(s)
  PROVE  /\ Without(s, c) \in Seq(Caches)
         /\ IsInjective(Without(s, c))
         /\ Range(Without(s, c)) = Range(s) \ {c}
<1>1. CASE c \notin Range(s)
  BY <1>1 DEF Without
<1>2. CASE c \in Range(s)
  <2> DEFINE First(i) == s[i] = c /\ \A j \in 1..(i - 1) : s[j] # c
             i == CHOOSE i \in DOMAIN s : First(i)
             t == Cut(s, i)
  <2>1. Len(s) \in Nat /\ DOMAIN s = 1..Len(s)
    OBVIOUS
  <2>2. \E j \in DOMAIN s : First(j)
    BY <1>2, <2>1 DEF Range, IsInjective
  <2>3. i \in DOMAIN s /\ s[i] = c
    BY <2>2
  <2>4. Without(s, c) = t
    BY <1>2 DEF Without
  <2> HIDE DEF i
  <2>5. /\ t \in Seq(Caches) /\ Len(t) = Len(s) - 1 /\ DOMAIN t = 1..(Len(s) - 1)
        /\ \A j \in 1..(Len(s) - 1) : t[j] = IF j < i THEN s[j] ELSE s[j + 1]
    <3>1. t \in Seq(Caches) /\ Len(t) = Len(s) - 1
      BY <2>3, CutOne
    <3>2. \A j \in 1..(Len(s) - 1) : t[j] = IF j < i THEN s[j] ELSE s[j + 1]
      BY <2>3, CutOne
    <3> HIDE DEF t
    <3> QED
      BY <3>1, <3>2
  <2> HIDE DEF t
  <2>6. IsInjective(t)
    <3> DEFINE At(j) == IF j < i THEN j ELSE j + 1
    <3>1. \A j \in 1..(Len(s) - 1) : At(j) \in 1..Len(s) /\ t[j] = s[At(j)]
      BY <2>1, <2>3, <2>5
    <3>2. \A j, l \in 1..(Len(s) - 1) : At(j) = At(l) => j = l
      BY <2>1, <2>3
    <3> HIDE DEF At
    <3> QED
      BY <2>1, <2>5, <3>1, <3>2 DEF IsInjective
  <2>7. ASSUME NEW x \in Range(t) PROVE x \in Range(s) \ {c}
    BY <2>1, <2>3, <2>5 DEF Range, IsInjective
  <2>8. ASSUME NEW x \in Range(s) \ {c} PROVE x \in Range(t)
    <3>1. PICK j \in 1..Len(s) : s[j] = x /\ j # i
      BY <2>1, <2>3 DEF Range
    <3>2. CASE j < i
      BY <2>1, <2>3, <2>5, <3>1, <3>2 DEF Range
    <3>3. CASE j > i
      <4>1. j - 1 \in 1..(Len(s) - 1) /\ t[j - 1] = x
        BY <2>1, <2>3, <2>5, <3>1, <3>3
      <4> QED
        BY <2>5, <4>1 DEF Range
    <3> QED
      BY <2>1, <2>3, <3>1, <3>2, <3>3
  <2> QED
    BY <2>4, <2>5, <2>6, <2>7, <2>8
<1> QED
  BY <1>1, <1>2

\* A sequence without repetition is as long as its range is large.
LEMMA InjectiveLen ==
  ASSUME NEW s \in Seq(Caches), IsInjective(s)
  PROVE  Cardinality(Range(s)) = Len(s)
<1>1. s \in Bijection(1..Len(s), Range(s))
  BY DEF Bijection, Injection, Surjection, Range
<1>2. ExistsBijection(1..Len(s), Range(s))
  BY <1>1 DEF ExistsBijection
<1> QED
  BY <1>2, FS_Bijection, FS_Interval

-----------------------------------------------------------------------------
(* The inductive invariant.                                                *)

LEMMA InitOK == Init => IInv
  BY DEF Init, IInv, TypeOK, Idle, Calls, NoSweep, Range, IsInjective, CallsInv, SweepInv,
         SweepCovers, ClosedBeforeNotSwept

\* What every step leaves to the calls of the others.
LEMMA Others ==
  ASSUME TypeOK, NEW p \in Procs, NEW c, Goto(p, c)
  PROVE  call'[p] = c /\ \A q \in Procs \ {p} : call'[q] = call[q]
BY DEF Goto, TypeOK

\* The records of calls that begin, and end.
LEMMA Records ==
  /\ Idle \in Calls /\ Idle.pc = "idle"
  /\ LET d == [Idle EXCEPT !.pc = "done"] IN d \in Calls /\ d.pc = "done"
  /\ \A c \in Caches, pc \in {"add", "remove"} :
       LET d == [Idle EXCEPT !.pc = pc, !.cache = c] IN d \in Calls /\ d.pc = pc /\ d.cache = c
  /\ \A l \in Seq(Caches) :
       LET d == [Idle EXCEPT !.pc = "sweep", !.list = l, !.at = 1] IN
       d \in Calls /\ d.pc = "sweep" /\ d.list = l /\ d.at = 1
<1>1. <<>> \in Seq(Caches)
  OBVIOUS
<1> QED
  BY <1>1 DEF Idle, Calls

LEMMA BuildStep ==
  ASSUME IInv, NEW p \in Procs, Build(p)
  PROVE  IInv'
<1> USE DEF IInv
<1>1. UNCHANGED <<tracker, stale, handed, closed, swept>> /\ call[p].pc = "idle"
  BY DEF Build
<1>2. \/ \E c \in Caches \ built :
            built' = built \cup {c} /\ Goto(p, [Idle EXCEPT !.pc = "add", !.cache = c])
      \/ Goto(p, [Idle EXCEPT !.pc = "done"]) /\ built' = built
  BY DEF Build, Done
<1>3. CASE \E c \in Caches \ built :
             built' = built \cup {c} /\ Goto(p, [Idle EXCEPT !.pc = "add", !.cache = c])
  <2>1. PICK c \in Caches \ built :
          built' = built \cup {c} /\ Goto(p, [Idle EXCEPT !.pc = "add", !.cache = c])
    BY <1>3
  <2>2. /\ call'[p].pc = "add" /\ call'[p].cache = c /\ call'[p] \in Calls
        /\ \A q \in Procs \ {p} : call'[q] = call[q]
    <3> DEFINE d == [Idle EXCEPT !.pc = "add", !.cache = c]
    <3>1. d \in Calls /\ d.pc = "add" /\ d.cache = c
      BY Records
    <3>2. Goto(p, d)
      BY <2>1
    <3> HIDE DEF d
    <3> QED
      BY <3>1, <3>2, Others
  <2>3. TypeOK'
    BY <1>1, <2>1, <2>2 DEF TypeOK, Goto
  <2>4. CallsInv'
    BY <1>1, <2>1, <2>2 DEF CallsInv, TypeOK
  <2>5. SweepInv' /\ SweepCovers' /\ ClosedBeforeNotSwept'
    BY <1>1, <2>2 DEF SweepInv, SweepCovers, ClosedBeforeNotSwept
  <2> QED
    BY <1>1, <2>3, <2>4, <2>5
<1>4. CASE Goto(p, [Idle EXCEPT !.pc = "done"]) /\ built' = built
  <2>1. /\ call'[p].pc = "done" /\ call'[p] \in Calls
        /\ \A q \in Procs \ {p} : call'[q] = call[q]
    <3> DEFINE d == [Idle EXCEPT !.pc = "done"]
    <3>1. d \in Calls /\ d.pc = "done"
      BY Records
    <3>2. Goto(p, d)
      BY <1>4
    <3> HIDE DEF d
    <3> QED
      BY <3>1, <3>2, Others
  <2>2. TypeOK'
    BY <1>1, <1>4, <2>1 DEF TypeOK, Goto
  <2>3. CallsInv' /\ SweepInv' /\ SweepCovers' /\ ClosedBeforeNotSwept'
    BY <1>1, <1>4, <2>1 DEF CallsInv, SweepInv, SweepCovers, ClosedBeforeNotSwept
  <2> QED
    BY <1>1, <2>2, <2>3
<1> QED
  BY <1>2, <1>3, <1>4

LEMMA AddStep ==
  ASSUME IInv, NEW p \in Procs, Add(p)
  PROVE  IInv'
<1> USE DEF IInv
<1> DEFINE c == call[p].cache
<1>1. /\ tracker' = With(tracker, c) /\ handed' = handed \cup {c}
      /\ UNCHANGED <<built, stale, closed, swept>> /\ call[p].pc = "add"
  BY DEF Add
<1>2. c \in Caches /\ c \in built \ handed /\ c \notin closed /\ c \notin Range(tracker)
      /\ tracker \in Seq(Caches)
  BY <1>1 DEF CallsInv, TypeOK
<1>3. /\ call'[p].pc = "done" /\ call'[p] \in Calls
      /\ \A q \in Procs \ {p} : call'[q] = call[q]
      /\ call' \in [Procs -> Calls]
  <2> DEFINE d == [Idle EXCEPT !.pc = "done"]
  <2>1. d \in Calls /\ d.pc = "done"
    BY Records
  <2>2. Goto(p, d)
    BY DEF Add, Done
  <2> HIDE DEF d
  <2> QED
    BY <2>1, <2>2, Others DEF Goto, TypeOK
<1>4. tracker' \in Seq(Caches) /\ IsInjective(tracker') /\ Range(tracker') = Range(tracker) \cup {c}
  BY <1>1, <1>2, AppendNew
<1>5. TypeOK'
  BY <1>1, <1>2, <1>3, <1>4 DEF TypeOK
<1>6. Range(tracker') = handed' \ closed'
  BY <1>1, <1>2, <1>4
<1>7. CallsInv'
  BY <1>1, <1>3 DEF CallsInv
<1>8. SweepInv' /\ SweepCovers' /\ ClosedBeforeNotSwept'
  BY <1>1, <1>3 DEF SweepInv, SweepCovers, ClosedBeforeNotSwept
<1> QED
  BY <1>4, <1>5, <1>6, <1>7, <1>8

LEMMA CloseInnerStep ==
  ASSUME IInv, NEW p \in Procs, NEW c \in Caches, CloseInner(p, c)
  PROVE  IInv'
<1> USE DEF IInv
<1> DEFINE d == [Idle EXCEPT !.pc = "remove", !.cache = c]
<1>1. /\ UNCHANGED <<tracker, built, stale, handed, closed, swept>> /\ c \in handed /\ Goto(p, d)
  BY DEF CloseInner
<1>2. d \in Calls /\ d.pc = "remove" /\ d.cache = c
  BY Records
<1> HIDE DEF d
<1>3. /\ call'[p].pc = "remove" /\ call'[p].cache = c
      /\ \A q \in Procs \ {p} : call'[q] = call[q]
      /\ call' \in [Procs -> Calls]
  BY <1>1, <1>2, Others DEF Goto, TypeOK
<1>4. TypeOK'
  BY <1>1, <1>3 DEF TypeOK
<1>5. CallsInv' /\ SweepInv' /\ SweepCovers' /\ ClosedBeforeNotSwept'
  BY <1>1, <1>3 DEF CallsInv, SweepInv, SweepCovers, ClosedBeforeNotSwept
<1> QED
  BY <1>1, <1>4, <1>5

\* A cache that is closed leaves the tracker, and no sweep owes it a visit.
LEMMA UnregisterStep ==
  ASSUME IInv, NEW p \in Procs, Unregister(p)
  PROVE  IInv'
<1> USE DEF IInv
<1> DEFINE c == call[p].cache
<1>1. /\ tracker' = Without(tracker, c) /\ closed' = closed \cup {c}
      /\ swept' = [q \in Procs |-> [swept[q] EXCEPT !.must = @ \ {c}]]
      /\ UNCHANGED <<built, stale, handed>> /\ call[p].pc = "remove"
  BY DEF Unregister
<1>2. c \in handed /\ c \in Caches /\ tracker \in Seq(Caches)
  BY <1>1 DEF CallsInv, TypeOK
<1>3. /\ call'[p].pc = "done" /\ call'[p] \in Calls
      /\ \A q \in Procs \ {p} : call'[q] = call[q]
      /\ call' \in [Procs -> Calls]
  <2> DEFINE d == [Idle EXCEPT !.pc = "done"]
  <2>1. d \in Calls /\ d.pc = "done"
    BY Records
  <2>2. Goto(p, d)
    BY DEF Unregister, Done
  <2> HIDE DEF d
  <2> QED
    BY <2>1, <2>2, Others DEF Goto, TypeOK
<1> HIDE DEF c
<1>4. tracker' \in Seq(Caches) /\ IsInjective(tracker') /\ Range(tracker') = Range(tracker) \ {c}
  BY <1>1, <1>2, RemoveOne
<1>5. \A q \in Procs : /\ swept'[q].must = swept[q].must \ {c} /\ swept'[q].gone = swept[q].gone
                        /\ swept'[q].visited = swept[q].visited
  BY <1>1 DEF TypeOK
<1>6. TypeOK'
  BY <1>1, <1>2, <1>3, <1>4 DEF TypeOK
<1>7. Range(tracker') = handed' \ closed'
  BY <1>1, <1>4
<1>8. CallsInv'
  BY <1>1, <1>3 DEF CallsInv
<1>9. SweepInv' /\ SweepCovers' /\ ClosedBeforeNotSwept'
  BY <1>3, <1>5 DEF SweepInv, SweepCovers, ClosedBeforeNotSwept
<1> QED
  BY <1>4, <1>6, <1>7, <1>8, <1>9

\* The list that a sweep starts with is what it owes.
LEMMA ListStep ==
  ASSUME IInv, NEW p \in Procs, List(p)
  PROVE  IInv'
<1> USE DEF IInv
<1> DEFINE d == [Idle EXCEPT !.pc = "sweep", !.list = tracker, !.at = 1]
<1>1. /\ swept' = [swept EXCEPT ![p] = [must |-> handed \ closed, gone |-> closed, visited |-> {}]]
      /\ UNCHANGED <<tracker, built, stale, handed, closed>> /\ Goto(p, d)
  BY DEF List
<1>2. d \in Calls /\ d.pc = "sweep" /\ d.list = tracker /\ d.at = 1
  BY Records DEF TypeOK
<1> HIDE DEF d
<1>3. /\ call'[p].pc = "sweep" /\ call'[p].list = tracker /\ call'[p].at = 1
      /\ \A q \in Procs \ {p} : call'[q] = call[q]
      /\ call' \in [Procs -> Calls]
  BY <1>1, <1>2, Others DEF Goto, TypeOK
<1>4. /\ swept'[p].must = handed \ closed /\ swept'[p].gone = closed /\ swept'[p].visited = {}
      /\ \A q \in Procs \ {p} : swept'[q] = swept[q]
      /\ swept' \in [Procs -> [must : SUBSET Caches, gone : SUBSET Caches, visited : SUBSET Caches]]
  BY <1>1 DEF TypeOK
<1>5. TypeOK'
  BY <1>1, <1>3, <1>4 DEF TypeOK
<1>6. CallsInv' /\ SweepCovers' /\ ClosedBeforeNotSwept'
  BY <1>1, <1>3, <1>4 DEF CallsInv, SweepCovers, ClosedBeforeNotSwept
<1>7. tracker \in Seq(Caches) /\ \A i \in DOMAIN tracker : i \in Nat /\ 1 <= i
  BY DEF TypeOK
<1>8. SweepInv'
  BY <1>3, <1>4, <1>7 DEF SweepInv, Range
<1> QED
  BY <1>1, <1>5, <1>6, <1>8

\* A visit takes one cache off what the sweep owes: the one it is at.
LEMMA CleanupNextStep ==
  ASSUME IInv, NEW p \in Procs, CleanupNext(p)
  PROVE  IInv'
<1> USE DEF IInv
<1> DEFINE c == call[p].list[call[p].at]
           d == [call[p] EXCEPT !.at = @ + 1]
<1>1. /\ call[p].pc = "sweep" /\ call[p].at <= Len(call[p].list)
      /\ stale' \subseteq stale /\ Goto(p, d)
      /\ swept' = [swept EXCEPT ![p].visited = @ \cup {c}]
      /\ UNCHANGED <<tracker, built, handed, closed>>
  BY DEF CleanupNext, Listed, GoOn
<1>2. call[p] \in Calls /\ call[p].list \in Seq(Caches) /\ call[p].at \in Nat /\ call[p].at >= 1
  BY <1>1 DEF TypeOK, Calls, SweepInv
<1>3. call[p].at \in DOMAIN call[p].list /\ c \in Caches /\ c \in Range(call[p].list)
  BY <1>1, <1>2 DEF Range
<1>4. /\ d \in Calls /\ d.pc = "sweep" /\ d.list = call[p].list /\ d.at = call[p].at + 1
  BY <1>1, <1>2 DEF Calls
<1> HIDE DEF d
<1>5. /\ call'[p].pc = "sweep" /\ call'[p].list = call[p].list /\ call'[p].at = call[p].at + 1
      /\ \A q \in Procs \ {p} : call'[q] = call[q]
      /\ call' \in [Procs -> Calls]
  BY <1>1, <1>4, Others DEF Goto, TypeOK
<1>6. /\ swept'[p].must = swept[p].must /\ swept'[p].gone = swept[p].gone
      /\ swept'[p].visited = swept[p].visited \cup {c}
      /\ \A q \in Procs \ {p} : swept'[q] = swept[q]
      /\ swept' \in [Procs -> [must : SUBSET Caches, gone : SUBSET Caches, visited : SUBSET Caches]]
  BY <1>1, <1>3 DEF TypeOK
<1>7. TypeOK'
  BY <1>1, <1>5, <1>6 DEF TypeOK
<1>8. CallsInv' /\ SweepCovers'
  BY <1>1, <1>5, <1>6 DEF CallsInv, SweepCovers
<1>9. ClosedBeforeNotSwept'
  BY <1>1, <1>3, <1>6 DEF SweepInv, ClosedBeforeNotSwept
<1>10. \A i \in DOMAIN call[p].list : i \in Nat
  BY <1>2
<1>11. SweepInv'
  <2> SUFFICES ASSUME NEW q \in Procs, call'[q].pc = "sweep"
               PROVE  /\ call'[q].at >= 1
                      /\ \A e \in swept'[q].must \ swept'[q].visited :
                           \E i \in DOMAIN call'[q].list : call'[q].at <= i /\ call'[q].list[i] = e
                      /\ Range(call'[q].list) \cap swept'[q].gone = {}
    BY DEF SweepInv
  <2>1. CASE q # p
    BY <1>5, <1>6, <2>1 DEF SweepInv
  <2>2. CASE q = p
    <3>1. ASSUME NEW e \in swept'[p].must \ swept'[p].visited
          PROVE  \E i \in DOMAIN call[p].list : call[p].at + 1 <= i /\ call[p].list[i] = e
      <4>1. PICK i \in DOMAIN call[p].list : call[p].at <= i /\ call[p].list[i] = e
        BY <1>1, <1>6, <3>1 DEF SweepInv
      <4>2. i # call[p].at
        BY <1>6, <3>1, <4>1
      <4> QED
        BY <1>2, <1>10, <4>1, <4>2
    <3> QED
      BY <1>1, <1>2, <1>5, <1>6, <2>2, <3>1 DEF SweepInv
  <2> QED
    BY <2>1, <2>2
<1> QED
  BY <1>1, <1>7, <1>8, <1>9, <1>11

LEMMA CleanupEndStep ==
  ASSUME IInv, NEW p \in Procs, CleanupEnd(p)
  PROVE  IInv'
<1> USE DEF IInv
<1> DEFINE d == [call[p] EXCEPT !.pc = "swept"]
<1>1. /\ UNCHANGED <<tracker, built, stale, handed, closed, swept>> /\ Goto(p, d)
      /\ call[p].pc = "sweep" /\ call[p].at > Len(call[p].list)
  BY DEF CleanupEnd, Listed
<1>2. call[p] \in Calls /\ call[p].list \in Seq(Caches) /\ call[p].at \in Nat
  BY DEF TypeOK, Calls
<1>3. d \in Calls /\ d.pc = "swept"
  BY <1>2 DEF Calls
<1> HIDE DEF d
<1>4. /\ call'[p].pc = "swept" /\ call' \in [Procs -> Calls]
      /\ \A q \in Procs \ {p} : call'[q] = call[q]
  BY <1>1, <1>3, Others DEF Goto, TypeOK
<1>5. TypeOK'
  BY <1>1, <1>4 DEF TypeOK
<1>6. CallsInv' /\ SweepInv' /\ ClosedBeforeNotSwept'
  BY <1>1, <1>4 DEF CallsInv, SweepInv, ClosedBeforeNotSwept
<1>7. ~ \E i \in DOMAIN call[p].list : call[p].at <= i
  BY <1>1, <1>2
<1>8. swept[p].must \subseteq swept[p].visited
  BY <1>1, <1>7 DEF SweepInv
<1>9. SweepCovers'
  BY <1>1, <1>4, <1>8 DEF SweepCovers
<1> QED
  BY <1>1, <1>5, <1>6, <1>9

LEMMA ReturnStep ==
  ASSUME IInv, NEW p \in Procs, Return(p)
  PROVE  IInv'
<1> USE DEF IInv
<1>1. /\ UNCHANGED <<tracker, built, stale, handed, closed>> /\ Goto(p, Idle)
      /\ swept' = [swept EXCEPT ![p] = NoSweep]
  BY DEF Return
<1>2. /\ call'[p] = Idle /\ call' \in [Procs -> Calls] /\ Idle.pc = "idle"
      /\ \A q \in Procs \ {p} : call'[q] = call[q]
  <2>1. Idle \in Calls /\ Idle.pc = "idle"
    BY Records
  <2>2. call'[p] = Idle /\ \A q \in Procs \ {p} : call'[q] = call[q]
    BY <1>1, <2>1, Others
  <2> QED
    BY <1>1, <2>1, <2>2 DEF Goto, TypeOK
<1>3. /\ swept'[p].gone = {}
      /\ \A q \in Procs \ {p} : swept'[q] = swept[q]
      /\ swept' \in [Procs -> [must : SUBSET Caches, gone : SUBSET Caches, visited : SUBSET Caches]]
  BY <1>1 DEF TypeOK, NoSweep
<1>4. TypeOK'
  BY <1>1, <1>2, <1>3 DEF TypeOK
<1>5. CallsInv' /\ SweepInv' /\ SweepCovers' /\ ClosedBeforeNotSwept'
  BY <1>1, <1>2, <1>3 DEF CallsInv, SweepInv, SweepCovers, ClosedBeforeNotSwept
<1> QED
  BY <1>1, <1>4, <1>5

LEMMA StepOK == IInv /\ [Next]_vars => IInv'
<1> SUFFICES ASSUME IInv, [Next]_vars
             PROVE  IInv'
  OBVIOUS
<1>1. ASSUME NEW p \in Procs, Invoke(p)
      PROVE  IInv'
  BY <1>1, BuildStep, CloseInnerStep, ListStep DEF Invoke
<1>2. ASSUME NEW p \in Procs, Proceed(p)
      PROVE  IInv'
  BY <1>2, AddStep, UnregisterStep, CleanupNextStep, CleanupEndStep, ReturnStep DEF Proceed
<1>3. ASSUME NEW c \in Caches, Expire(c)
      PROVE  IInv'
  BY <1>3 DEF Expire, IInv, TypeOK, CallsInv, SweepInv, SweepCovers, ClosedBeforeNotSwept
<1>4. CASE UNCHANGED vars
  BY <1>4 DEF vars, IInv, TypeOK, CallsInv, SweepInv, SweepCovers, ClosedBeforeNotSwept
<1> QED
  BY <1>1, <1>2, <1>3, <1>4 DEF Next

-----------------------------------------------------------------------------
(* The theorems.                                                           *)

\* The tracker holds the open caches and no other, without a repetition, a
\* cache on its way in is one New's alone, and a sweep has visited what it owes
\* or will come to it: whatever calls of New, Close and CleanupAll overlap.
THEOREM InductiveInvariantCorrect == Spec => []IInv
<1>1. IInv /\ [Next]_vars => IInv'
  BY StepOK
<1> QED
  BY InitOK, <1>1, PTL DEF Spec

\* Every variable keeps its type; a closed cache was handed out, and a cache
\* handed out was built.
THEOREM TypeCorrect == Spec => []TypeOK
<1>1. IInv => TypeOK
  BY DEF IInv
<1> QED
  BY InductiveInvariantCorrect, <1>1, PTL

\* The tracker holds each open cache exactly once, and nothing else: New and
\* Close neither lose an entry nor leave one behind (factory.go, add, remove).
THEOREM TrackerExactCorrect == Spec => []TrackerExact
<1>1. IInv => TrackerExact
  BY InjectiveLen DEF IInv, TypeOK, TrackerExact
<1> QED
  BY InductiveInvariantCorrect, <1>1, PTL

\* A CleanupAll calls Cleanup of every cache that is open from its start to its
\* end, whichever of them fail (factory.go, CleanupAll).
THEOREM SweepCoversCorrect == Spec => []SweepCovers
<1>1. IInv => SweepCovers
  BY DEF IInv
<1> QED
  BY InductiveInvariantCorrect, <1>1, PTL

\* A CleanupAll leaves a cache alone that was closed before it started
\* (factory.go, unregisteringCache).
THEOREM ClosedBeforeNotSweptCorrect == Spec => []ClosedBeforeNotSwept
<1>1. IInv => ClosedBeforeNotSwept
  BY DEF IInv
<1> QED
  BY InductiveInvariantCorrect, <1>1, PTL

-----------------------------------------------------------------------------
(* The sweeper.                                                            *)

USE RunnerOK

SInv == IInv /\ STypeOK

\* What the sweeper and the callers do is what the factory allows.
LEMMA FactoryStep == [SNext]_svars => [Next]_vars
  BY DEF SNext, svars, Stop, Sweep, Run, Tick, Cancel, Use, Callers, Next, Invoke, Proceed

\* A caller does not touch Run's call.
LEMMA CallersKeepRun ==
  ASSUME TypeOK, NEW p \in Callers, Invoke(p) \/ Proceed(p)
  PROVE  call'[Runner] = call[Runner]
<1>1. \E c : Goto(p, c)
  <2>1. Build(p) => \E c : Goto(p, c)
    BY DEF Build, Done
  <2>2. CleanupNext(p) => \E c : Goto(p, c)
    BY DEF CleanupNext, GoOn
  <2>3. ASSUME NEW c \in Caches, CloseInner(p, c) PROVE \E d : Goto(p, d)
    BY <2>3 DEF CloseInner
  <2>4. List(p) \/ Add(p) \/ Unregister(p) \/ CleanupEnd(p) \/ Return(p) => \E c : Goto(p, c)
    BY DEF List, Add, Unregister, CleanupEnd, Return, Done
  <2> QED
    BY <2>1, <2>2, <2>3, <2>4 DEF Invoke, Proceed
<1> QED
  BY <1>1 DEF Goto, Callers, TypeOK

\* Run itself goes from one point of CleanupAll to the next.
LEMMA RunSteps ==
  ASSUME TypeOK, call[Runner].pc \in {"idle", "sweep", "swept"},
         List(Runner) \/ CleanupNext(Runner) \/ CleanupEnd(Runner) \/ Return(Runner)
  PROVE  call'[Runner].pc \in {"idle", "sweep", "swept"}
<1>1. call[Runner] \in Calls
  BY DEF TypeOK
<1>2. ASSUME List(Runner) PROVE call'[Runner].pc = "sweep"
  BY <1>2 DEF List, Goto, TypeOK, Idle
<1>3. ASSUME CleanupNext(Runner) PROVE call'[Runner].pc = "sweep"
  BY <1>1, <1>3 DEF CleanupNext, GoOn, Goto, TypeOK, Calls
<1>4. ASSUME CleanupEnd(Runner) PROVE call'[Runner].pc = "swept"
  BY <1>1, <1>4 DEF CleanupEnd, Goto, TypeOK, Calls
<1>5. ASSUME Return(Runner) PROVE call'[Runner].pc = "idle"
  BY <1>5 DEF Return, Goto, TypeOK, Idle
<1> QED
  BY <1>2, <1>3, <1>4, <1>5

LEMMA SStepOK == SInv /\ [SNext]_svars => SInv'
<1> SUFFICES ASSUME SInv, [SNext]_svars
             PROVE  SInv'
  OBVIOUS
<1>1. IInv' /\ TypeOK /\ TypeOK'
  BY FactoryStep, StepOK DEF SInv, IInv
<1> DEFINE Kinds == tick \in BOOLEAN /\ canceled \in BOOLEAN /\ stopped \in BOOLEAN
           AtRest == stopped => canceled /\ call[Runner].pc = "idle"
<1>2. Kinds /\ AtRest /\ call[Runner].pc \in {"idle", "sweep", "swept"}
  BY DEF SInv, STypeOK
<1>3. Kinds' /\ AtRest' /\ call'[Runner].pc \in {"idle", "sweep", "swept"} => SInv'
  BY <1>1 DEF SInv, STypeOK
<1>4. CASE Stop
  BY <1>4, <1>2, <1>3 DEF Stop, Selecting, vars
<1>5. CASE Tick
  BY <1>5, <1>2, <1>3 DEF Tick, vars
<1>6. CASE Cancel
  BY <1>6, <1>2, <1>3 DEF Cancel, vars
<1>7. CASE UNCHANGED svars
  BY <1>7, <1>2, <1>3 DEF svars, vars
<1>8. CASE Sweep
  BY <1>1, <1>8, <1>2, <1>3, RunSteps DEF Sweep, Selecting
<1>9. CASE Run
  <2>1. call[Runner].pc # "idle"
    BY <1>9 DEF Run, CleanupNext, CleanupEnd, Return
  <2> QED
    BY <1>1, <1>9, <1>2, <1>3, <2>1, RunSteps DEF Run
<1>10. CASE Use
  <2>1. call'[Runner] = call[Runner]
    BY <1>1, <1>10, CallersKeepRun DEF Use, Expire
  <2> QED
    BY <1>1, <1>10, <1>2, <1>3, <2>1 DEF Use
<1> QED
  BY <1>4, <1>5, <1>6, <1>7, <1>8, <1>9, <1>10 DEF SNext

LEMMA SInitOK == SInit => SInv
<1> SUFFICES ASSUME SInit PROVE SInv
  OBVIOUS
<1>1. IInv /\ call[Runner] = Idle
  BY InitOK DEF SInit, Init
<1>2. TypeOK /\ Idle.pc = "idle"
  BY <1>1 DEF IInv, Idle
<1> QED
  BY <1>1, <1>2 DEF SInit, SInv, STypeOK

LEMMA SweeperInvariant == SSpec => []SInv
  BY SInitOK, SStepOK, PTL DEF SSpec

\* Run calls nothing but CleanupAll, stops only if it was cancelled and never in
\* the middle of a sweep, and is silent from then on (sweeper.go, Run).
THEOREM SweeperTypeCorrect == SSpec => []STypeOK
<1>1. SInv => STypeOK
  BY DEF SInv
<1> QED
  BY <1>1, SweeperInvariant, PTL

\* The sweeper is a caller of the factory like any other.
THEOREM SweeperUsesFactory == SSpec => Spec
<1>1. SInit => Init
  BY DEF SInit
<1> QED
  BY <1>1, FactoryStep, PTL DEF SSpec, Spec

\* With a sweeper and any number of callers, too, the tracker is exact, and a
\* sweep calls Cleanup of every cache that is open while it runs and of none
\* that was closed before it (sweeper.go, Run; factory.go, CleanupAll).
THEOREM SweptFactoryCorrect == SSpec => [](TrackerExact /\ SweepCovers /\ ClosedBeforeNotSwept)
BY SweeperUsesFactory, TrackerExactCorrect, SweepCoversCorrect, ClosedBeforeNotSweptCorrect, PTL
=============================================================================
