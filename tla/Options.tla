------------------------------- MODULE Options -------------------------------
(***************************************************************************)
(* Expiry times and the options that set them: cache/options.go and the    *)
(* expiry arithmetic of memory.go.                                         *)
(*                                                                         *)
(* An instant (time.Time) is an integer number of clock ticks, or Never    *)
(* for the zero time.Time{}, which the cache reads as "does not expire".   *)
(* A nil pointer, of any type, is Nil.                                     *)
(***************************************************************************)
EXTENDS Integers

CONSTANTS
  Never,  \* time.Time{}
  Nil     \* a nil pointer: an unset option, an absent map entry

ASSUME NeverIsNoInstant == Never \notin Int /\ Never # Nil
ASSUME NilIsNoInstant == Nil \notin Int

\* Values a time.Time field may hold.
Instants == Int \cup {Never}

\* Fault: !now.Before(u) instead of now.After(u).
NotBefore(t, u) == u = Never \/ t >= u

\* Fault: an entry is served one instant beyond its expiry.
AfterNext(t, u) == u = Never \/ t > u + 1

\* now.After(u): the zero time lies before every clock reading.
After(t, u) == u = Never \/ t > u

\* Fault: an entry expires one instant early.
IsExpiredAtOnce(u, t) == u # Never /\ t >= u

\* memoryItem.isExpired, for a non-nil item whose validUntil is u.
IsExpired(u, t) == u # Never /\ After(t, u)

\* The default expiry of a cache whose ttl is d; zero and negative mean none.
DefaultUntil(d, t) == IF d > 0 THEN t + d ELSE Never

(***************************************************************************)
(* Options of Set and SetOrFail. Every option overwrites validUntil, so a  *)
(* list of options is worth its last one: an option is a record with       *)
(* kind "none" (empty list), "ttl" (WithTTL) or "until" (WithValidUntil).  *)
(***************************************************************************)
SetOptions == [kind : {"none", "ttl"}, arg : Int] \cup [kind : {"until"}, arg : Instants]

NoSetOption == [kind |-> "none", arg |-> 0]
WithTTL(d) == [kind |-> "ttl", arg |-> d]
WithValidUntil(u) == [kind |-> "until", arg |-> u]

\* What WithTTL stores: zero never expires, a negative ttl expires at the present instant.
TTLUntil(d, t) ==
  CASE d = 0 -> Never
    [] d < 0 -> t
    [] OTHER -> t + d

\* newItem: the cache's default, overwritten by the option if there is one.
NewUntil(o, ttl, t) ==
  CASE o.kind = "none"  -> DefaultUntil(ttl, t)
    [] o.kind = "ttl"   -> TTLUntil(o.arg, t)
    [] o.kind = "until" -> o.arg

(***************************************************************************)
(* Options of Get: the struct getOptions, each pointer field Nil if unset, *)
(* and the options, each of which sets one field of it.                    *)
(***************************************************************************)
GetOptions ==
  [validUntil : Instants \cup {Nil}, setTTL : Int \cup {Nil},
   updateTTL : Int \cup {Nil}, defaultTTL : BOOLEAN, delete : BOOLEAN]

NoGetOptions ==
  [validUntil |-> Nil, setTTL |-> Nil, updateTTL |-> Nil,
   defaultTTL |-> FALSE, delete |-> FALSE]

AndSetValidUntil(o, u) == [o EXCEPT !.validUntil = u]
AndSetTTL(o, d) == [o EXCEPT !.setTTL = d]
AndUpdateTTL(o, d) == [o EXCEPT !.updateTTL = d]
AndDefaultTTL(o) == [o EXCEPT !.defaultTTL = TRUE]
AndDelete(o) == [o EXCEPT !.delete = TRUE]

\* getOptions.isEmpty
IsEmpty(o) ==
  /\ {o.validUntil, o.setTTL, o.updateTTL} = {Nil}
  /\ ~o.defaultTTL /\ ~o.delete

\* The switch of MemoryCache.Get: an absolute time wins over a new ttl, that
\* over an extension of the present expiry u, that over the default.
Touched(o, u, ttl, t) ==
  IF o.validUntil # Nil THEN o.validUntil
  ELSE IF o.setTTL # Nil THEN t + o.setTTL
  ELSE IF o.updateTTL # Nil THEN (IF u = Never THEN t ELSE u) + o.updateTTL
  ELSE IF o.defaultTTL THEN DefaultUntil(ttl, t)
  ELSE u
=============================================================================
