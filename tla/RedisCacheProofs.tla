--------------------------- MODULE RedisCacheProofs ---------------------------
(***************************************************************************)
(* Proofs about the Redis backend, for any numbers of keys, goroutines and *)
(* values, any options, and a network that loses, repeats and delays       *)
(* requests as often as it likes.                                          *)
(***************************************************************************)
EXTENDS RedisCache, FiniteSetTheorems, SequenceTheorems, TLAPS

(* Expiry times and commands.                                              *)

LEMMA DivInt == ASSUME NEW a \in Int PROVE a \div Second \in Int
BY ConstantsOK

LEMMA TimesInt == ASSUME NEW a \in Int PROVE a * Second \in Int
BY ConstantsOK

LEMMA NewUntilType ==
  ASSUME NEW o \in SetOptions, NEW t \in Int
  PROVE  NewUntil(o, DefaultTTL, t) \in Instants
BY ConstantsOK DEF NewUntil, SetOptions, DefaultUntil, TTLUntil, Instants

LEMMA UnixType == ASSUME NEW u \in Instants PROVE Unix(u) \in Int
BY DivInt DEF Unix, Instants

LEMMA OptionTypes ==
  ASSUME NEW o \in GetOpts, now \in Int
  PROVE  TtlTimestamp(o) \in Int /\ TtlDelta(o) \in Nat /\ o.delete \in BOOLEAN
<1>1. /\ o.validUntil \in Instants \cup {Nil}
      /\ o.setTTL \in Int \cup {Nil}
      /\ o.updateTTL \in Int \cup {Nil}
      /\ o.delete \in BOOLEAN
  BY ConstantsOK DEF GetOptions
<1>2. \A u \in Instants : Unix(u) \in Int
  BY UnixType
<1>3. TtlTimestamp(o) \in Int
  <2>1. now + DefaultTTL \in Instants
    BY ConstantsOK DEF Instants
  <2>2. o.setTTL # Nil => now + o.setTTL \in Instants
    BY <1>1 DEF Instants
  <2> QED
    BY <1>1, <1>2, <2>1, <2>2 DEF TtlTimestamp
<1>4. \A d \in Int : d > 0 => d \div Second \in Nat
  BY ConstantsOK
<1>5. TtlDelta(o) \in Nat
  BY <1>1, <1>4 DEF TtlDelta
<1> QED
  BY <1>1, <1>3, <1>5

-----------------------------------------------------------------------------
(* The server.                                                             *)

Fields == [val : Values \cup {Nil}, until : Instants]

LEMMA CommandParts ==
  ASSUME NEW c \in Commands
  PROVE  /\ c.cmd \in {"hset", "hsetnx", "hexpireat", "hget", "hdel", "getscript", "drainscript"}
         /\ c.cmd # "drainscript" => c.key \in Keys
         /\ c.cmd \in {"hset", "hsetnx"} => c.val \in Values
         /\ c.cmd \in {"hexpireat", "getscript"} => c.at \in Int
         /\ c.cmd = "getscript" => c.delta \in Nat /\ c.del \in BOOLEAN
BY DEF Commands, DrainScript

LEMMA ExpiringType ==
  ASSUME NEW k \in Keys, hash \in [Keys -> Fields], NEW u \in Int
  PROVE  /\ Expiring(k, u) \in Fields
         /\ Expiring(k, u).val \in {hash[k].val, Nil}
BY DEF Expiring, Absent, Fields, Instants

LEMMA ExtendedType ==
  ASSUME NEW k \in Keys, hash \in [Keys -> Fields], now \in Int, NEW d \in Nat
  PROVE  /\ Extended(k, d) \in Fields
         /\ Extended(k, d).val \in {hash[k].val, Nil}
<1> DEFINE t == HTtl(k)
<1> DEFINE u == now + ((IF t < 0 THEN 0 ELSE t) + d) * Second
<1>1. t \in Int
  BY ConstantsOK, DivInt DEF HTtl, Fields, Instants
<1>2. u \in Int
  BY <1>1, TimesInt
<1>3. Extended(k, d) = Expiring(k, u)
  BY DEF Extended
<1> HIDE DEF t, u
<1> QED
  BY <1>2, <1>3, ExpiringType

\* A command leaves a field of the right kind, and no value but its own in it.
LEMMA FieldAfterType ==
  ASSUME NEW c \in Commands, c.cmd # "drainscript", hash \in [Keys -> Fields], now \in Int
  PROVE  /\ FieldAfter(c) \in Fields
         /\ FieldAfter(c).val \in {hash[c.key].val, Nil}
              \cup (IF c.cmd = "hset" \/ (c.cmd = "hsetnx" /\ ~Present(c.key)) THEN {c.val} ELSE {})
<1>1. c.key \in Keys /\ hash[c.key] \in Fields
  BY CommandParts
<1>2. CASE c.cmd \in {"hset", "hsetnx"}
  BY <1>1, <1>2, CommandParts DEF FieldAfter, Fields, Instants
<1>3. CASE c.cmd = "hexpireat"
  BY <1>1, <1>3, CommandParts, TimesInt, ExpiringType DEF FieldAfter
<1>4. CASE c.cmd = "getscript"
  <2>1. TouchedField(c) \in Fields /\ TouchedField(c).val \in {hash[c.key].val, Nil}
    <3>1. /\ Absent \in Fields /\ Absent.val = Nil
          /\ c.at * Second \in Int
      BY <1>4, CommandParts, TimesInt DEF Absent, Fields, Instants
    <3> QED
      BY <1>1, <1>4, <3>1, CommandParts, ExpiringType, ExtendedType DEF TouchedField
  <2> QED
    BY <1>1, <1>4, <2>1 DEF FieldAfter
<1>5. CASE c.cmd \in {"hget", "hdel"}
  BY <1>1, <1>5 DEF FieldAfter, Absent, Fields, Instants
<1> QED
  BY <1>2, <1>3, <1>4, <1>5, CommandParts

LEMMA ReplyType ==
  ASSUME NEW c \in Commands, hash \in [Keys -> Fields]
  PROVE  Reply(c) \subseteq Values
<1>1. \A k \in Keys : Present(k) => hash[k].val \in Values
  BY DEF Present, Fields
<1>2. CASE c.cmd = "drainscript"
  BY <1>1, <1>2 DEF Reply
<1>3. CASE c.cmd # "drainscript"
  BY <1>1, <1>3, CommandParts DEF Reply
<1> QED
  BY <1>2, <1>3

LEMMA ExecType ==
  ASSUME NEW c \in Commands, Exec(c), hash \in [Keys -> Fields], now \in Int,
         stored \in [Values -> Nat]
  PROVE  hash' \in [Keys -> Fields] /\ stored' \in [Values -> Nat]
<1>1. hash' \in [Keys -> Fields]
  <2>1. CASE c.cmd = "drainscript"
    BY <2>1 DEF Exec, Absent, Fields, Instants
  <2>2. CASE c.cmd # "drainscript"
    <3>1. hash' = [hash EXCEPT ![c.key] = FieldAfter(c)] /\ FieldAfter(c) \in Fields
      BY <2>2, FieldAfterType DEF Exec
    <3> QED
      BY <3>1
  <2> QED
    BY <2>1, <2>2
<1>2. stored' \in [Values -> Nat]
  BY CommandParts DEF Exec
<1> QED
  BY <1>1, <1>2

-----------------------------------------------------------------------------
(* Types.                                                                  *)

Operations == {"none", "set", "setorfail", "expire", "delete", "get", "take", "drain"}

Calls ==
  [pc : {"idle", "wait", "done"}, op : Operations, key : Keys \cup {Nil}, val : Values \cup {Nil},
   opt : FailOpts \cup {Nil}, sent : Seq(Commands), todo : Seq(Commands), tries : Nat,
   reply : SUBSET Values, res : {"none", "ok", "notfound", "exists", "error"}]

\* Every command of a request consumes.
Consuming(req) == \A n \in 1..Len(req) : Consumes(req[n])

\* A call has what its next steps need: a SetOrFail its option, a consuming
\* call nothing but commands that consume.
CallOK(c) ==
  /\ c \in Calls
  /\ c.pc # "wait" => c.todo = <<>>
  /\ c.pc = "wait" /\ c.op = "setorfail" => c.key \in Keys /\ c.val \in Values /\ c.opt \in FailOpts
  /\ c.op \in {"take", "drain"} => Consuming(c.sent) /\ Consuming(c.todo)

TypeInv == TypeOK /\ call \in [Procs -> Calls] /\ \A p \in Procs : CallOK(call[p])

LEMMA Single == ASSUME NEW c \in Commands PROVE <<c>> \in Seq(Commands)
OBVIOUS

LEMMA RequestTypes ==
  ASSUME NEW k \in Keys, NEW v \in Values, NEW u \in Instants
  PROVE  /\ Expiry(k, u) \in Seq(Commands)
         /\ SetRequest(k, v, u) \in Seq(Commands)
         /\ <<HSetNX(k, v)>> \in Seq(Commands)
<1>1. HSet(k, v) \in Commands /\ HSetNX(k, v) \in Commands
  BY DEF HSet, HSetNX, Commands
<1>2. HExpireAt(k, Unix(u)) \in Commands
  BY UnixType DEF HExpireAt, Commands
<1>3. Expiry(k, u) \in Seq(Commands)
  BY <1>2, Single DEF Expiry
<1> QED
  BY <1>1, <1>3, Single DEF SetRequest

LEMMA WaitingOK ==
  ASSUME NEW op \in Operations, NEW k \in Keys \cup {Nil}, NEW v \in Values \cup {Nil},
         NEW req \in Seq(Commands), op \in {"take", "drain"} => Consuming(req)
  PROVE  LET w == Waiting(op, k, v, req)
         IN  /\ op # "setorfail" => CallOK(w)
             /\ \A o \in FailOpts : k \in Keys /\ v \in Values => CallOK([w EXCEPT !.opt = o])
BY DEF Waiting, Idle, Calls, CallOK

\* What a step owes.
LEMMA Advance ==
  ASSUME TypeInv, NEW p \in Procs, NEW c, CallOK(c), Goto(p, c),
         now' \in Start..MaxTime,
         hash' \in [Keys -> Fields],
         \A req \in late' : req \in Seq(Commands) /\ req # <<>>,
         asked' \in [Values -> Instants \cup {Unset}],
         stored' \in [Values -> Nat], served' \in [Values -> Nat],
         took' \in [Procs -> SUBSET Values]
  PROVE  TypeInv'
<1>1. call' \in [Procs -> Calls] /\ \A q \in Procs : CallOK(call'[q])
  BY DEF Goto, CallOK, TypeInv
<1>2. TypeOK'
  BY <1>1 DEF TypeOK, CallOK, Calls, Fields
<1> QED
  BY <1>1, <1>2 DEF TypeInv

LEMMA BeginStep ==
  ASSUME TypeInv, NEW p \in Procs, NEW c, CallOK(c), Begin(p, c),
         asked' \in [Values -> Instants \cup {Unset}]
  PROVE  TypeInv'
BY Advance DEF Begin, TypeInv, TypeOK, Fields

LEMMA InvokeStep ==
  ASSUME TypeInv, NEW p \in Procs, Invoke(p)
  PROVE  TypeInv'
<1>1. now \in Int /\ asked \in [Values -> Instants \cup {Unset}]
  BY ConstantsOK DEF TypeInv, TypeOK
<1>2. ASSUME NEW k \in Keys, NEW o \in SetOpts, Set(p, k, o) PROVE TypeInv'
  <2> DEFINE u == NewUntil(o, DefaultTTL, now)
  <2>1. u \in Instants
    BY <1>1, NewUntilType, ConstantsOK
  <2> HIDE DEF u
  <2>2. PICK v \in Values : /\ asked' = [asked EXCEPT ![v] = u]
                            /\ Begin(p, Waiting("set", k, v, SetRequest(k, v, u)))
    BY <1>2 DEF Set, u
  <2>3. CallOK(Waiting("set", k, v, SetRequest(k, v, u)))
    BY <2>1, RequestTypes, WaitingOK DEF Operations
  <2> QED
    BY <1>1, <2>1, <2>2, <2>3, BeginStep
<1>3. ASSUME NEW k \in Keys, NEW o \in FailOpts, SetOrFail(p, k, o) PROVE TypeInv'
  <2> DEFINE u == NewUntil(o, DefaultTTL, now)
  <2>1. u \in Instants
    BY <1>1, NewUntilType, ConstantsOK
  <2> HIDE DEF u
  <2>2. PICK v \in Values :
          /\ asked' = [asked EXCEPT ![v] = u]
          /\ Begin(p, [Waiting("setorfail", k, v, <<HSetNX(k, v)>>) EXCEPT !.opt = o])
    BY <1>3 DEF SetOrFail, u
  <2>3. CallOK([Waiting("setorfail", k, v, <<HSetNX(k, v)>>) EXCEPT !.opt = o])
    BY <2>1, RequestTypes, WaitingOK DEF Operations
  <2> QED
    BY <1>1, <2>1, <2>2, <2>3, BeginStep
<1>4. ASSUME NEW k \in Keys, Delete(p, k) PROVE TypeInv'
  <2>1. <<HDel(k)>> \in Seq(Commands)
    BY Single DEF HDel, Commands
  <2>2. CallOK(Waiting("delete", k, Nil, <<HDel(k)>>))
    BY <2>1, WaitingOK DEF Operations
  <2> QED
    BY <1>1, <1>4, <2>2, BeginStep DEF Delete
<1>5. ASSUME NEW k \in Keys, NEW o \in GetOpts, Get(p, k, o) PROVE TypeInv'
  <2> DEFINE op == IF o.delete THEN "take" ELSE "get"
             s == GetScript(k, o.delete, TtlTimestamp(o), TtlDelta(o))
             req == IF IsEmpty(o) THEN <<HGet(k)>> ELSE <<s>>
  <2>1. s \in Commands /\ HGet(k) \in Commands
    BY <1>1, OptionTypes DEF GetScript, HGet, Commands
  <2>2. op \in Operations /\ (op \in {"take", "drain"} => ~IsEmpty(o) /\ Consumes(s))
    BY DEF Operations, IsEmpty, Consumes, GetScript
  <2>3. Begin(p, Waiting(op, k, Nil, req)) /\ UNCHANGED asked
    BY <1>5 DEF Get
  <2> HIDE DEF op, s
  <2>4. req \in Seq(Commands)
    BY <2>1, Single
  <2>5. op \in {"take", "drain"} => Consuming(req)
    BY <2>2 DEF Consuming
  <2> HIDE DEF req
  <2>6. CallOK(Waiting(op, k, Nil, req)) \/ op = "setorfail"
    BY <2>2, <2>4, <2>5, WaitingOK
  <2> QED
    BY <1>1, <2>3, <2>6, BeginStep DEF op
<1>6. CASE Drain(p)
  <2>1. <<DrainScript>> \in Seq(Commands) /\ Consuming(<<DrainScript>>)
    BY Single DEF Commands, Consuming, Consumes, DrainScript
  <2>2. CallOK(Waiting("drain", Nil, Nil, <<DrainScript>>))
    BY <2>1, WaitingOK DEF Operations
  <2> QED
    BY <1>1, <1>6, <2>2, BeginStep DEF Drain
<1> QED
  BY <1>2, <1>3, <1>4, <1>5, <1>6 DEF Invoke

\* The command that p's request is at.
LEMMA NextCommand ==
  ASSUME TypeInv, NEW p \in Procs, InFlight(p)
  PROVE  /\ Head(call[p].todo) \in Commands /\ Tail(call[p].todo) \in Seq(Commands)
         /\ Consuming(call[p].todo) => Consumes(Head(call[p].todo)) /\ Consuming(Tail(call[p].todo))
<1>1. call[p].todo \in Seq(Commands) /\ call[p].todo # <<>>
  BY DEF TypeInv, TypeOK, InFlight
<1>2. /\ Head(call[p].todo) \in Commands /\ Tail(call[p].todo) \in Seq(Commands)
      /\ Len(Tail(call[p].todo)) = Len(call[p].todo) - 1
      /\ \A n \in 1..Len(Tail(call[p].todo)) : Tail(call[p].todo)[n] = call[p].todo[n + 1]
      /\ Len(call[p].todo) \in Nat \ {0} /\ Head(call[p].todo) = call[p].todo[1]
  BY <1>1, HeadTailProperties, EmptySeq
<1> QED
  BY <1>2 DEF Consuming

LEMMA ServeStep ==
  ASSUME TypeInv, NEW p \in Procs, Serve(p)
  PROVE  TypeInv'
<1> DEFINE c == Head(call[p].todo)
           d == [call[p] EXCEPT !.todo = Tail(@), !.reply = Reply(c)]
<1>1. /\ c \in Commands /\ Tail(call[p].todo) \in Seq(Commands)
      /\ Consuming(call[p].todo) => Consuming(Tail(call[p].todo))
  BY NextCommand DEF Serve
<1>2. hash \in [Keys -> Fields] /\ now \in Int /\ stored \in [Values -> Nat]
  BY ConstantsOK DEF TypeInv, TypeOK, Fields
<1>3. Exec(c) /\ Goto(p, d) /\ call[p].pc = "wait"
  BY DEF Serve, InFlight
<1>4. hash' \in [Keys -> Fields] /\ stored' \in [Values -> Nat]
  BY <1>1, <1>2, <1>3, ExecType
<1>5. Reply(c) \subseteq Values
  BY <1>1, <1>2, ReplyType
<1>6. took' \in [Procs -> SUBSET Values] /\ UNCHANGED <<now, late, asked, served>>
  BY <1>5 DEF Serve, TypeInv, TypeOK
<1> HIDE DEF c
<1>7. CallOK(d)
  <2>1. CallOK(call[p])
    BY DEF TypeInv
  <2> QED
    BY <1>1, <1>3, <1>5, <2>1 DEF CallOK, Calls
<1> HIDE DEF d
<1> QED
  BY <1>3, <1>4, <1>6, <1>7, Advance DEF TypeInv, TypeOK

\* A call that returns is in order, whatever it returns.
LEMMA FinishOK ==
  ASSUME TypeInv, NEW p \in Procs, NEW res \in {"ok", "notfound", "exists", "error"},
         NEW S \in SUBSET Values
  PROVE  LET d == [Idle EXCEPT !.pc = "done", !.op = call[p].op, !.val = call[p].val,
                               !.res = res, !.reply = S]
         IN  CallOK(d)
<1>1. /\ call[p].op \in Operations /\ call[p].val \in Values \cup {Nil}
      /\ <<>> \in Seq(Commands) /\ Consuming(<<>>)
  BY DEF TypeInv, CallOK, Calls, Consuming
<1> QED
  BY <1>1 DEF CallOK, Calls, Idle

LEMMA AnswerStep ==
  ASSUME TypeInv, NEW p \in Procs, Answer(p)
  PROVE  TypeInv'
<1>1. /\ call[p].pc = "wait" /\ CallOK(call[p]) /\ now \in Int
      /\ asked \in [Values -> Instants \cup {Unset}] /\ served \in [Values -> Nat]
      /\ Never \in Instants
  BY ConstantsOK DEF Answer, TypeInv, TypeOK, Instants
<1>2. ASSUME NEW u \in Instants, Promises(p, u) PROVE asked' \in [Values -> Instants \cup {Unset}]
  BY <1>1, <1>2 DEF Promises
<1>3. UNCHANGED <<now, hash, late, stored, took>>
  BY DEF Answer
<1>4. CASE NeedsExpiry(p)
  <2> DEFINE u == NewUntil(call[p].opt, DefaultTTL, now)
             d == Waiting("expire", call[p].key, call[p].val, Expiry(call[p].key, u))
  <2>1. call[p].key \in Keys /\ call[p].val \in Values /\ call[p].opt \in FailOpts
    BY <1>1, <1>4 DEF NeedsExpiry, CallOK
  <2>2. u \in Instants
    BY <1>1, <2>1, NewUntilType, ConstantsOK
  <2>3. Goto(p, d) /\ Promises(p, u) /\ served' = served
    BY <1>4 DEF Answer
  <2> HIDE DEF u
  <2>4. CallOK(d)
    BY <2>1, <2>2, RequestTypes, WaitingOK DEF Operations
  <2> HIDE DEF d
  <2> QED
    BY <1>1, <1>2, <1>3, <2>2, <2>3, <2>4, Advance DEF TypeInv, TypeOK, Fields
<1>5. CASE ~NeedsExpiry(p)
  <2> DEFINE d == [Idle EXCEPT !.pc = "done", !.op = call[p].op, !.val = call[p].val,
                               !.res = Outcome(p), !.reply = call[p].reply]
  <2>1. Goto(p, d)
    BY <1>5 DEF Answer, Finish
  <2>2. Promises(p, Never) \/ UNCHANGED asked
    BY <1>5 DEF Answer
  <2>3. served' \in [Values -> Nat]
    BY <1>1, <1>5 DEF Answer
  <2>4. CallOK(d)
    <3>1. Outcome(p) \in {"ok", "notfound", "exists", "error"}
      BY DEF Outcome
    <3>2. call[p].reply \in SUBSET Values
      BY DEF TypeInv, TypeOK
    <3> QED
      BY <3>1, <3>2, FinishOK
  <2> HIDE DEF d
  <2> QED
    BY <1>1, <1>2, <1>3, <2>1, <2>2, <2>3, <2>4, Advance DEF TypeInv, TypeOK, Fields
<1> QED
  BY <1>4, <1>5

LEMMA AbandonType ==
  ASSUME TypeInv, NEW p \in Procs, Abandon(p)
  PROVE  \A req \in late' : req \in Seq(Commands) /\ req # <<>>
BY DEF Abandon, InFlight, TypeInv, TypeOK

LEMMA GivingUpStep ==
  ASSUME TypeInv, NEW p \in Procs, Retry(p) \/ GiveUp(p)
  PROVE  TypeInv'
<1>1. \A req \in late' : req \in Seq(Commands) /\ req # <<>>
  BY AbandonType DEF Retry, GiveUp
<1>2. UNCHANGED <<now, hash, stored, served, took>> /\ call[p].pc = "wait" /\ CallOK(call[p])
  BY DEF Retry, GiveUp, TypeInv
<1>3. CASE Retry(p)
  <2> DEFINE d == [call[p] EXCEPT !.todo = call[p].sent, !.tries = @ + 1, !.reply = {}]
  <2>1. Goto(p, d) /\ UNCHANGED asked
    BY <1>3 DEF Retry
  <2>2. CallOK(d)
    <3>1. call[p] \in Calls /\ call[p].tries + 1 \in Nat
      BY <1>2 DEF CallOK, Calls
    <3>2. /\ d \in Calls /\ d.pc = call[p].pc /\ d.op = call[p].op /\ d.key = call[p].key
          /\ d.val = call[p].val /\ d.opt = call[p].opt
          /\ d.sent = call[p].sent /\ d.todo = call[p].sent
      BY <3>1 DEF Calls
    <3> HIDE DEF d
    <3> QED
      BY <1>2, <3>2 DEF CallOK
  <2> HIDE DEF d
  <2> QED
    BY <1>1, <1>2, <2>1, <2>2, Advance DEF TypeInv, TypeOK, Fields
<1>4. CASE GiveUp(p)
  <2> DEFINE d == [Idle EXCEPT !.pc = "done", !.op = call[p].op, !.val = call[p].val,
                               !.res = "error", !.reply = {}]
  <2>1. Goto(p, d)
    BY <1>4 DEF GiveUp, Finish
  <2>2. asked' \in [Values -> Instants \cup {Unset}]
    BY <1>4 DEF GiveUp, Promises, TypeInv, TypeOK, Instants
  <2>3. CallOK(d)
    BY FinishOK
  <2> HIDE DEF d
  <2> QED
    BY <1>1, <1>2, <2>1, <2>2, <2>3, Advance DEF TypeInv, TypeOK, Fields
<1> QED
  BY <1>3, <1>4

LEMMA ReturnStep ==
  ASSUME TypeInv, NEW p \in Procs, Return(p)
  PROVE  TypeInv'
<1>1. CallOK(Idle)
  BY DEF CallOK, Calls, Idle, Operations
<1>2. took' \in [Procs -> SUBSET Values]
  BY DEF Return, TypeInv, TypeOK
<1> QED
  BY <1>1, <1>2, Advance DEF Return, TypeInv, TypeOK, Fields

LEMMA LateStep ==
  ASSUME TypeInv, NEW req \in late, Late(req)
  PROVE  TypeInv'
<1>1. req \in Seq(Commands) /\ req # <<>>
  BY DEF TypeInv, TypeOK
<1>2. Head(req) \in Commands /\ Tail(req) \in Seq(Commands) /\ Len(Tail(req)) = Len(req) - 1
  BY <1>1, HeadTailProperties
<1>3. hash \in [Keys -> Fields] /\ now \in Int /\ stored \in [Values -> Nat]
  BY ConstantsOK DEF TypeInv, TypeOK, Fields
<1>4. hash' \in [Keys -> Fields] /\ stored' \in [Values -> Nat]
  BY <1>2, <1>3, ExecType DEF Late
<1>5. \A r \in late' : r \in Seq(Commands) /\ r # <<>>
  <2>1. Len(req) > 1 => Tail(req) # <<>>
    BY <1>1, <1>2, EmptySeq
  <2> QED
    BY <1>2, <2>1 DEF Late, TypeInv, TypeOK
<1> QED
  BY <1>4, <1>5 DEF Late, TypeInv, TypeOK, Fields

LEMMA TypeInit == Init => TypeInv
<1>1. CallOK(Idle)
  BY DEF CallOK, Calls, Idle, Operations
<1>2. Absent \in Fields /\ Start \in Start..MaxTime /\ <<>> \in Seq(Commands)
  BY ConstantsOK DEF Absent, Fields, Instants
<1> QED
  <2>1. Init => call \in [Procs -> Calls] /\ \A p \in Procs : CallOK(call[p])
    BY <1>1 DEF Init, CallOK
  <2>2. Init => TypeOK
    <3>1. Idle.sent \in Seq(Commands) /\ Idle.todo = <<>> /\ Idle.pc = "idle" /\ Idle.reply = {}
      BY <1>2 DEF Idle
    <3>2. Init => \A p \in Procs : call[p] = Idle
      BY DEF Init
    <3> QED
      <4>1. Init => hash \in [Keys -> Fields] /\ now \in Start..MaxTime /\ late = {}
        BY <1>2 DEF Init
      <4>2. Init => /\ asked \in [Values -> Instants \cup {Unset}] /\ took \in [Procs -> SUBSET Values]
                    /\ stored \in [Values -> Nat] /\ served \in [Values -> Nat]
        BY DEF Init
      <4>3. Init => \A p \in Procs :
              /\ call[p].pc = "idle" /\ call[p].reply = {}
              /\ call[p].sent \in Seq(Commands) /\ call[p].todo = <<>>
        BY <3>1, <3>2
      <4> QED
        BY <1>2, <4>1, <4>2, <4>3 DEF TypeOK, Fields
  <2> QED
    BY <2>1, <2>2 DEF TypeInv

LEMMA TypeStep == TypeInv /\ [Next]_vars => TypeInv'
<1> SUFFICES ASSUME TypeInv, [Next]_vars PROVE TypeInv'
  OBVIOUS
<1>1. CASE UNCHANGED vars
  BY <1>1 DEF vars, TypeInv, TypeOK
<1>2. CASE Tick
  BY <1>2, ConstantsOK DEF Tick, TypeInv, TypeOK
<1> QED
  BY <1>1, <1>2, InvokeStep, ServeStep, AnswerStep, GivingUpStep, ReturnStep, LateStep
     DEF Next, Step

\* The Redis backend's variables keep to their kinds, whatever the network does.
THEOREM TypeCorrect == Spec => []TypeOK
<1>1. TypeInv => TypeOK
  BY DEF TypeInv
<1> QED
  BY TypeInit, TypeStep, <1>1, PTL DEF Spec

-----------------------------------------------------------------------------
(* The books: what was stored is in the hash, with a consuming call that    *)
(* has not answered yet, handed out, or lost.                               *)

\* The fields that hold v, and the consuming calls that have it in their reply.
Held(v) == {k \in Keys : hash[k].val = v}

Carried(v) ==
  {p \in Procs : call[p].pc = "wait" /\ call[p].op \in {"take", "drain"} /\ v \in call[p].reply}

Books(v) ==
  /\ IsFiniteSet(Held(v)) /\ IsFiniteSet(Carried(v))
  /\ served[v] + Cardinality(Held(v)) + Cardinality(Carried(v)) <= stored[v]

Balanced == \A v \in Values : Books(v)

LEMMA Within ==
  ASSUME NEW S, NEW T, IsFiniteSet(T), S \subseteq T
  PROVE  /\ IsFiniteSet(S) /\ Cardinality(S) \in Nat /\ Cardinality(T) \in Nat
         /\ Cardinality(S) <= Cardinality(T)
BY FS_Subset, FS_CardinalityType

LEMMA OneMore ==
  ASSUME NEW S, NEW T, NEW x, IsFiniteSet(T), S \subseteq T \cup {x}
  PROVE  /\ IsFiniteSet(S) /\ Cardinality(S) \in Nat /\ Cardinality(T) \in Nat
         /\ Cardinality(S) <= Cardinality(T) + 1
<1>1. IsFiniteSet(T \cup {x}) /\ Cardinality(T) \in Nat
      /\ Cardinality(T \cup {x}) <= Cardinality(T) + 1
  BY FS_AddElement, FS_CardinalityType
<1>2. /\ IsFiniteSet(S) /\ Cardinality(S) \in Nat /\ Cardinality(T \cup {x}) \in Nat
      /\ Cardinality(S) <= Cardinality(T \cup {x})
  BY <1>1, Within
<1> QED
  BY <1>1, <1>2

LEMMA OneLess ==
  ASSUME NEW S, NEW T, NEW x \in T, IsFiniteSet(T), S \subseteq T \ {x}
  PROVE  /\ IsFiniteSet(S) /\ Cardinality(S) \in Nat /\ Cardinality(T) \in Nat
         /\ Cardinality(S) + 1 <= Cardinality(T)
<1>1. IsFiniteSet(T \ {x}) /\ Cardinality(T) \in Nat
      /\ Cardinality(T \ {x}) = Cardinality(T) - 1
  BY FS_RemoveElement, FS_CardinalityType
<1>2. /\ IsFiniteSet(S) /\ Cardinality(S) \in Nat
      /\ Cardinality(S) <= Cardinality(T \ {x})
  BY <1>1, Within
<1> QED
  BY <1>1, <1>2

\* A command stores v once and puts it in one field at most, or it puts v
\* nowhere.
LEMMA ExecStores ==
  ASSUME TypeInv, NEW v \in Values, NEW c \in Commands, Exec(c)
  PROVE  \/ stored'[v] = stored[v] /\ Held(v)' \subseteq Held(v)
         \/ stored'[v] = stored[v] + 1 /\ \E k \in Keys : Held(v)' \subseteq Held(v) \cup {k}
<1>1. /\ hash \in [Keys -> Fields] /\ now \in Int /\ stored \in [Values -> Nat] /\ v # Nil
  BY ConstantsOK DEF TypeInv, TypeOK, Fields
<1>2. CASE c.cmd = "drainscript"
  BY <1>1, <1>2 DEF Exec, Held, Absent
<1>3. CASE c.cmd # "drainscript"
  <2> DEFINE stores == c.cmd = "hset" \/ (c.cmd = "hsetnx" /\ ~Present(c.key))
             new == FieldAfter(c)
  <2>1. /\ c.key \in Keys /\ hash' = [hash EXCEPT ![c.key] = new]
        /\ new.val \in {hash[c.key].val, Nil} \cup (IF stores THEN {c.val} ELSE {})
        /\ stored' = IF stores THEN [stored EXCEPT ![c.val] = @ + 1] ELSE stored
        /\ stores => c.val \in Values
    BY <1>1, <1>3, CommandParts, FieldAfterType DEF Exec
  <2> HIDE DEF stores, new
  <2> QED
    BY <1>1, <2>1 DEF Held
<1> QED
  BY <1>2, <1>3

\* A command that consumes v leaves it in one field less, and stores nothing.
LEMMA ExecConsumes ==
  ASSUME TypeInv, NEW v \in Values, NEW c \in Commands, Exec(c), Consumes(c), v \in Reply(c)
  PROVE  stored' = stored /\ \E k \in Held(v) : Held(v)' \subseteq Held(v) \ {k}
<1>1. /\ hash \in [Keys -> Fields] /\ v # Nil /\ stored' = stored
  BY ConstantsOK DEF TypeInv, TypeOK, Fields, Exec, Consumes
<1>2. CASE c.cmd = "drainscript"
  BY <1>1, <1>2 DEF Exec, Reply, Held, Absent
<1>3. CASE c.cmd = "getscript" /\ c.del
  <2>1. c.key \in Keys /\ Present(c.key) /\ v = hash[c.key].val
    BY <1>3, CommandParts DEF Reply
  <2>2. FieldAfter(c) = Absent
    BY <1>3, <2>1 DEF FieldAfter, TouchedField
  <2>3. hash' = [hash EXCEPT ![c.key] = Absent]
    BY <1>3, <2>2 DEF Exec
  <2> QED
    BY <1>1, <2>1, <2>3 DEF Held, Absent
<1> QED
  BY <1>2, <1>3 DEF Consumes

\* Call record c is of a consuming call that has v in its reply.
Has(c, v) == c.pc = "wait" /\ c.op \in {"take", "drain"} /\ v \in c.reply

LEMMA CarriedMoves ==
  ASSUME TypeInv, NEW v \in Values, NEW p \in Procs, NEW c, Goto(p, c)
  PROVE  /\ Has(c, v) => Carried(v)' \subseteq Carried(v) \cup {p}
         /\ ~Has(c, v) => Carried(v)' \subseteq Carried(v) \ {p}
BY DEF TypeInv, Goto, Has, Carried

\* A call that begins or ends, or sends a request, has nothing in its reply.
LEMMA QuietRecords ==
  ASSUME NEW v, NEW p \in Procs
  PROVE  /\ \A op, k, w, req : ~Has(Waiting(op, k, w, req), v)
         /\ \A op, k, w, req, o : ~Has([Waiting(op, k, w, req) EXCEPT !.opt = o], v)
         /\ \A res, S : Finish(p, res, S) => \E d : Goto(p, d) /\ ~Has(d, v)
         /\ ~Has(Idle, v)
<1>1. /\ \A op, k, w, req : ~Has(Waiting(op, k, w, req), v)
      /\ \A op, k, w, req, o : ~Has([Waiting(op, k, w, req) EXCEPT !.opt = o], v)
  BY DEF Waiting, Idle, Has
<1>2. \A op, w, res, S :
        ~Has([Idle EXCEPT !.pc = "done", !.op = op, !.val = w, !.res = res, !.reply = S], v)
  BY DEF Idle, Has
<1>3. ~Has(Idle, v)
  BY DEF Idle, Has
<1> QED
  BY <1>1, <1>2, <1>3 DEF Finish

\* The books of v with no more of it anywhere.
LEMMA BooksShrink ==
  ASSUME TypeInv, Balanced, NEW v \in Values, Held(v)' \subseteq Held(v), Carried(v)' \subseteq Carried(v),
         served'[v] = served[v], stored'[v] = stored[v]
  PROVE  Books(v)'
<1>1. /\ IsFiniteSet(Held(v)) /\ IsFiniteSet(Carried(v)) /\ served[v] \in Nat /\ stored[v] \in Nat
      /\ served[v] + Cardinality(Held(v)) + Cardinality(Carried(v)) <= stored[v]
  BY DEF Balanced, Books, TypeInv, TypeOK
<1>2. /\ IsFiniteSet(Held(v)') /\ Cardinality(Held(v)') \in Nat /\ Cardinality(Held(v)) \in Nat
      /\ Cardinality(Held(v)') <= Cardinality(Held(v))
  BY <1>1, Within
<1>3. /\ IsFiniteSet(Carried(v)') /\ Cardinality(Carried(v)') \in Nat /\ Cardinality(Carried(v)) \in Nat
      /\ Cardinality(Carried(v)') <= Cardinality(Carried(v))
  BY <1>1, Within
<1> QED
  BY <1>1, <1>2, <1>3 DEF Books

LEMMA ExecBooks ==
  ASSUME TypeInv, Balanced, NEW v \in Values, NEW c \in Commands, Exec(c), served' = served,
         Carried(v)' \subseteq Carried(v)
  PROVE  Books(v)'
<1>1. CASE stored'[v] = stored[v] /\ Held(v)' \subseteq Held(v)
  BY <1>1, BooksShrink
<1>2. ASSUME NEW k \in Keys, stored'[v] = stored[v] + 1, Held(v)' \subseteq Held(v) \cup {k}
      PROVE  Books(v)'
  <2>1. /\ IsFiniteSet(Held(v)) /\ IsFiniteSet(Carried(v)) /\ served[v] \in Nat /\ stored[v] \in Nat
        /\ served[v] + Cardinality(Held(v)) + Cardinality(Carried(v)) <= stored[v]
    BY DEF Balanced, Books, TypeInv, TypeOK
  <2>2. /\ IsFiniteSet(Held(v)') /\ Cardinality(Held(v)') \in Nat /\ Cardinality(Held(v)) \in Nat
        /\ Cardinality(Held(v)') <= Cardinality(Held(v)) + 1
    BY <1>2, <2>1, OneMore
  <2>3. /\ IsFiniteSet(Carried(v)') /\ Cardinality(Carried(v)') \in Nat /\ Cardinality(Carried(v)) \in Nat
        /\ Cardinality(Carried(v)') <= Cardinality(Carried(v))
    BY <2>1, Within
  <2> QED
    BY <1>2, <2>1, <2>2, <2>3 DEF Books
<1> QED
  BY <1>1, <1>2, ExecStores

LEMMA ServeBooks ==
  ASSUME TypeInv, Balanced, NEW v \in Values, NEW p \in Procs, Serve(p)
  PROVE  Books(v)'
<1> DEFINE c == Head(call[p].todo)
           d == [call[p] EXCEPT !.todo = Tail(@), !.reply = Reply(c)]
<1>1. c \in Commands /\ Exec(c) /\ Goto(p, d) /\ served' = served
  BY NextCommand DEF Serve
<1>2. d.pc = call[p].pc /\ d.op = call[p].op /\ d.reply = Reply(c)
  BY DEF TypeInv, Calls
<1>3. call[p].op \in {"take", "drain"} => Consumes(c)
  BY NextCommand DEF Serve, TypeInv, CallOK
<1> HIDE DEF c, d
<1>4. CASE ~Has(d, v)
  BY <1>1, <1>4, CarriedMoves, ExecBooks
<1>5. CASE Has(d, v)
  <2>1. Consumes(c) /\ v \in Reply(c) /\ Carried(v)' \subseteq Carried(v) \cup {p}
    BY <1>1, <1>2, <1>3, <1>5, CarriedMoves DEF Has
  <2>2. PICK k \in Held(v) : Held(v)' \subseteq Held(v) \ {k}
    BY <1>1, <2>1, ExecConsumes
  <2>3. stored' = stored
    BY <1>1, <2>1, ExecConsumes
  <2>4. /\ IsFiniteSet(Held(v)) /\ IsFiniteSet(Carried(v)) /\ served[v] \in Nat /\ stored[v] \in Nat
        /\ served[v] + Cardinality(Held(v)) + Cardinality(Carried(v)) <= stored[v]
    BY DEF Balanced, Books, TypeInv, TypeOK
  <2>5. /\ IsFiniteSet(Held(v)') /\ Cardinality(Held(v)') \in Nat /\ Cardinality(Held(v)) \in Nat
        /\ Cardinality(Held(v)') + 1 <= Cardinality(Held(v))
    BY <2>2, <2>4, OneLess
  <2>6. /\ IsFiniteSet(Carried(v)') /\ Cardinality(Carried(v)') \in Nat /\ Cardinality(Carried(v)) \in Nat
        /\ Cardinality(Carried(v)') <= Cardinality(Carried(v)) + 1
    BY <2>1, <2>4, OneMore
  <2> QED
    BY <1>1, <2>3, <2>4, <2>5, <2>6 DEF Books
<1> QED
  BY <1>4, <1>5

LEMMA AnswerBooks ==
  ASSUME TypeInv, Balanced, NEW v \in Values, NEW p \in Procs, Answer(p)
  PROVE  Books(v)'
<1>1. PICK d : Goto(p, d) /\ ~Has(d, v)
  BY QuietRecords DEF Answer
<1>2. Carried(v)' \subseteq Carried(v) \ {p} /\ Held(v)' = Held(v) /\ stored' = stored
  BY <1>1, CarriedMoves DEF Answer, Held
<1>3. CASE Has(call[p], v)
  <2>1. p \in Carried(v) /\ served'[v] = served[v] + 1
    BY <1>3 DEF Answer, NeedsExpiry, Has, Carried
  <2>2. /\ IsFiniteSet(Held(v)) /\ IsFiniteSet(Carried(v)) /\ served[v] \in Nat /\ stored[v] \in Nat
        /\ served[v] + Cardinality(Held(v)) + Cardinality(Carried(v)) <= stored[v]
    BY DEF Balanced, Books, TypeInv, TypeOK
  <2>3. /\ IsFiniteSet(Carried(v)') /\ Cardinality(Carried(v)') \in Nat /\ Cardinality(Carried(v)) \in Nat
        /\ Cardinality(Carried(v)') + 1 <= Cardinality(Carried(v))
    BY <1>2, <2>1, <2>2, OneLess
  <2>4. Cardinality(Held(v)) \in Nat
    BY <2>2, FS_CardinalityType
  <2> QED
    BY <1>2, <2>1, <2>2, <2>3, <2>4 DEF Books
<1>4. CASE ~Has(call[p], v)
  <2>1. served'[v] = served[v]
    BY <1>4 DEF Answer, Has
  <2> QED
    BY <1>2, <2>1, BooksShrink
<1> QED
  BY <1>3, <1>4

LEMMA BooksStep ==
  ASSUME TypeInv, Balanced, [Next]_vars, NEW v \in Values
  PROVE  Books(v)'
<1>1. CASE Tick \/ UNCHANGED vars
  <2>1. UNCHANGED <<hash, call, served, stored>>
    BY <1>1 DEF Tick, vars
  <2>2. Held(v)' = Held(v) /\ Carried(v)' = Carried(v)
    BY <2>1 DEF Held, Carried
  <2> QED
    BY <2>1, <2>2, BooksShrink
<1>2. ASSUME NEW req \in late, Late(req) PROVE Books(v)'
  <2>1. Head(req) \in Commands
    BY HeadTailProperties DEF TypeInv, TypeOK
  <2>2. Carried(v)' = Carried(v)
    BY <1>2 DEF Late, Carried
  <2> QED
    BY <1>2, <2>1, <2>2, ExecBooks DEF Late
<1>3. ASSUME NEW p \in Procs, Invoke(p) \/ Retry(p) \/ GiveUp(p) \/ Return(p) PROVE Books(v)'
  <2>1. UNCHANGED <<hash, served, stored>>
    BY <1>3 DEF Invoke, Set, SetOrFail, Delete, Get, Drain, Begin, Retry, GiveUp, Return
  <2>2. PICK d : Goto(p, d) /\ ~Has(d, v)
    <3>1. CASE Invoke(p)
      BY <3>1, QuietRecords DEF Invoke, Set, SetOrFail, Delete, Get, Drain, Begin
    <3>2. CASE Retry(p)
      <4> DEFINE d == [call[p] EXCEPT !.todo = call[p].sent, !.tries = @ + 1, !.reply = {}]
      <4>1. ~Has(d, v)
        BY DEF Has, TypeInv, Calls
      <4> QED
        BY <3>2, <4>1 DEF Retry
    <3>3. CASE GiveUp(p) \/ Return(p)
      BY <3>3, QuietRecords DEF GiveUp, Return
    <3> QED
      BY <1>3, <3>1, <3>2, <3>3
  <2>3. Carried(v)' \subseteq Carried(v) /\ Held(v)' = Held(v)
    BY <2>1, <2>2, CarriedMoves DEF Held
  <2> QED
    BY <2>1, <2>3, BooksShrink
<1> QED
  BY <1>1, <1>2, <1>3, ServeBooks, AnswerBooks DEF Next, Step

\* GetAndDelete, Get with AndDelete and Drain hand a value out at most as often
\* as the server stored it, however often requests are lost, repeated or late.
THEOREM ServedOncePerStoreCorrect == Spec => []ServedOncePerStore
<1>1. Init => Balanced
  <2> SUFFICES ASSUME Init, NEW v \in Values PROVE Books(v)
    BY DEF Balanced
  <2>1. Held(v) = {} /\ Carried(v) = {} /\ served[v] = 0 /\ stored[v] = 0
    BY ConstantsOK DEF Init, Held, Carried, Absent, Idle
  <2> QED
    BY <2>1, FS_EmptySet DEF Books
<1>2. TypeInv /\ Balanced /\ [Next]_vars => Balanced'
  BY BooksStep DEF Balanced
<1>3. TypeInv /\ Balanced => ServedOncePerStore
  <2> SUFFICES ASSUME TypeInv, Balanced, NEW v \in Values PROVE served[v] <= stored[v]
    BY DEF ServedOncePerStore
  <2>1. served[v] \in Nat /\ stored[v] \in Nat /\ Cardinality(Held(v)) \in Nat /\ Cardinality(Carried(v)) \in Nat
    BY FS_CardinalityType DEF Balanced, Books, TypeInv, TypeOK
  <2> QED
    BY <2>1 DEF Balanced, Books
<1> QED
  BY TypeInit, TypeStep, <1>1, <1>2, <1>3, PTL DEF Spec

-----------------------------------------------------------------------------
(* What succeeded expires, on a network that loses and repeats requests but *)
(* executes none that was given up. An entry without an expiry that should  *)
(* have one has its own call still at work on it.                           *)

\* No command of a request stores a value.
Plain(req) == \A n \in 1..Len(req) : req[n].cmd \notin {"hset", "hsetnx"}

\* A Set whose value is to expire sends the expiry after the value, one whose
\* value is not sends none; a SetOrFail goes by its option.
SetAtWork(c) ==
  \E at \in Int :
    LET h == HSet(c.key, c.val)
        e == HExpireAt(c.key, at)
    IN  \/ c.sent = <<h>> /\ c.todo \in {<<h>>, <<>>} /\ asked[c.val] = Never
        \/ c.sent = <<h, e>> /\ c.todo \in {<<h, e>>, <<e>>, <<>>}

SetOrFailAtWork(c) ==
  /\ c.sent = <<HSetNX(c.key, c.val)>> /\ c.todo \in {c.sent, <<>>}
  /\ NewUntil(c.opt, DefaultTTL, 0) = Never <=> asked[c.val] = Never

ExpireAtWork(c) ==
  \E at \in Int : c.sent = <<HExpireAt(c.key, at)>> /\ c.todo \in {c.sent, <<>>}

\* A call that waits with a value of its own.
Stores(c) == c.pc = "wait" /\ c.op \in {"set", "setorfail", "expire"}

AtWork(c) ==
  /\ Stores(c) =>
       /\ c.key \in Keys /\ c.val \in Values /\ asked[c.val] # Unset
       /\ c.op = "set" => SetAtWork(c)
       /\ c.op = "setorfail" => SetOrFailAtWork(c)
       /\ c.op = "expire" => ExpireAtWork(c)
  /\ c.pc = "wait" /\ ~Stores(c) => c.val = Nil /\ Plain(c.sent) /\ Plain(c.todo)

\* A value belongs to one call.
OneCall == \A p, q \in Procs : Stores(call[p]) /\ Stores(call[q]) /\ call[p].val = call[q].val => p = q

\* The call c will see to it that the value v under k expires, or fail.
SeesTo(c, k, v) == Stores(c) /\ c.key = k /\ c.val = v /\ (c.op = "setorfail" \/ c.todo # <<>>)

\* An entry without an expiry, though one was asked for.
Overdue(k) == hash[k].val # Nil /\ hash[k].until = Never /\ asked[hash[k].val] # Never

Covered == \A k \in Keys : Overdue(k) => \E p \in Procs : SeesTo(call[p], k, hash[k].val)

WorkInv == late = {} /\ (\A p \in Procs : AtWork(call[p])) /\ OneCall /\ Covered

LEMMA Tuples ==
  /\ \A h, e : Head(<<h, e>>) = h /\ Tail(<<h, e>>) = <<e>> /\ <<h, e>> # <<>> /\ <<h, e>> # <<e>>
  /\ \A h : Head(<<h>>) = h /\ Tail(<<h>>) = <<>> /\ <<h>> # <<>>
OBVIOUS

LEMMA Pair == ASSUME NEW h, NEW e PROVE <<h>> \o <<e>> = <<h, e>>
<1>1. <<h>> \in Seq({h, e}) /\ <<e>> \in Seq({h, e}) /\ <<h, e>> \in Seq({h, e})
  OBVIOUS
<1>2. /\ <<h>> \o <<e>> \in Seq({h, e}) /\ Len(<<h>> \o <<e>>) = 2
      /\ (<<h>> \o <<e>>)[1] = h /\ (<<h>> \o <<e>>)[2] = e
  BY <1>1, ConcatProperties
<1>3. Len(<<h, e>>) = 2 /\ <<h, e>>[1] = h /\ <<h, e>>[2] = e
  OBVIOUS
<1>4. \A i \in 1..2 : i = 1 \/ i = 2
  OBVIOUS
<1> QED
  BY <1>1, <1>2, <1>3, <1>4, SeqEqual

LEMMA NeverAnyTime ==
  ASSUME NEW o \in SetOptions, NEW t \in Int, NEW u \in Int
  PROVE  NewUntil(o, DefaultTTL, t) = Never <=> NewUntil(o, DefaultTTL, u) = Never
BY ConstantsOK, NeverIsNoInstant DEF NewUntil, SetOptions, DefaultUntil, TTLUntil

\* A command that stores nothing takes no expiry away, and HEXPIREAT leaves one.
LEMMA ExpiryStays ==
  ASSUME NEW c \in Commands, c.cmd \notin {"hset", "hsetnx", "drainscript"}, hash \in [Keys -> Fields],
         now \in Int, FieldAfter(c).val # Nil, FieldAfter(c).until = Never
  PROVE  c.cmd # "hexpireat" /\ FieldAfter(c) = hash[c.key]
<1>1. c.key \in Keys
  BY CommandParts
<1>2. \A u \in Int : Expiring(c.key, u).val # Nil => Expiring(c.key, u).until # Never
  BY <1>1, NeverIsNoInstant DEF Expiring, Absent, Fields
<1>3. CASE c.cmd = "hexpireat"
  <2>1. c.at * Second \in Int
    BY <1>3, CommandParts, TimesInt
  <2> QED
    BY <1>2, <1>3, <2>1 DEF FieldAfter, Present
<1>4. CASE c.cmd = "getscript" /\ Present(c.key)
  <2>1. c.at * Second \in Int /\ c.delta \in Nat
    BY <1>4, CommandParts, TimesInt
  <2>2. ASSUME NEW d \in Nat PROVE \E u \in Int : Extended(c.key, d) = Expiring(c.key, u)
    <3> DEFINE t == HTtl(c.key)
    <3> DEFINE u == now + ((IF t < 0 THEN 0 ELSE t) + d) * Second
    <3>1. t \in Int
      BY <1>1, ConstantsOK, DivInt DEF HTtl, Fields, Instants
    <3>2. u \in Int
      BY <3>1, TimesInt
    <3>3. Extended(c.key, d) = Expiring(c.key, u)
      BY DEF Extended
    <3> HIDE DEF t, u
    <3> QED
      BY <3>2, <3>3
  <2>3. Extended(c.key, c.delta).val # Nil => Extended(c.key, c.delta).until # Never
    BY <1>2, <2>1, <2>2
  <2>4. FieldAfter(c) = TouchedField(c)
    BY <1>4 DEF FieldAfter
  <2> QED
    BY <1>2, <1>4, <2>1, <2>3, <2>4 DEF TouchedField, Absent
<1>5. CASE c.cmd \in {"hget", "hdel"} \/ (c.cmd = "getscript" /\ ~Present(c.key))
  BY <1>5 DEF FieldAfter, Absent
<1> QED
  BY <1>3, <1>4, <1>5, CommandParts

\* What a step of p owes.
LEMMA WorkAdvance ==
  ASSUME TypeInv, WorkInv, NEW p \in Procs, NEW c, Goto(p, c), late' = {},
         \A q \in Procs \ {p} : Stores(call[q]) => asked'[call[q].val] = asked[call[q].val],
         AtWork(call[p])',
         Stores(c) => \A q \in Procs \ {p} : Stores(call[q]) => call[q].val # c.val,
         Covered'
  PROVE  WorkInv'
<1>1. call'[p] = c /\ \A q \in Procs \ {p} : call'[q] = call[q]
  BY DEF Goto, TypeInv
<1>2. ASSUME NEW q \in Procs \ {p} PROVE AtWork(call[q])'
  <2>1. AtWork(call[q]) /\ call'[q] = call[q]
    BY <1>1 DEF WorkInv
  <2>2. Stores(call[q]) => asked'[call[q].val] = asked[call[q].val]
    OBVIOUS
  <2> QED
    BY <2>1, <2>2 DEF AtWork, SetAtWork, SetOrFailAtWork, ExpireAtWork, Stores
<1>3. OneCall'
  BY <1>1 DEF WorkInv, OneCall
<1> QED
  BY <1>2, <1>3 DEF WorkInv

\* Entries and what was asked for them are as they were, and nobody who sees to
\* one stops.
LEMMA CoveredStays ==
  ASSUME TypeInv, WorkInv, NEW p \in Procs, NEW c, Goto(p, c),
         \A k \in Keys : Overdue(k)' => Overdue(k) /\ hash'[k].val = hash[k].val,
         \A k \in Keys : Overdue(k)' /\ SeesTo(call[p], k, hash[k].val) => SeesTo(c, k, hash[k].val)
  PROVE  Covered'
<1>1. call'[p] = c /\ \A q \in Procs \ {p} : call'[q] = call[q]
  BY DEF Goto, TypeInv
<1> SUFFICES ASSUME NEW k \in Keys, Overdue(k)'
             PROVE  \E q \in Procs : SeesTo(call'[q], k, hash'[k].val)
  BY DEF Covered
<1>2. PICK q \in Procs : SeesTo(call[q], k, hash[k].val)
  BY DEF WorkInv, Covered
<1>3. SeesTo(call'[q], k, hash[k].val)
  BY <1>1, <1>2
<1> QED
  BY <1>3

LEMMA StoringRequests ==
  ASSUME NEW k \in Keys, NEW v \in Values, NEW u \in Instants
  PROVE  /\ u = Never => SetRequest(k, v, u) = <<HSet(k, v)>>
         /\ u # Never => \E at \in Int : /\ SetRequest(k, v, u) = <<HSet(k, v), HExpireAt(k, at)>>
                                         /\ Expiry(k, u) = <<HExpireAt(k, at)>>
<1>1. Unix(u) \in Int
  BY UnixType
<1>2. u # Never => Expiry(k, u) = <<HExpireAt(k, Unix(u))>>
  BY DEF Expiry
<1>3. u = Never => Expiry(k, u) = <<>>
  BY DEF Expiry
<1> QED
  <2>1. \A h : <<h>> \o <<>> = <<h>>
    OBVIOUS
  <2> QED
    BY <1>1, <1>2, <1>3, <2>1, Pair DEF SetRequest

\* A call with a fresh value begins.
LEMMA StoreBegins ==
  ASSUME TypeInv, WorkInv, NEW p \in Procs, NEW c, Begin(p, c), NEW v \in Values, NEW u,
         asked[v] = Unset, asked' = [asked EXCEPT ![v] = u], c.val = v, AtWork(c)', AtWork(call[p])'
  PROVE  WorkInv'
<1>1. /\ Goto(p, c) /\ hash' = hash /\ late' = {} /\ ~Stores(call[p])
      /\ asked \in [Values -> Instants \cup {Unset}]
  BY DEF Begin, WorkInv, Stores, TypeInv, TypeOK
<1>2. \A q \in Procs : Stores(call[q]) => call[q].val # v
  BY DEF WorkInv, AtWork
<1>3. \A k \in Keys : Overdue(k)' => Overdue(k) /\ hash'[k].val = hash[k].val
  BY <1>1, ConstantsOK DEF Overdue, Instants, TypeInv, TypeOK
<1>4. Covered'
  BY <1>1, <1>3, CoveredStays DEF SeesTo
<1>5. \A q \in Procs \ {p} : Stores(call[q]) => asked'[call[q].val] = asked[call[q].val]
  BY <1>1, <1>2
<1> QED
  BY <1>1, <1>2, <1>4, <1>5, WorkAdvance

LEMMA InvokeWork ==
  ASSUME TypeInv, WorkInv, NEW p \in Procs, Invoke(p)
  PROVE  WorkInv'
<1>1. now \in Int /\ Never \in Instants /\ Unset # Never
  BY ConstantsOK DEF TypeInv, TypeOK, Instants
<1>2. \A c : Begin(p, c) => call'[p] = c
  BY DEF Begin, Goto, TypeInv
<1>3. ASSUME NEW k \in Keys, NEW o \in SetOpts, Set(p, k, o) PROVE WorkInv'
  <2>1. PICK u \in Instants : u = NewUntil(o, DefaultTTL, now)
    BY <1>1, NewUntilType, ConstantsOK
  <2>2. PICK v \in Values : /\ asked[v] = Unset /\ asked' = [asked EXCEPT ![v] = u]
                            /\ Begin(p, Waiting("set", k, v, SetRequest(k, v, u)))
    BY <1>3, <2>1 DEF Set
  <2> DEFINE c == Waiting("set", k, v, SetRequest(k, v, u))
  <2>3. /\ c.pc = "wait" /\ c.op = "set" /\ c.key = k /\ c.val = v
        /\ c.sent = SetRequest(k, v, u) /\ c.todo = SetRequest(k, v, u)
    BY DEF Waiting, Idle
  <2>4. Begin(p, c) /\ call'[p] = c
    BY <1>2, <2>2
  <2>5. asked'[v] = u /\ asked'[v] # Unset
    BY <2>1, <2>2, ConstantsOK DEF TypeInv, TypeOK
  <2> HIDE DEF c
  <2>6. SetAtWork(c)'
    BY <2>1, <2>3, <2>5, StoringRequests DEF SetAtWork
  <2>7. AtWork(c)'
    BY <2>3, <2>5, <2>6 DEF AtWork, Stores
  <2>8. AtWork(call[p])'
    BY <2>4, <2>7 DEF AtWork, SetAtWork, SetOrFailAtWork, ExpireAtWork
  <2> QED
    BY <2>2, <2>3, <2>4, <2>7, <2>8, StoreBegins
<1>4. ASSUME NEW k \in Keys, NEW o \in FailOpts, SetOrFail(p, k, o) PROVE WorkInv'
  <2> DEFINE u == NewUntil(o, DefaultTTL, now)
  <2>1. u \in Instants /\ (NewUntil(o, DefaultTTL, 0) = Never <=> u = Never)
    BY <1>1, NewUntilType, NeverAnyTime, ConstantsOK
  <2> HIDE DEF u
  <2>2. PICK v \in Values :
          /\ asked[v] = Unset /\ asked' = [asked EXCEPT ![v] = u]
          /\ Begin(p, [Waiting("setorfail", k, v, <<HSetNX(k, v)>>) EXCEPT !.opt = o])
    BY <1>4 DEF SetOrFail, u
  <2> DEFINE c == [Waiting("setorfail", k, v, <<HSetNX(k, v)>>) EXCEPT !.opt = o]
  <2>3. /\ c.pc = "wait" /\ c.op = "setorfail" /\ c.key = k /\ c.val = v /\ c.opt = o
        /\ c.sent = <<HSetNX(k, v)>> /\ c.todo = <<HSetNX(k, v)>>
    BY DEF Waiting, Idle
  <2>4. Begin(p, c) /\ call'[p] = c
    BY <1>2, <2>2
  <2>5. asked'[v] = u /\ asked'[v] # Unset
    BY <2>1, <2>2, ConstantsOK DEF TypeInv, TypeOK
  <2> HIDE DEF c
  <2>6. SetOrFailAtWork(c)'
    BY <2>1, <2>3, <2>5 DEF SetOrFailAtWork
  <2>7. AtWork(c)'
    BY <2>3, <2>5, <2>6 DEF AtWork, Stores
  <2>8. AtWork(call[p])'
    BY <2>4, <2>7 DEF AtWork, SetAtWork, SetOrFailAtWork, ExpireAtWork
  <2> QED
    BY <2>2, <2>3, <2>4, <2>7, <2>8, StoreBegins
<1>5. CASE \/ \E k \in Keys : Delete(p, k)
           \/ \E k \in Keys, o \in GetOpts : Get(p, k, o)
           \/ Drain(p)
  <2>1. PICK op, k, req :
          /\ op \in {"delete", "get", "take", "drain"}
          /\ Begin(p, Waiting(op, k, Nil, req)) /\ UNCHANGED asked /\ Plain(req)
    <3>1. \A c : c.cmd \notin {"hset", "hsetnx"} => Plain(<<c>>)
      BY DEF Plain
    <3>2. \A k : Plain(<<HDel(k)>>) /\ Plain(<<HGet(k)>>)
      BY <3>1 DEF HDel, HGet
    <3>3. \A k, del, at, delta : Plain(<<GetScript(k, del, at, delta)>>)
      BY <3>1 DEF GetScript
    <3>4. Plain(<<DrainScript>>)
      BY <3>1 DEF DrainScript
    <3> DEFINE Starts(op, k, req) ==
          /\ op \in {"delete", "get", "take", "drain"}
          /\ Begin(p, Waiting(op, k, Nil, req)) /\ UNCHANGED asked /\ Plain(req)
    <3>5. ASSUME NEW k \in Keys, Delete(p, k)
          PROVE  Starts("delete", k, <<HDel(k)>>)
      BY <3>2, <3>5 DEF Delete
    <3>6. ASSUME NEW k \in Keys, NEW o \in GetOpts, Get(p, k, o)
          PROVE  Starts(IF o.delete THEN "take" ELSE "get", k,
                        IF IsEmpty(o) THEN <<HGet(k)>>
                        ELSE <<GetScript(k, o.delete, TtlTimestamp(o), TtlDelta(o))>>)
      BY <3>2, <3>3, <3>6 DEF Get
    <3>7. ASSUME Drain(p)
          PROVE  Starts("drain", Nil, <<DrainScript>>)
      BY <3>4, <3>7 DEF Drain
    <3>8. \E op, k, req : Starts(op, k, req)
      <4> HIDE DEF Starts
      <4> QED
        BY <1>5, <3>5, <3>6, <3>7
    <3> QED
      BY <3>8
  <2> DEFINE c == Waiting(op, k, Nil, req)
  <2>2. c.pc = "wait" /\ c.op = op /\ c.val = Nil /\ c.sent = req /\ c.todo = req
    BY DEF Waiting, Idle
  <2>3. Begin(p, c) /\ call'[p] = c /\ asked' = asked
    BY <1>2, <2>1
  <2> HIDE DEF c
  <2>4. ~Stores(c) /\ AtWork(call[p])'
    BY <2>1, <2>2, <2>3 DEF AtWork, Stores
  <2>5. hash' = hash /\ late' = {} /\ Goto(p, c) /\ ~Stores(call[p])
    BY <2>3 DEF Begin, WorkInv, Stores
  <2>6. Covered'
    BY <2>3, <2>5, CoveredStays DEF Overdue, SeesTo
  <2> QED
    BY <2>3, <2>4, <2>5, <2>6, WorkAdvance
<1> QED
  BY <1>3, <1>4, <1>5 DEF Invoke

\* The commands of a call that stores.
LEMMA WorkCommands ==
  ASSUME TypeInv, WorkInv, NEW p \in Procs, InFlight(p)
  PROVE  LET d == call[p]
             c == Head(d.todo)
         IN  /\ Stores(d) => c.key = d.key
             /\ c.cmd \in {"hset", "hsetnx"} => Stores(d) /\ c.val = d.val
             /\ c.cmd \in {"hset", "hsetnx", "hexpireat"} \/ ~Stores(d)
             /\ c.cmd = "hset" => asked[d.val] = Never \/ Tail(d.todo) # <<>>
             /\ c.cmd = "hsetnx" => d.op = "setorfail"
             /\ d.op = "setorfail" /\ Stores(d) => c.cmd = "hsetnx"
<1> DEFINE d == call[p]
<1>1. d.pc = "wait" /\ d.todo # <<>> /\ AtWork(d)
  BY DEF InFlight, WorkInv
<1>2. CASE Stores(d) /\ d.op = "set"
  <2>1. PICK h, e :
          /\ h.cmd = "hset" /\ h.key = d.key /\ h.val = d.val /\ e.cmd = "hexpireat" /\ e.key = d.key
          /\ \/ d.todo = <<h>> /\ asked[d.val] = Never
             \/ d.todo = <<h, e>> \/ d.todo = <<e>>
    <3>1. PICK at \in Int :
            LET h == HSet(d.key, d.val)
                e == HExpireAt(d.key, at)
            IN  \/ d.todo = <<h>> /\ asked[d.val] = Never
                \/ d.todo = <<h, e>> \/ d.todo = <<e>>
      BY <1>1, <1>2 DEF AtWork, SetAtWork
    <3>2. HSet(d.key, d.val).cmd = "hset" /\ HSet(d.key, d.val).key = d.key /\ HSet(d.key, d.val).val = d.val
      BY DEF HSet
    <3>3. HExpireAt(d.key, at).cmd = "hexpireat" /\ HExpireAt(d.key, at).key = d.key
      BY DEF HExpireAt
    <3> QED
      BY <3>1, <3>2, <3>3
  <2>2. /\ Head(<<h>>) = h /\ Head(<<e>>) = e /\ Head(<<h, e>>) = h
        /\ Tail(<<h, e>>) = <<e>> /\ <<e>> # <<>>
    BY Tuples
  <2>3. \/ Head(d.todo) = h /\ asked[d.val] = Never
        \/ Head(d.todo) = h /\ Tail(d.todo) # <<>>
        \/ Head(d.todo) = e
    BY <2>1, <2>2
  <2> QED
    BY <1>2, <2>1, <2>3
<1>3. CASE Stores(d) /\ d.op = "setorfail"
  <2>1. d.todo = <<HSetNX(d.key, d.val)>>
    BY <1>1, <1>3 DEF AtWork, SetOrFailAtWork
  <2> QED
    BY <1>3, <2>1, Tuples DEF HSetNX
<1>4. CASE Stores(d) /\ d.op = "expire"
  <2>1. PICK at \in Int : d.todo = <<HExpireAt(d.key, at)>>
    BY <1>1, <1>4 DEF AtWork, ExpireAtWork
  <2> QED
    BY <1>4, <2>1, Tuples DEF HExpireAt
<1>5. CASE ~Stores(d)
  <2>1. Plain(d.todo)
    BY <1>1, <1>5 DEF AtWork
  <2>2. d.todo \in Seq(Commands) /\ Len(d.todo) \in Nat \ {0}
    BY <1>1, EmptySeq DEF TypeInv, TypeOK
  <2>3. Head(d.todo) = d.todo[1]
    BY <2>2
  <2> QED
    BY <1>5, <2>1, <2>2, <2>3 DEF Plain
<1> QED
  BY <1>2, <1>3, <1>4, <1>5 DEF Stores

LEMMA ServeWork ==
  ASSUME TypeInv, WorkInv, NEW p \in Procs, Serve(p)
  PROVE  WorkInv'
<1>1. PICK c \in Commands : c = Head(call[p].todo)
  BY NextCommand DEF Serve
<1>2. PICK d : d = [call[p] EXCEPT !.todo = Tail(@), !.reply = Reply(c)]
  OBVIOUS
<1>3. /\ Exec(c) /\ Goto(p, d) /\ asked' = asked /\ late' = {} /\ InFlight(p)
      /\ hash \in [Keys -> Fields] /\ now \in Int
  BY <1>1, <1>2, ConstantsOK DEF Serve, WorkInv, TypeInv, TypeOK, Fields
<1>4. /\ d.pc = call[p].pc /\ d.op = call[p].op /\ d.key = call[p].key /\ d.val = call[p].val
      /\ d.opt = call[p].opt /\ d.sent = call[p].sent /\ d.todo = Tail(call[p].todo)
  BY <1>2 DEF TypeInv, Calls
<1>5. /\ Stores(d) <=> Stores(call[p])
      /\ Stores(d) => c.key = d.key
      /\ c.cmd \in {"hset", "hsetnx"} => Stores(d) /\ c.val = d.val
      /\ c.cmd \in {"hset", "hsetnx", "hexpireat"} \/ ~Stores(d)
      /\ c.cmd = "hset" => asked[d.val] = Never \/ d.todo # <<>>
      /\ c.cmd = "hsetnx" => d.op = "setorfail"
      /\ d.op = "setorfail" /\ Stores(d) => c.cmd = "hsetnx"
  BY <1>1, <1>3, <1>4, WorkCommands DEF Stores
<1>6. call'[p] = d /\ \A q \in Procs \ {p} : call'[q] = call[q]
  BY <1>3 DEF Goto, TypeInv
<1>7. AtWork(call[p])'
  <2>1. AtWork(call[p]) /\ call[p].todo # <<>> /\ call[p].todo \in Seq(Commands)
    BY <1>3 DEF WorkInv, InFlight, TypeInv, TypeOK
  <2>2. Plain(call[p].todo) => Plain(Tail(call[p].todo))
    <3>1. /\ Len(Tail(call[p].todo)) = Len(call[p].todo) - 1 /\ Len(call[p].todo) \in Nat
          /\ \A n \in 1..Len(Tail(call[p].todo)) : Tail(call[p].todo)[n] = call[p].todo[n + 1]
      BY <2>1, HeadTailProperties, EmptySeq
    <3> QED
      BY <3>1 DEF Plain
  <2>3. ASSUME SetAtWork(call[p]) PROVE SetAtWork(call[p])'
    <3> DEFINE h == HSet(d.key, d.val)
               e(at) == HExpireAt(d.key, at)
    <3>1. PICK at \in Int :
            \/ call[p].sent = <<h>> /\ call[p].todo \in {<<h>>, <<>>} /\ asked[d.val] = Never
            \/ call[p].sent = <<h, e(at)>> /\ call[p].todo \in {<<h, e(at)>>, <<e(at)>>, <<>>}
      BY <1>4, <2>3 DEF SetAtWork
    <3>2. Tail(<<h>>) = <<>> /\ Tail(<<h, e(at)>>) = <<e(at)>> /\ Tail(<<e(at)>>) = <<>>
      BY Tuples
    <3>3. \/ d.sent = <<h>> /\ d.todo \in {<<h>>, <<>>} /\ asked'[d.val] = Never
          \/ d.sent = <<h, e(at)>> /\ d.todo \in {<<h, e(at)>>, <<e(at)>>, <<>>}
      BY <1>3, <1>4, <2>1, <3>1, <3>2
    <3> QED
      BY <1>6, <3>3 DEF SetAtWork
  <2>4. ASSUME SetOrFailAtWork(call[p]) PROVE SetOrFailAtWork(call[p])'
    <3>1. Tail(<<HSetNX(d.key, d.val)>>) = <<>>
      BY Tuples
    <3>2. d.todo = <<>>
      BY <1>4, <2>1, <2>4, <3>1 DEF SetOrFailAtWork
    <3> QED
      BY <1>3, <1>4, <1>6, <2>4, <3>2 DEF SetOrFailAtWork
  <2>5. ASSUME ExpireAtWork(call[p]) PROVE ExpireAtWork(call[p])'
    <3>1. PICK at \in Int : call[p].sent = <<HExpireAt(d.key, at)>> /\ call[p].todo \in {call[p].sent, <<>>}
      BY <1>4, <2>5 DEF ExpireAtWork
    <3>2. Tail(<<HExpireAt(d.key, at)>>) = <<>>
      BY Tuples
    <3> QED
      BY <1>4, <1>6, <2>1, <3>1, <3>2 DEF ExpireAtWork
  <2> QED
    BY <1>3, <1>4, <1>6, <2>1, <2>2, <2>3, <2>4, <2>5 DEF AtWork, Stores
<1>8. Covered'
  <2> SUFFICES ASSUME NEW k \in Keys, Overdue(k)'
               PROVE  \E q \in Procs : SeesTo(call'[q], k, hash'[k].val)
    BY DEF Covered
  <2>1. c.cmd # "drainscript"
    BY <1>3 DEF Exec, Overdue, Absent
  <2>2. c.key \in Keys /\ hash' = [hash EXCEPT ![c.key] = FieldAfter(c)]
    BY <1>3, <2>1, CommandParts DEF Exec
  <2>3. CASE hash'[k] # hash[k] /\ c.cmd \in {"hset", "hsetnx"}
    <3>1. k = c.key /\ hash'[k].val = d.val
      BY <1>3, <1>5, <2>2, <2>3 DEF FieldAfter
    <3>2. SeesTo(d, k, d.val)
      BY <1>3, <1>5, <2>3, <3>1 DEF SeesTo, Overdue
    <3> QED
      BY <1>6, <3>1, <3>2
  <2>4. CASE hash'[k] # hash[k] /\ c.cmd \notin {"hset", "hsetnx"}
    <3>1. k = c.key /\ hash'[k] = FieldAfter(c)
      BY <1>3, <2>2, <2>4
    <3>2. FieldAfter(c).val # Nil /\ FieldAfter(c).until = Never
      BY <3>1 DEF Overdue
    <3> QED
      BY <1>3, <2>1, <2>4, <3>1, <3>2, ExpiryStays
  <2>5. CASE hash'[k] = hash[k]
    <3>1. PICK q \in Procs : SeesTo(call[q], k, hash[k].val)
      BY <1>3, <2>5 DEF WorkInv, Covered, Overdue
    <3>2. CASE q # p
      BY <1>6, <2>5, <3>1, <3>2
    <3>3. CASE q = p /\ c.cmd = "hsetnx"
      BY <1>4, <1>5, <1>6, <2>5, <3>1, <3>3 DEF SeesTo
    <3>4. CASE q = p /\ c.cmd = "hset"
      BY <1>3, <1>4, <1>5, <1>6, <2>5, <3>1, <3>4 DEF SeesTo, Overdue
    <3>5. CASE q = p /\ c.cmd = "hexpireat"
      <4>1. k = c.key
        BY <1>4, <1>5, <3>1, <3>5 DEF SeesTo
      <4>2. hash'[k] = FieldAfter(c)
        BY <1>3, <2>2, <4>1
      <4> QED
        BY <1>3, <3>5, <4>2, ExpiryStays DEF Overdue
    <3> QED
      BY <1>5, <3>1, <3>2, <3>3, <3>4, <3>5 DEF SeesTo, Stores
  <2> QED
    BY <2>3, <2>4, <2>5
<1>9. Stores(d) => \A q \in Procs \ {p} : Stores(call[q]) => call[q].val # d.val
  BY <1>4, <1>5 DEF WorkInv, OneCall
<1> QED
  BY <1>3, <1>7, <1>8, <1>9, WorkAdvance

\* A call that promises another expiry for its value, or withdraws it.
LEMMA PromiseMoves ==
  ASSUME TypeInv, WorkInv, NEW p \in Procs, call[p].pc = "wait", NEW u, Promises(p, u)
  PROVE  /\ call[p].val # Nil => Stores(call[p]) /\ asked'[call[p].val] = u
         /\ \A v \in Values : v # call[p].val => asked'[v] = asked[v]
         /\ \A q \in Procs \ {p} : Stores(call[q]) => asked'[call[q].val] = asked[call[q].val]
<1>1. asked \in [Values -> Instants \cup {Unset}] /\ call[p].val \in Values \cup {Nil}
  BY DEF TypeInv, TypeOK, Calls
<1>2. call[p].val # Nil => Stores(call[p])
  BY DEF WorkInv, AtWork
<1>3. \A q \in Procs \ {p} : Stores(call[q]) => call[q].val \in Values /\ call[q].val # call[p].val
  BY <1>2, ConstantsOK DEF WorkInv, AtWork, OneCall
<1> QED
  BY <1>1, <1>2, <1>3 DEF Promises

LEMMA Finishes ==
  ASSUME NEW p \in Procs, NEW res, NEW S, Finish(p, res, S)
  PROVE  \E d : Goto(p, d) /\ d.pc = "done"
<1>1. \A op, w :
        [Idle EXCEPT !.pc = "done", !.op = op, !.val = w, !.res = res, !.reply = S].pc = "done"
  BY DEF Idle
<1> QED
  BY <1>1 DEF Finish

LEMMA AnswerWork ==
  ASSUME TypeInv, WorkInv, NEW p \in Procs, Answer(p)
  PROVE  WorkInv'
<1>1. /\ call[p].pc = "wait" /\ call[p].todo = <<>> /\ hash' = hash /\ late' = {}
      /\ hash \in [Keys -> Fields] /\ CallOK(call[p]) /\ AtWork(call[p])
      /\ now \in Int
  BY ConstantsOK DEF Answer, WorkInv, TypeInv, TypeOK, Fields
<1>2. call[p].op = "setorfail" =>
        /\ Stores(call[p]) /\ call[p].key \in Keys /\ call[p].val \in Values /\ call[p].opt \in FailOpts
        /\ NewUntil(call[p].opt, DefaultTTL, now) = Never <=> asked[call[p].val] = Never
  <2>1. call[p].op = "setorfail" =>
          /\ Stores(call[p]) /\ call[p].key \in Keys /\ call[p].val \in Values /\ call[p].opt \in FailOpts
          /\ NewUntil(call[p].opt, DefaultTTL, 0) = Never <=> asked[call[p].val] = Never
    BY <1>1 DEF CallOK, AtWork, Stores, SetOrFailAtWork
  <2> QED
    BY <1>1, <2>1, NeverAnyTime, ConstantsOK
<1>3. CASE NeedsExpiry(p)
  <2>1. PICK u \in Instants : u = NewUntil(call[p].opt, DefaultTTL, now) /\ u # Never
    BY <1>1, <1>2, <1>3, NewUntilType, ConstantsOK DEF NeedsExpiry
  <2>2. PICK d : d = Waiting("expire", call[p].key, call[p].val, Expiry(call[p].key, u))
    OBVIOUS
  <2>3. Goto(p, d) /\ Promises(p, u) /\ call[p].op = "setorfail"
    BY <1>3, <2>1, <2>2 DEF Answer, NeedsExpiry
  <2>4. /\ d.pc = "wait" /\ d.op = "expire" /\ d.key = call[p].key /\ d.val = call[p].val
        /\ d.sent = Expiry(call[p].key, u) /\ d.todo = Expiry(call[p].key, u)
    BY <2>2 DEF Waiting, Idle
  <2>5. PICK at \in Int : Expiry(call[p].key, u) = <<HExpireAt(call[p].key, at)>>
    BY <1>2, <2>1, <2>3, StoringRequests
  <2>6. asked'[call[p].val] = u /\ u # Unset /\ call'[p] = d /\ call[p].val # Nil
    BY <1>1, <1>2, <2>3, PromiseMoves, ConstantsOK DEF Goto, TypeInv
  <2>7. AtWork(call[p])'
    BY <1>2, <2>3, <2>4, <2>5, <2>6 DEF AtWork, Stores, ExpireAtWork
  <2>8. \A k \in Keys : Overdue(k)' => Overdue(k) /\ hash'[k].val = hash[k].val
    BY <1>1, <1>2, <2>1, <2>3, PromiseMoves DEF Overdue, Fields
  <2>9. d.todo # <<>>
    BY <2>4, <2>5, Tuples
  <2>10. Covered'
    BY <2>3, <2>4, <2>8, <2>9, CoveredStays DEF SeesTo, Stores
  <2>11. Stores(d) => \A q \in Procs \ {p} : Stores(call[q]) => call[q].val # d.val
    BY <1>2, <2>3, <2>4 DEF WorkInv, OneCall
  <2> QED
    BY <1>1, <2>3, <2>7, <2>10, <2>11, PromiseMoves, WorkAdvance
<1>4. CASE ~NeedsExpiry(p)
  <2>1. PICK d : Goto(p, d) /\ d.pc = "done"
    BY <1>4, Finishes DEF Answer
  <2>2. ~Stores(d) /\ AtWork(call[p])'
    BY <2>1 DEF Stores, AtWork, Goto, TypeInv
  <2>3. Promises(p, Never) \/ (UNCHANGED asked /\ Outcome(p) # "exists")
    BY <1>4 DEF Answer
  <2>4. \A k \in Keys : Overdue(k)' => Overdue(k) /\ hash'[k].val = hash[k].val
    BY <1>1, <2>3, PromiseMoves DEF Overdue, Fields
  <2>5. ASSUME NEW k \in Keys, Overdue(k)', SeesTo(call[p], k, hash[k].val) PROVE FALSE
    <3>1. call[p].op = "setorfail" /\ hash[k].val = call[p].val
      BY <1>1, <2>5 DEF SeesTo
    <3>2. asked'[call[p].val] # Never /\ asked[call[p].val] # Never
      BY <1>1, <2>4, <2>5, <3>1 DEF Overdue
    <3>3. call[p].val # Nil
      BY <1>2, <3>1, ConstantsOK
    <3>4. UNCHANGED asked /\ Outcome(p) # "exists"
      BY <1>1, <2>3, <3>2, <3>3, PromiseMoves
    <3> QED
      BY <1>2, <1>4, <3>1, <3>2, <3>4 DEF Outcome, NeedsExpiry
  <2>6. Covered'
    BY <2>1, <2>4, <2>5, CoveredStays
  <2>7. \A q \in Procs \ {p} : Stores(call[q]) => asked'[call[q].val] = asked[call[q].val]
    BY <1>1, <2>3, PromiseMoves
  <2> QED
    BY <1>1, <2>1, <2>2, <2>6, <2>7, WorkAdvance
<1> QED
  BY <1>3, <1>4

LEMMA GivingUpWork ==
  ASSUME "late" \notin Faults, TypeInv, WorkInv, NEW p \in Procs, Retry(p) \/ GiveUp(p)
  PROVE  WorkInv'
<1>1. /\ call[p].pc = "wait" /\ hash' = hash /\ late' = {} /\ AtWork(call[p])
      /\ hash \in [Keys -> Fields]
  BY DEF Retry, GiveUp, Abandon, WorkInv, TypeInv, TypeOK, Fields
<1>2. CASE Retry(p)
  <2>1. PICK d : d = [call[p] EXCEPT !.todo = call[p].sent, !.tries = @ + 1, !.reply = {}]
    OBVIOUS
  <2>2. /\ d.pc = call[p].pc /\ d.op = call[p].op /\ d.key = call[p].key /\ d.val = call[p].val
        /\ d.opt = call[p].opt /\ d.sent = call[p].sent /\ d.todo = call[p].sent
    BY <2>1 DEF TypeInv, Calls
  <2>3. Goto(p, d) /\ asked' = asked /\ call'[p] = d
    BY <1>2, <2>1 DEF Retry, Goto, TypeInv
  <2>4. AtWork(call[p])'
    <3>1. SetAtWork(call[p]) => SetAtWork(call[p])'
      BY <2>2, <2>3 DEF SetAtWork
    <3>2. SetOrFailAtWork(call[p]) => SetOrFailAtWork(call[p])'
      BY <2>2, <2>3 DEF SetOrFailAtWork
    <3>3. ExpireAtWork(call[p]) => ExpireAtWork(call[p])'
      BY <2>2, <2>3 DEF ExpireAtWork
    <3> QED
      BY <1>1, <2>2, <2>3, <3>1, <3>2, <3>3 DEF AtWork, Stores
  <2>5. Stores(call[p]) => call[p].sent # <<>>
    BY <1>1, Tuples DEF AtWork, Stores, SetAtWork, SetOrFailAtWork, ExpireAtWork
  <2>6. Covered'
    BY <1>1, <2>2, <2>3, <2>5, CoveredStays DEF Overdue, SeesTo, Stores
  <2>7. Stores(d) => \A q \in Procs \ {p} : Stores(call[q]) => call[q].val # d.val
    BY <2>2 DEF WorkInv, OneCall, Stores
  <2> QED
    BY <1>1, <2>3, <2>4, <2>6, <2>7, WorkAdvance
<1>3. CASE GiveUp(p)
  <2>1. PICK d : Goto(p, d) /\ d.pc = "done"
    BY <1>3, Finishes DEF GiveUp
  <2>2. ~Stores(d) /\ AtWork(call[p])'
    BY <2>1 DEF Stores, AtWork, Goto, TypeInv
  <2>3. Promises(p, Never)
    BY <1>3 DEF GiveUp
  <2>4. \A k \in Keys : Overdue(k)' => Overdue(k) /\ hash'[k].val = hash[k].val
    BY <1>1, <2>3, PromiseMoves DEF Overdue, Fields
  <2>5. ASSUME NEW k \in Keys, Overdue(k)', SeesTo(call[p], k, hash[k].val) PROVE FALSE
    <3>1. hash[k].val = call[p].val /\ call[p].val # Nil
      BY <1>1, <2>5 DEF SeesTo, Overdue
    <3> QED
      BY <1>1, <2>3, <2>5, <3>1, PromiseMoves DEF Overdue
  <2>6. Covered'
    BY <2>1, <2>4, <2>5, CoveredStays
  <2> QED
    BY <1>1, <2>1, <2>2, <2>3, <2>6, PromiseMoves, WorkAdvance
<1> QED
  BY <1>2, <1>3

LEMMA WorkStep ==
  ASSUME "late" \notin Faults, TypeInv, WorkInv, [Next]_vars
  PROVE  WorkInv'
<1>1. CASE Tick \/ UNCHANGED vars
  <2>1. UNCHANGED <<hash, call, late, asked>>
    BY <1>1 DEF Tick, vars
  <2> QED
    BY <2>1 DEF WorkInv, AtWork, SetAtWork, SetOrFailAtWork, ExpireAtWork, Stores, OneCall,
       Covered, Overdue, SeesTo
<1>2. ASSUME NEW p \in Procs, Return(p) PROVE WorkInv'
  <2>1. Goto(p, Idle) /\ call[p].pc = "done" /\ UNCHANGED <<hash, asked>> /\ late' = {}
    BY <1>2 DEF Return, WorkInv
  <2>2. ~Stores(Idle) /\ ~Stores(call[p]) /\ AtWork(call[p])'
    BY <2>1 DEF Stores, AtWork, Goto, TypeInv, Idle
  <2>3. Covered'
    BY <2>1, <2>2, CoveredStays DEF Overdue, SeesTo
  <2> QED
    BY <2>1, <2>2, <2>3, WorkAdvance
<1> QED
  BY <1>1, <1>2, InvokeWork, ServeWork, AnswerWork, GivingUpWork DEF Next, Step, WorkInv

LEMMA WorkInit == Init => WorkInv
  BY DEF Init, WorkInv, AtWork, Stores, Idle, OneCall, Covered, Overdue, Absent

\* A Set or SetOrFail that returned without an error has not left its entry
\* without the expiry it asked for, however many overlap on one key and are
\* repeated, as long as no request that was given up arrives late.
THEOREM AckedEntryExpiresCorrect ==
  ASSUME "late" \notin Faults
  PROVE  Spec => []AckedEntryExpires
<1>1. TypeInv /\ WorkInv /\ [Next]_vars => WorkInv'
  BY WorkStep
<1>2. WorkInv => AckedEntryExpires
  BY DEF WorkInv, Covered, Overdue, SeesTo, Stores, AckedEntryExpires, AtRest, Present
<1> QED
  BY TypeInit, TypeStep, WorkInit, <1>1, <1>2, PTL DEF Spec

-----------------------------------------------------------------------------
(* Extensions in whole seconds.                                            *)

\* Rounding up to a second loses nothing.
LEMMA RoundsUp ==
  ASSUME NEW a \in Int, NEW b \in Nat \ {0}
  PROVE  ((a + Second - 1) \div Second + b) * Second > a
<1>1. Second \in Nat \ {0} /\ a + Second - 1 \in Int
  BY ConstantsOK
<1>2. \A m \in Int : (m \div Second) * Second + Second > m
  BY <1>1
<1> DEFINE t == (a + Second - 1) \div Second
<1>3. t \in Int /\ t * Second + Second > a + Second - 1 /\ t * Second \in Int
  BY <1>1, <1>2, DivInt, TimesInt
<1> HIDE DEF t
<1>4. (t + b) * Second = t * Second + b * Second
  BY <1>1, <1>3
<1>5. b * Second >= Second /\ b * Second \in Int
  BY <1>1
<1> QED
  <2>1. (t + b) * Second > a
    BY <1>1, <1>3, <1>4, <1>5
  <2> QED
    BY <2>1 DEF t

LEMMA ExtendedGrows ==
  ASSUME TypeInv, NEW k \in Keys, Present(k), hash[k].until # Never, NEW d \in Nat \ {0}
  PROVE  /\ Extended(k, d).val = hash[k].val
         /\ Extended(k, d).until \in Int /\ Extended(k, d).until >= hash[k].until
         /\ Extended(k, d).until > now
<1>1. /\ hash[k] \in Fields /\ hash[k].until \in Int /\ now \in Int /\ now <= hash[k].until
      /\ Second \in Nat \ {0}
  BY ConstantsOK DEF TypeInv, TypeOK, Fields, Instants, Present
<1> DEFINE left == hash[k].until - now
           t == (left + Second - 1) \div Second
           u == now + (t + d) * Second
<1>2. left \in Nat
  BY <1>1
<1>3. t \in Int /\ t >= 0
  <2>1. left + Second - 1 \in Nat
    BY <1>1, <1>2
  <2>2. \A m \in Nat : m \div Second \in Nat
    BY <1>1
  <2> HIDE DEF left
  <2> QED
    BY <2>1, <2>2
<1>4. (t + d) * Second > left /\ (t + d) * Second \in Int
  BY <1>2, <1>3, RoundsUp, TimesInt
<1>5. Extended(k, d) = Expiring(k, u)
  <2>1. HTtl(k) = t
    BY DEF HTtl, Present
  <2> HIDE DEF t
  <2> QED
    BY <1>3, <2>1 DEF Extended
<1> HIDE DEF t
<1>6. u \in Int /\ u > now /\ u >= hash[k].until
  BY <1>1, <1>2, <1>4
<1> HIDE DEF u
<1> QED
  BY <1>1, <1>5, <1>6 DEF Expiring, Fields

\* A command that is executed is executed by the server, or nothing happens
\* there.
LEMMA ExecutesIs ==
  ASSUME TypeInv, [Next]_vars, NEW c, Executes(c)
  PROVE  now' = now /\ (Exec(c) \/ hash' = hash)
<1>1. \A p \in Procs : InFlight(p) => Tail(call[p].todo) # call[p].todo
  <2> SUFFICES ASSUME NEW p \in Procs, InFlight(p) PROVE Tail(call[p].todo) # call[p].todo
    OBVIOUS
  <2>1. PICK s \in Seq(Commands) : s = call[p].todo /\ s # <<>>
    BY DEF InFlight, TypeInv, TypeOK
  <2>2. PICK r : r = Tail(s) /\ Len(r) = Len(s) - 1 /\ Len(s) \in Nat
    BY <2>1, HeadTailProperties, EmptySeq
  <2>3. r # s
    BY <2>2
  <2> QED
    BY <2>1, <2>2, <2>3
<1>2. CASE Tick \/ UNCHANGED vars
  BY <1>1, <1>2 DEF Tick, vars, Executes
<1>3. ASSUME NEW req \in late, Late(req) PROVE now' = now /\ Exec(c)
  BY <1>1, <1>3 DEF Late, Executes
<1>4. ASSUME NEW p \in Procs, Serve(p) PROVE now' = now /\ Exec(c)
  BY <1>1, <1>4 DEF Serve, Executes, Goto, TypeInv
<1>5. ASSUME NEW p \in Procs, Invoke(p) \/ Answer(p) \/ Retry(p) \/ GiveUp(p) \/ Return(p)
      PROVE  now' = now /\ hash' = hash
  BY <1>5 DEF Invoke, Set, SetOrFail, Delete, Get, Drain, Begin, Answer, Retry, GiveUp, Return
<1> QED
  BY <1>2, <1>3, <1>4, <1>5 DEF Next, Step

\* A Get that extends an entry never brings its expiry forward: what is left of
\* it is rounded up to a second, whatever a second is.
THEOREM ExtensionNeverShortensCorrect == Spec => ExtensionNeverShortens
<1>1. ASSUME TypeInv, [Next]_vars, NEW k \in Keys, Present(k), hash[k].until # Never, NEW o \in GetOpts,
             TtlDelta(o) > 0, Executes(GetScript(k, FALSE, 0, TtlDelta(o)))
      PROVE  Present(k)' /\ hash'[k].until >= hash[k].until
  <2>1. now \in Int /\ hash \in [Keys -> Fields] /\ hash[k].until \in Int
    BY <1>1, ConstantsOK DEF TypeInv, TypeOK, Fields, Instants
  <2>2. PICK d \in Nat \ {0} : d = TtlDelta(o)
    BY <1>1, <2>1, OptionTypes
  <2>3. PICK c : c = GetScript(k, FALSE, 0, d)
    OBVIOUS
  <2>4. now' = now /\ (Exec(c) \/ hash' = hash)
    BY <1>1, <2>2, <2>3, ExecutesIs
  <2>5. CASE hash' = hash
    BY <1>1, <2>1, <2>4, <2>5 DEF Present
  <2>6. CASE Exec(c)
    <3>1. c.cmd = "getscript" /\ c.key = k /\ c.del = FALSE /\ c.at = 0 /\ c.delta = d
      BY <2>3 DEF GetScript
    <3>2. FieldAfter(c) = Extended(k, d)
      BY <1>1, <3>1 DEF FieldAfter, TouchedField
    <3>3. hash'[k] = Extended(k, d)
      BY <2>1, <2>6, <3>1, <3>2 DEF Exec
    <3> QED
      BY <1>1, <2>1, <2>4, <3>3, ExtendedGrows DEF Present
  <2> QED
    BY <2>4, <2>5, <2>6
<1>2. TypeInv /\ [Next]_vars =>
        [\A k \in Keys :
           /\ Present(k) /\ hash[k].until # Never
           /\ \E o \in GetOpts : TtlDelta(o) > 0 /\ ~o.delete /\ Executes(GetScript(k, FALSE, 0, TtlDelta(o)))
           => Present(k)' /\ hash'[k].until >= hash[k].until]_vars
  BY <1>1
<1> QED
  BY TypeInit, TypeStep, <1>2, PTL DEF Spec, ExtensionNeverShortens

-----------------------------------------------------------------------------
(* Requests, and what of them is left; and what a GetAndDelete that repeats  *)
(* its own has removed.                                                      *)

\* The value that a request will store with its first command.
Offers(req) == IF req # <<>> /\ Head(req).cmd \in {"hset", "hsetnx"} THEN {Head(req).val} ELSE {}

PlainTail(req) == \A n \in 2..Len(req) : req[n].cmd \notin {"hset", "hsetnx"}

\* No command of a request consumes.
Unconsuming(req) == \A n \in 1..Len(req) : ~Consumes(req[n])

\* Command x is the whole request of call c, which stores nothing.
Sole(c, x) ==
  \/ c.op = "drain" /\ x = DrainScript
  \/ c.op = "delete" /\ x = HDel(c.key)
  \/ c.op = "get" /\ (x = HGet(c.key) \/ (x.cmd = "getscript" /\ x.key = c.key /\ ~x.del))
  \/ c.op = "take" /\ x.cmd = "getscript" /\ x.key = c.key /\ x.del

\* What a call has sent, and what of it is left.
ShapeOK(c) ==
  c.pc = "wait" =>
    /\ c.res = "none"
    /\ \/ \E x \in Commands : Sole(c, x) /\ c.sent = <<x>> /\ c.todo \in {<<x>>, <<>>}
       \/ c.op \in {"set", "setorfail", "expire"} /\ Unconsuming(c.sent) /\ Unconsuming(c.todo)
    /\ c.op = "setorfail" => c.sent = <<HSetNX(c.key, c.val)>> /\ c.todo \in {c.sent, <<>>}

ShapeInv == \A p \in Procs : ShapeOK(call[p])

\* Call c begins: with a fresh value, or with none.
Starts(c) ==
  /\ ShapeOK(c) /\ c.pc = "wait" /\ c.op # "expire" /\ c.todo = c.sent /\ PlainTail(c.todo)
  /\ \/ c.val = Nil /\ UNCHANGED asked /\ Offers(c.todo) = {}
     \/ /\ c.val \in Values /\ asked[c.val] = Unset /\ Offers(c.todo) = {c.val}
        /\ \E u \in Instants : asked' = [asked EXCEPT ![c.val] = u]

LEMMA Kinds ==
  /\ \A k, v : HSet(k, v).cmd = "hset" /\ HSet(k, v).val = v /\ HSet(k, v).key = k
  /\ \A k, v : HSetNX(k, v).cmd = "hsetnx" /\ HSetNX(k, v).val = v /\ HSetNX(k, v).key = k
  /\ \A k, at : HExpireAt(k, at).cmd = "hexpireat" /\ HExpireAt(k, at).key = k
  /\ \A k : HGet(k).cmd = "hget" /\ HDel(k).cmd = "hdel" /\ HGet(k).key = k /\ HDel(k).key = k
  /\ \A k, del, at, delta : LET x == GetScript(k, del, at, delta)
                           IN  x.cmd = "getscript" /\ x.key = k /\ x.del = del
  /\ DrainScript.cmd = "drainscript"
BY DEF HSet, HSetNX, HExpireAt, HGet, HDel, GetScript, DrainScript

\* Requests of one command and of two.
LEMMA OneCommand ==
  ASSUME NEW x
  PROVE  /\ Offers(<<x>>) = IF x.cmd \in {"hset", "hsetnx"} THEN {x.val} ELSE {}
         /\ PlainTail(<<x>>) /\ (~Consumes(x) => Unconsuming(<<x>>))
<1>1. Len(<<x>>) = 1 /\ <<x>>[1] = x /\ <<x>> # <<>> /\ Head(<<x>>) = x
  OBVIOUS
<1> QED
  BY <1>1 DEF Offers, PlainTail, Unconsuming

LEMMA TwoCommands ==
  ASSUME NEW x, NEW y, y.cmd \notin {"hset", "hsetnx"}
  PROVE  /\ Offers(<<x, y>>) = IF x.cmd \in {"hset", "hsetnx"} THEN {x.val} ELSE {}
         /\ PlainTail(<<x, y>>) /\ (~Consumes(x) /\ ~Consumes(y) => Unconsuming(<<x, y>>))
<1>1. /\ Len(<<x, y>>) = 2 /\ <<x, y>>[1] = x /\ <<x, y>>[2] = y /\ <<x, y>> # <<>>
      /\ Head(<<x, y>>) = x
  OBVIOUS
<1>2. \A n \in 1..2 : n = 1 \/ n = 2
  OBVIOUS
<1> QED
  BY <1>1, <1>2 DEF Offers, PlainTail, Unconsuming

LEMMA Rest ==
  ASSUME NEW req \in Seq(Commands), req # <<>>
  PROVE  /\ PlainTail(req) => PlainTail(Tail(req)) /\ Offers(Tail(req)) = {}
         /\ Unconsuming(req) => Unconsuming(Tail(req)) /\ ~Consumes(Head(req))
<1>1. /\ Tail(req) \in Seq(Commands) /\ Len(req) \in Nat \ {0} /\ Len(Tail(req)) = Len(req) - 1
      /\ \A n \in 1..Len(Tail(req)) : Tail(req)[n] = req[n + 1]
      /\ Head(req) = req[1]
  BY HeadTailProperties, EmptySeq
<1>2. Tail(req) # <<>> => Len(req) >= 2 /\ Head(Tail(req)) = req[2]
  <2>1. Tail(req) # <<>> => Len(Tail(req)) # 0 /\ Head(Tail(req)) = Tail(req)[1]
    BY <1>1, EmptySeq
  <2> QED
    BY <1>1, <2>1
<1>3. PlainTail(req) => PlainTail(Tail(req)) /\ Offers(Tail(req)) = {}
  BY <1>1, <1>2 DEF PlainTail, Offers
<1> QED
  BY <1>1, <1>3 DEF Unconsuming

LEMMA WaitingParts ==
  ASSUME NEW op, NEW k, NEW v, NEW req, NEW o
  PROVE  \A w \in {Waiting(op, k, v, req), [Waiting(op, k, v, req) EXCEPT !.opt = o]} :
           /\ w.pc = "wait" /\ w.op = op /\ w.key = k /\ w.val = v
           /\ w.sent = req /\ w.todo = req /\ w.reply = {} /\ w.res = "none"
BY DEF Waiting, Idle

LEMMA StartsSole ==
  ASSUME NEW c, NEW x \in Commands, Sole(c, x), c.pc = "wait", c.val = Nil, c.res = "none",
         c.sent = <<x>>, c.todo = <<x>>, UNCHANGED asked
  PROVE  Starts(c)
<1>1. x.cmd \notin {"hset", "hsetnx"} /\ c.op \in {"drain", "delete", "get", "take"}
  BY Kinds DEF Sole
<1> QED
  BY <1>1, OneCommand DEF Starts, ShapeOK

LEMMA Invoked ==
  ASSUME TypeInv, NEW p \in Procs, Invoke(p)
  PROVE  \E c : Begin(p, c) /\ Starts(c)
<1>1. now \in Int
  BY ConstantsOK DEF TypeInv, TypeOK
<1>2. ASSUME NEW k \in Keys, NEW o \in SetOpts, Set(p, k, o) PROVE \E c : Begin(p, c) /\ Starts(c)
  <2>1. PICK u \in Instants : u = NewUntil(o, DefaultTTL, now)
    BY <1>1, NewUntilType, ConstantsOK
  <2>2. PICK v \in Values : /\ asked[v] = Unset /\ asked' = [asked EXCEPT ![v] = u]
                            /\ Begin(p, Waiting("set", k, v, SetRequest(k, v, u)))
    BY <1>2, <2>1 DEF Set
  <2>3. PICK c : c = Waiting("set", k, v, SetRequest(k, v, u))
    OBVIOUS
  <2>4. PICK req : req = SetRequest(k, v, u)
    OBVIOUS
  <2>5. /\ c.pc = "wait" /\ c.op = "set" /\ c.val = v /\ c.sent = req /\ c.todo = req
        /\ c.res = "none"
    BY <2>3, <2>4, WaitingParts
  <2>6. Offers(req) = {v} /\ PlainTail(req) /\ Unconsuming(req)
    <3>1. PICK h : h = HSet(k, v) /\ h.cmd = "hset" /\ h.val = v /\ ~Consumes(h)
      BY Kinds DEF Consumes
    <3>2. CASE u = Never
      <4>1. req = <<h>>
        BY <2>4, <3>1, <3>2, StoringRequests
      <4> QED
        BY <3>1, <4>1, OneCommand
    <3>3. CASE u # Never
      <4>1. PICK at \in Int : req = <<h, HExpireAt(k, at)>>
        BY <2>4, <3>1, <3>3, StoringRequests
      <4>2. PICK e : e = HExpireAt(k, at) /\ e.cmd = "hexpireat" /\ ~Consumes(e)
        BY Kinds DEF Consumes
      <4> QED
        BY <3>1, <4>1, <4>2, TwoCommands
    <3> QED
      BY <3>2, <3>3
  <2> QED
    BY <2>2, <2>3, <2>5, <2>6 DEF Starts, ShapeOK
<1>3. ASSUME NEW k \in Keys, NEW o \in FailOpts, SetOrFail(p, k, o)
      PROVE  \E c : Begin(p, c) /\ Starts(c)
  <2>1. PICK u \in Instants : u = NewUntil(o, DefaultTTL, now)
    BY <1>1, NewUntilType, ConstantsOK
  <2>2. PICK v \in Values :
          /\ asked[v] = Unset /\ asked' = [asked EXCEPT ![v] = u]
          /\ Begin(p, [Waiting("setorfail", k, v, <<HSetNX(k, v)>>) EXCEPT !.opt = o])
    BY <1>3, <2>1 DEF SetOrFail
  <2>3. PICK c : c = [Waiting("setorfail", k, v, <<HSetNX(k, v)>>) EXCEPT !.opt = o]
    OBVIOUS
  <2>4. /\ c.pc = "wait" /\ c.op = "setorfail" /\ c.key = k /\ c.val = v
        /\ c.sent = <<HSetNX(k, v)>> /\ c.todo = <<HSetNX(k, v)>> /\ c.res = "none"
    BY <2>3, WaitingParts
  <2>5. PICK h : h = HSetNX(k, v) /\ h.cmd = "hsetnx" /\ h.val = v /\ ~Consumes(h)
    BY Kinds DEF Consumes
  <2>6. Offers(c.todo) = {v} /\ PlainTail(c.todo) /\ Unconsuming(c.todo)
    BY <2>4, <2>5, OneCommand
  <2> QED
    BY <2>2, <2>3, <2>4, <2>6 DEF Starts, ShapeOK
<1>4. ASSUME NEW k \in Keys, Delete(p, k) PROVE \E c : Begin(p, c) /\ Starts(c)
  <2>1. PICK c : c = Waiting("delete", k, Nil, <<HDel(k)>>)
    OBVIOUS
  <2>2. HDel(k) \in Commands
    BY DEF HDel, Commands
  <2>3. Begin(p, c) /\ UNCHANGED asked
    BY <1>4, <2>1 DEF Delete
  <2>4. /\ c.pc = "wait" /\ c.op = "delete" /\ c.key = k /\ c.val = Nil /\ c.res = "none"
        /\ c.sent = <<HDel(k)>> /\ c.todo = <<HDel(k)>>
    BY <2>1, WaitingParts
  <2> QED
    BY <2>2, <2>3, <2>4, StartsSole DEF Sole
<1>5. ASSUME NEW k \in Keys, NEW o \in GetOpts, Get(p, k, o) PROVE \E c : Begin(p, c) /\ Starts(c)
  <2>1. PICK x : x = IF IsEmpty(o) THEN HGet(k)
                     ELSE GetScript(k, o.delete, TtlTimestamp(o), TtlDelta(o))
    OBVIOUS
  <2>2. PICK op : op = IF o.delete THEN "take" ELSE "get"
    OBVIOUS
  <2>3. PICK c : c = Waiting(op, k, Nil, <<x>>)
    OBVIOUS
  <2>4. x \in Commands
    <3>1. /\ HGet(k) \in Commands
          /\ GetScript(k, o.delete, TtlTimestamp(o), TtlDelta(o)) \in Commands
      BY <1>1, OptionTypes DEF HGet, GetScript, Commands
    <3> QED
      BY <2>1, <3>1
  <2>5. Begin(p, c) /\ UNCHANGED asked
    BY <1>5, <2>1, <2>2, <2>3 DEF Get
  <2>6. /\ c.pc = "wait" /\ c.op = op /\ c.key = k /\ c.val = Nil /\ c.res = "none"
        /\ c.sent = <<x>> /\ c.todo = <<x>>
    BY <2>3, WaitingParts
  <2>7. Sole(c, x)
    <3>1. o.delete \in BOOLEAN /\ (IsEmpty(o) => ~o.delete)
      BY <1>1, OptionTypes DEF IsEmpty
    <3>2. CASE IsEmpty(o)
      BY <2>1, <2>2, <2>6, <3>1, <3>2 DEF Sole
    <3>3. CASE ~IsEmpty(o)
      <4>1. x.cmd = "getscript" /\ x.key = k /\ x.del = o.delete
        BY <2>1, <3>3 DEF GetScript
      <4> QED
        BY <2>2, <2>6, <3>1, <4>1 DEF Sole
    <3> QED
      BY <3>2, <3>3
  <2> QED
    BY <2>4, <2>5, <2>6, <2>7, StartsSole
<1>6. ASSUME Drain(p) PROVE \E c : Begin(p, c) /\ Starts(c)
  <2>1. PICK c : c = Waiting("drain", Nil, Nil, <<DrainScript>>)
    OBVIOUS
  <2>2. DrainScript \in Commands
    BY DEF Commands
  <2>3. Begin(p, c) /\ UNCHANGED asked
    BY <1>6, <2>1 DEF Drain
  <2>4. /\ c.pc = "wait" /\ c.op = "drain" /\ c.val = Nil /\ c.res = "none"
        /\ c.sent = <<DrainScript>> /\ c.todo = <<DrainScript>>
    BY <2>1, WaitingParts
  <2> QED
    BY <2>2, <2>3, <2>4, StartsSole DEF Sole
<1> QED
  BY <1>2, <1>3, <1>4, <1>5, <1>6 DEF Invoke

\* The parts of a step that executes a command, and of one that ends a call.
LEMMA ServeParts ==
  ASSUME TypeInv, NEW p \in Procs, Serve(p)
  PROVE  \E c \in Commands : \E d :
           /\ call[p].pc = "wait" /\ call[p].todo \in Seq(Commands) /\ call[p].todo # <<>>
           /\ c = Head(call[p].todo) /\ Exec(c) /\ Goto(p, d)
           /\ d.pc = "wait" /\ d.op = call[p].op /\ d.key = call[p].key /\ d.val = call[p].val
           /\ d.sent = call[p].sent /\ d.res = call[p].res
           /\ d.todo = Tail(call[p].todo) /\ d.reply = Reply(c)
           /\ took' = IF Consumes(c) THEN [took EXCEPT ![p] = @ \cup Reply(c)] ELSE took
           /\ UNCHANGED <<now, late, asked, served>>
<1>1. PICK c \in Commands : c = Head(call[p].todo)
  BY NextCommand DEF Serve
<1>2. PICK d : d = [call[p] EXCEPT !.todo = Tail(@), !.reply = Reply(c)]
  OBVIOUS
<1>3. /\ d.pc = call[p].pc /\ d.op = call[p].op /\ d.key = call[p].key /\ d.val = call[p].val
      /\ d.sent = call[p].sent /\ d.res = call[p].res
      /\ d.todo = Tail(call[p].todo) /\ d.reply = Reply(c)
  BY <1>2 DEF TypeInv, Calls
<1>4. /\ call[p].pc = "wait" /\ call[p].todo \in Seq(Commands) /\ call[p].todo # <<>>
      /\ Exec(c) /\ Goto(p, d)
      /\ took' = IF Consumes(c) THEN [took EXCEPT ![p] = @ \cup Reply(c)] ELSE took
      /\ UNCHANGED <<now, late, asked, served>>
  BY <1>1, <1>2 DEF Serve, InFlight, TypeInv, TypeOK
<1> QED
  BY <1>1, <1>3, <1>4

LEMMA FinishParts ==
  ASSUME NEW p \in Procs, NEW res, NEW S, Finish(p, res, S)
  PROVE  \E d : /\ Goto(p, d) /\ d.pc = "done" /\ d.op = call[p].op /\ d.val = call[p].val
                /\ d.res = res /\ d.reply = S /\ d.sent = <<>> /\ d.todo = <<>>
<1>1. PICK d : d = [Idle EXCEPT !.pc = "done", !.op = call[p].op, !.val = call[p].val,
                               !.res = res, !.reply = S]
  OBVIOUS
<1>2. /\ d.pc = "done" /\ d.op = call[p].op /\ d.val = call[p].val
      /\ d.res = res /\ d.reply = S /\ d.sent = <<>> /\ d.todo = <<>>
  BY <1>1 DEF Idle
<1>3. Goto(p, d)
  BY <1>1 DEF Finish
<1> QED
  BY <1>2, <1>3

\* The second request of a SetOrFail.
LEMMA ExpireParts ==
  ASSUME TypeInv, NEW p \in Procs, Answer(p), NeedsExpiry(p)
  PROVE  \E d : \E u \in Instants :
           /\ call[p].op = "setorfail" /\ call[p].val \in Values
           /\ Goto(p, d) /\ Promises(p, u) /\ served' = served
           /\ d.pc = "wait" /\ d.op = "expire" /\ d.val = call[p].val /\ d.res = "none"
           /\ d.todo = d.sent /\ Offers(d.todo) = {} /\ PlainTail(d.todo) /\ Unconsuming(d.todo)
<1>1. /\ call[p].op = "setorfail" /\ call[p].key \in Keys /\ call[p].val \in Values
      /\ call[p].opt \in FailOpts /\ now \in Int
  BY ConstantsOK DEF Answer, NeedsExpiry, TypeInv, TypeOK, CallOK
<1>2. PICK u \in Instants : u = NewUntil(call[p].opt, DefaultTTL, now) /\ u # Never
  BY <1>1, NewUntilType, ConstantsOK DEF NeedsExpiry
<1>3. PICK d : d = Waiting("expire", call[p].key, call[p].val, Expiry(call[p].key, u))
  OBVIOUS
<1>4. PICK at \in Int : Expiry(call[p].key, u) = <<HExpireAt(call[p].key, at)>>
  BY <1>1, <1>2, StoringRequests
<1>5. PICK e : e = HExpireAt(call[p].key, at) /\ e.cmd = "hexpireat" /\ ~Consumes(e)
  BY Kinds DEF Consumes
<1>6. /\ d.pc = "wait" /\ d.op = "expire" /\ d.val = call[p].val /\ d.res = "none"
      /\ d.sent = <<e>> /\ d.todo = <<e>>
  BY <1>3, <1>4, <1>5, WaitingParts
<1>7. Offers(<<e>>) = {} /\ PlainTail(<<e>>) /\ Unconsuming(<<e>>)
  BY <1>5, OneCommand
<1>8. Goto(p, d) /\ Promises(p, u) /\ served' = served
  BY <1>2, <1>3 DEF Answer
<1> QED
  BY <1>1, <1>6, <1>7, <1>8

LEMMA Others ==
  ASSUME TypeInv, NEW p \in Procs, NEW c, Goto(p, c)
  PROVE  call'[p] = c /\ \A q \in Procs \ {p} : call'[q] = call[q]
BY DEF Goto, TypeInv

LEMMA ShapeStep ==
  ASSUME TypeInv, ShapeInv, [Next]_vars
  PROVE  ShapeInv'
<1>1. ASSUME NEW p \in Procs, NEW c, Goto(p, c), ShapeOK(c) PROVE ShapeInv'
  BY <1>1, Others DEF ShapeInv
<1>2. CASE Tick \/ UNCHANGED vars
  BY <1>2 DEF Tick, vars, ShapeInv
<1>3. ASSUME NEW req \in late, Late(req) PROVE ShapeInv'
  BY <1>3 DEF Late, ShapeInv
<1>4. ASSUME NEW p \in Procs, Invoke(p) PROVE ShapeInv'
  BY <1>1, <1>4, Invoked DEF Begin, Starts
<1>5. ASSUME NEW p \in Procs, Serve(p) PROVE ShapeInv'
  <2>1. PICK d : /\ Goto(p, d) /\ d.op = call[p].op /\ d.key = call[p].key /\ d.val = call[p].val
                 /\ d.sent = call[p].sent /\ d.res = call[p].res /\ d.todo = Tail(call[p].todo)
    BY <1>5, ServeParts
  <2>2. /\ call[p].pc = "wait" /\ call[p].todo \in Seq(Commands) /\ call[p].todo # <<>>
        /\ ShapeOK(call[p])
    BY <1>5, ServeParts DEF ShapeInv
  <2>3. \A x : Tail(<<x>>) = <<>>
    BY Tuples
  <2>4. ASSUME NEW x \in Commands, Sole(call[p], x), call[p].sent = <<x>>, call[p].todo = <<x>>
        PROVE  Sole(d, x) /\ d.sent = <<x>> /\ d.todo = <<>>
    BY <2>1, <2>3, <2>4 DEF Sole
  <2>5. Unconsuming(call[p].todo) => Unconsuming(d.todo)
    BY <2>1, <2>2, Rest
  <2>6. call[p].op = "setorfail" => d.sent = <<HSetNX(d.key, d.val)>> /\ d.todo = <<>>
    BY <2>1, <2>2, <2>3 DEF ShapeOK
  <2>7. ShapeOK(d)
    BY <2>1, <2>2, <2>4, <2>5, <2>6 DEF ShapeOK
  <2> QED
    BY <1>1, <2>1, <2>7
<1>6. ASSUME NEW p \in Procs, Answer(p) PROVE ShapeInv'
  <2>1. CASE NeedsExpiry(p)
    BY <1>1, <1>6, <2>1, ExpireParts DEF ShapeOK
  <2>2. CASE ~NeedsExpiry(p)
    BY <1>1, <1>6, <2>2, FinishParts DEF Answer, ShapeOK
  <2> QED
    BY <2>1, <2>2
<1>7. ASSUME NEW p \in Procs, Retry(p) PROVE ShapeInv'
  <2>1. PICK d : d = [call[p] EXCEPT !.todo = call[p].sent, !.tries = @ + 1, !.reply = {}]
    OBVIOUS
  <2>2. /\ d.pc = call[p].pc /\ d.op = call[p].op /\ d.key = call[p].key /\ d.val = call[p].val
        /\ d.sent = call[p].sent /\ d.todo = call[p].sent /\ d.res = call[p].res
    BY <2>1 DEF TypeInv, Calls
  <2>3. ShapeOK(d)
    BY <2>2 DEF ShapeInv, ShapeOK, Sole
  <2> QED
    BY <1>1, <1>7, <2>1, <2>3 DEF Retry
<1>8. ASSUME NEW p \in Procs, GiveUp(p) PROVE ShapeInv'
  BY <1>1, <1>8, FinishParts DEF GiveUp, ShapeOK
<1>9. ASSUME NEW p \in Procs, Return(p) PROVE ShapeInv'
  BY <1>1, <1>9 DEF Return, ShapeOK, Idle
<1> QED
  BY <1>2, <1>3, <1>4, <1>5, <1>6, <1>7, <1>8, <1>9 DEF Next, Step

LEMMA ShapeInit == Init => ShapeInv
  BY DEF Init, ShapeInv, ShapeOK, Idle

LEMMA AttemptsType ==
  /\ Attempts \in Nat
  /\ "retry" \in Faults => \A n \in Nat : n < MaxRetries => n + 1 < Attempts
  /\ 0 < Attempts
BY ConstantsOK DEF Attempts

\* A call that begins has not been repeated, nor has the second request of a
\* SetOrFail.
LEMMA FirstAttempt ==
  ASSUME TypeInv, NEW p \in Procs, Invoke(p) \/ (Answer(p) /\ NeedsExpiry(p))
  PROVE  call'[p].tries = 0
<1>1. \A op, k, v, req, o : /\ Waiting(op, k, v, req).tries = 0
                            /\ [Waiting(op, k, v, req) EXCEPT !.opt = o].tries = 0
  BY DEF Waiting, Idle
<1>2. \A c : Goto(p, c) => call'[p] = c
  BY Others
<1>3. ASSUME NEW k \in Keys, NEW o \in SetOpts, Set(p, k, o) PROVE call'[p].tries = 0
  <2>1. PICK v, req : Begin(p, Waiting("set", k, v, req))
    BY <1>3 DEF Set
  <2> QED
    BY <1>1, <1>2, <2>1 DEF Begin
<1>4. ASSUME NEW k \in Keys, NEW o \in FailOpts, SetOrFail(p, k, o) PROVE call'[p].tries = 0
  <2>1. PICK v, req : Begin(p, [Waiting("setorfail", k, v, req) EXCEPT !.opt = o])
    BY <1>4 DEF SetOrFail
  <2>2. PICK c : c = [Waiting("setorfail", k, v, req) EXCEPT !.opt = o]
    OBVIOUS
  <2>3. c.tries = 0
    BY <2>2 DEF Waiting, Idle
  <2> QED
    BY <1>2, <2>1, <2>2, <2>3 DEF Begin
<1>5. ASSUME NEW k \in Keys, Delete(p, k) PROVE call'[p].tries = 0
  BY <1>1, <1>2, <1>5 DEF Delete, Begin
<1>6. ASSUME NEW k \in Keys, NEW o \in GetOpts, Get(p, k, o) PROVE call'[p].tries = 0
  BY <1>1, <1>2, <1>6 DEF Get, Begin
<1>7. CASE Drain(p)
  BY <1>1, <1>2, <1>7 DEF Drain, Begin
<1>8. CASE Answer(p) /\ NeedsExpiry(p)
  BY <1>1, <1>2, <1>8 DEF Answer
<1> QED
  BY <1>3, <1>4, <1>5, <1>6, <1>7, <1>8 DEF Invoke

\* What a GetAndDelete has removed: with each attempt one value, of which the last
\* attempt's is in the reply.
TookOK(c, S) ==
  /\ c.pc = "idle" => S = {}
  /\ c.pc = "wait" /\ c.op = "take" =>
       /\ c.tries < Attempts /\ IsFiniteSet(S)
       /\ Cardinality(S \ c.reply) <= c.tries
       /\ Cardinality(S) <= (IF c.todo = <<>> THEN c.tries + 1 ELSE c.tries)
  /\ c.pc = "done" /\ c.op = "take" =>
       Cardinality(S \ c.reply) <= (IF c.res = "error" THEN Attempts ELSE Attempts - 1)

TookInv == \A p \in Procs : TookOK(call[p], took[p])

LEMMA TakeUnderWay ==
  ASSUME TypeInv, TookInv, NEW p \in Procs, call[p].pc = "wait", call[p].op = "take"
  PROVE  LET n == call[p].tries
             S == took[p]
         IN  /\ n \in Nat /\ n < Attempts /\ IsFiniteSet(S)
             /\ Cardinality(S) \in Nat /\ Cardinality(S) <= n + 1
             /\ Cardinality(S \ call[p].reply) \in Nat /\ Cardinality(S \ call[p].reply) <= n
             /\ call[p].todo # <<>> => Cardinality(S) <= n
<1>1. call[p].tries \in Nat
  BY DEF TypeInv, Calls
<1>2. TookOK(call[p], took[p])
  BY DEF TookInv
<1>3. IsFiniteSet(took[p])
  BY <1>2 DEF TookOK
<1>4. Cardinality(took[p]) \in Nat /\ Cardinality(took[p] \ call[p].reply) \in Nat
  BY <1>3, Within
<1> QED
  BY <1>1, <1>2, <1>3, <1>4 DEF TookOK

LEMMA TookStep ==
  ASSUME TypeInv, ShapeInv, TookInv, [Next]_vars
  PROVE  TookInv'
<1>1. ASSUME NEW p \in Procs, NEW c, Goto(p, c), TookOK(c, took'[p]),
             \A q \in Procs \ {p} : took'[q] = took[q]
      PROVE  TookInv'
  BY <1>1, Others DEF TookInv
<1>2. /\ Attempts \in Nat
      /\ \A S : S \ {} = S
  BY AttemptsType
<1>3. CASE Tick \/ UNCHANGED vars
  BY <1>3 DEF Tick, vars, TookInv
<1>4. ASSUME NEW req \in late, Late(req) PROVE TookInv'
  BY <1>4 DEF Late, TookInv
<1>5. ASSUME NEW p \in Procs, Invoke(p) PROVE TookInv'
  <2>1. PICK c : Begin(p, c) /\ Starts(c)
    BY <1>5, Invoked
  <2>2. took' = took /\ took[p] = {} /\ Goto(p, c) /\ call'[p] = c
    BY <2>1, Others DEF Begin, TookInv, TookOK
  <2>3. c.tries = 0 /\ {} \ c.reply = {} /\ IsFiniteSet({}) /\ Cardinality({}) = 0
    BY <1>5, <2>2, FirstAttempt, FS_EmptySet
  <2>4. TookOK(c, {})
    BY <2>1, <2>3, AttemptsType DEF Starts, TookOK
  <2> QED
    BY <1>1, <2>2, <2>4
<1>6. ASSUME NEW p \in Procs, Serve(p) PROVE TookInv'
  <2>1. PICK c, d :
          /\ c \in Commands
          /\ call[p].pc = "wait" /\ call[p].todo \in Seq(Commands) /\ call[p].todo # <<>>
          /\ c = Head(call[p].todo) /\ Goto(p, d)
          /\ d.pc = "wait" /\ d.op = call[p].op
          /\ d.todo = Tail(call[p].todo) /\ d.reply = Reply(c)
          /\ took' = IF Consumes(c) THEN [took EXCEPT ![p] = @ \cup Reply(c)] ELSE took
    BY <1>6, ServeParts
  <2>2. took \in [Procs -> SUBSET Values] /\ \A q \in Procs \ {p} : took'[q] = took[q]
    BY <2>1 DEF TypeInv, TypeOK
  <2>3. CASE call[p].op # "take"
    BY <1>1, <2>1, <2>2, <2>3 DEF TookOK
  <2>4. CASE call[p].op = "take"
    <3>1. c.cmd = "getscript" /\ c.del /\ d.todo = <<>>
      <4>1. PICK x : Sole(call[p], x) /\ call[p].todo \in {<<x>>, <<>>}
        BY <2>1, <2>4 DEF ShapeInv, ShapeOK
      <4> QED
        BY <2>1, <2>4, <4>1, Tuples DEF Sole
    <3>2. Reply(c) \subseteq {hash[c.key].val}
      BY <3>1 DEF Reply
    <3>3. took'[p] = took[p] \cup Reply(c)
      BY <2>1, <2>2, <3>1 DEF Consumes
    <3>4. /\ IsFiniteSet(took[p]) /\ Cardinality(took[p]) \in Nat
          /\ Cardinality(took[p]) <= call[p].tries
          /\ call[p].tries \in Nat /\ call[p].tries < Attempts
      BY <2>1, <2>4, TakeUnderWay
    <3>5. /\ IsFiniteSet(took'[p]) /\ Cardinality(took'[p]) \in Nat
          /\ Cardinality(took'[p]) <= Cardinality(took[p]) + 1
      <4>1. took'[p] \subseteq took[p] \cup {hash[c.key].val}
        BY <3>2, <3>3
      <4> QED
        BY <3>4, <4>1, OneMore
    <3>6. /\ Cardinality(took'[p] \ d.reply) \in Nat
          /\ Cardinality(took'[p] \ d.reply) <= Cardinality(took[p])
      <4>1. took'[p] \ d.reply \subseteq took[p]
        BY <2>1, <3>3
      <4> QED
        BY <3>4, <4>1, Within
    <3>7. d.tries = call[p].tries
      <4>1. d = call'[p] /\ call'[p].tries = call[p].tries
        BY <1>6, <2>1, Others DEF Serve, Goto, TypeInv, Calls
      <4> QED
        BY <4>1
    <3>8. TookOK(d, took'[p])
      <4>1. /\ Cardinality(took'[p] \ d.reply) <= d.tries
            /\ Cardinality(took'[p]) <= d.tries + 1 /\ d.tries < Attempts
        BY <3>4, <3>5, <3>6, <3>7
      <4> QED
        BY <2>1, <2>4, <3>1, <3>5, <4>1 DEF TookOK
    <3> QED
      BY <1>1, <2>1, <2>2, <3>8
  <2> QED
    BY <2>3, <2>4
<1>7. ASSUME NEW p \in Procs, Answer(p) PROVE TookInv'
  <2>1. took' = took /\ call[p].pc = "wait"
    BY <1>7 DEF Answer
  <2>2. CASE NeedsExpiry(p)
    <3>1. PICK d : Goto(p, d) /\ d.pc = "wait" /\ d.op = "expire"
      BY <1>7, <2>2, ExpireParts
    <3> QED
      BY <1>1, <2>1, <3>1 DEF TookOK
  <2>3. CASE ~NeedsExpiry(p)
    <3>1. PICK d : Goto(p, d) /\ d.pc = "done" /\ d.op = call[p].op /\ d.reply = call[p].reply
                   /\ d.res = Outcome(p)
      BY <1>7, <2>3, FinishParts DEF Answer
    <3>2. Outcome(p) # "error"
      BY DEF Outcome
    <3>3. d.op = "take" => Cardinality(took[p] \ d.reply) <= Attempts - 1
      <4>1. ASSUME NEW n \in Nat, NEW m \in Nat, m < Attempts, n <= m PROVE n <= Attempts - 1
        BY <1>2, <4>1
      <4> QED
        BY <2>1, <3>1, <4>1, TakeUnderWay
    <3> QED
      BY <1>1, <2>1, <3>1, <3>2, <3>3 DEF TookOK
  <2> QED
    BY <2>2, <2>3
<1>8. ASSUME NEW p \in Procs, Retry(p) PROVE TookInv'
  <2>1. PICK d : d = [call[p] EXCEPT !.todo = call[p].sent, !.tries = @ + 1, !.reply = {}]
    OBVIOUS
  <2>2. /\ d.pc = "wait" /\ d.op = call[p].op /\ d.todo = call[p].sent
        /\ d.tries = call[p].tries + 1 /\ d.reply = {} /\ Goto(p, d) /\ took' = took
        /\ call[p].pc = "wait" /\ "retry" \in Faults /\ call[p].tries < MaxRetries
    BY <1>8, <2>1 DEF Retry, TypeInv, Calls
  <2>3. CASE call[p].op = "take"
    <3>1. d.todo # <<>>
      BY <2>2, <2>3, Tuples DEF ShapeInv, ShapeOK
    <3>2. /\ IsFiniteSet(took[p]) /\ Cardinality(took[p]) <= d.tries
          /\ call[p].tries \in Nat
      BY <2>2, <2>3, TakeUnderWay
    <3>3. d.tries < Attempts
      BY <2>2, <3>2, AttemptsType
    <3> QED
      BY <1>1, <1>2, <2>2, <2>3, <3>1, <3>2, <3>3 DEF TookOK
  <2>4. CASE call[p].op # "take"
    BY <1>1, <2>2, <2>4 DEF TookOK
  <2> QED
    BY <2>3, <2>4
<1>9. ASSUME NEW p \in Procs, GiveUp(p) PROVE TookInv'
  <2>1. PICK d : Goto(p, d) /\ d.pc = "done" /\ d.res = "error" /\ d.op = call[p].op /\ d.reply = {}
    BY <1>9, FinishParts DEF GiveUp
  <2>2. call[p].pc = "wait" /\ took' = took
    BY <1>9 DEF GiveUp
  <2>3. d.op = "take" => Cardinality(took[p] \ d.reply) <= Attempts
    <3>1. ASSUME NEW n \in Nat, NEW m \in Nat, m < Attempts, n <= m + 1 PROVE n <= Attempts
      BY <1>2, <3>1
    <3>2. took[p] \ d.reply = took[p]
      BY <2>1
    <3> QED
      BY <2>1, <2>2, <3>1, <3>2, TakeUnderWay
  <2> QED
    BY <1>1, <2>1, <2>2, <2>3 DEF TookOK
<1>10. ASSUME NEW p \in Procs, Return(p) PROVE TookInv'
  <2>1. took'[p] = {} /\ \A q \in Procs \ {p} : took'[q] = took[q]
    BY <1>10 DEF Return, TypeInv, TypeOK
  <2> QED
    BY <1>1, <1>10, <2>1 DEF Return, TookOK, Idle
<1> QED
  BY <1>3, <1>4, <1>5, <1>6, <1>7, <1>8, <1>9, <1>10 DEF Next, Step

\* A GetAndDelete, or a Get with AndDelete, that returns has lost at most one value
\* for each attempt that go-redis repeated: with no retries none at all, and never
\* more of them than there are retries, whoever stores and removes in between.
THEOREM TakeLosesOnlyRepeatedCorrect == Spec => []TakeLosesOnlyRepeated
<1>1. Init => TookInv
  BY DEF Init, TookInv, TookOK, Idle
<1>2. TypeInv /\ ShapeInv /\ [Next]_vars => ShapeInv'
  BY ShapeStep
<1>3. TypeInv /\ ShapeInv /\ TookInv /\ [Next]_vars => TookInv'
  BY TookStep
<1>4. TookInv => TakeLosesOnlyRepeated
  BY DEF TookInv, TookOK, TakeLosesOnlyRepeated
<1> QED
  BY TypeInit, TypeStep, ShapeInit, <1>1, <1>2, <1>3, <1>4, PTL DEF Spec

-----------------------------------------------------------------------------
(* What a value has been stored for, and may still be: each attempt of the   *)
(* request that stores it is executed, given up and late, or under way.      *)

\* No two calls store the same value.
OwnValues == \A p, q \in Procs : call[p].val # Nil /\ call[p].val = call[q].val => p = q

LateFor(v) == {req \in late : v \in Offers(req)}

Spent(v) == stored[v] + Cardinality(LateFor(v))

Pending(v, req) == IF v \in Offers(req) THEN 1 ELSE 0

\* Call c stores no value but its own, and that once for each attempt.
WithinBudget(c) ==
  /\ PlainTail(c.sent) /\ PlainTail(c.todo)
  /\ Offers(c.sent) \subseteq {c.val} /\ Offers(c.todo) \subseteq Offers(c.sent)
  /\ c.pc = "wait" => c.tries < Attempts
  /\ \A v \in Offers(c.sent) : c.pc = "wait" /\ Spent(v) + Pending(v, c.todo) <= c.tries + 1

BudgetInv ==
  /\ IsFiniteSet(late) /\ \A req \in late : PlainTail(req)
  /\ \A v \in Values : Spent(v) <= Attempts
  /\ \A v \in Values : asked[v] = Unset => Spent(v) = 0 /\ \A p \in Procs : call[p].val # v
  /\ \A p \in Procs : WithinBudget(call[p])
  /\ OwnValues

LEMMA OffersType ==
  ASSUME NEW req \in Seq(Commands)
  PROVE  Offers(req) \subseteq Values
<1>1. req # <<>> => Head(req) \in Commands
  OBVIOUS
<1> QED
  BY <1>1, CommandParts DEF Offers

LEMMA SpentType ==
  ASSUME TypeInv, IsFiniteSet(late), NEW v \in Values
  PROVE  /\ IsFiniteSet(LateFor(v)) /\ Cardinality(LateFor(v)) \in Nat
         /\ stored[v] \in Nat /\ Spent(v) \in Nat
<1>1. LateFor(v) \subseteq late
  BY DEF LateFor
<1>2. IsFiniteSet(LateFor(v)) /\ Cardinality(LateFor(v)) \in Nat
  BY <1>1, Within
<1> QED
  BY <1>2 DEF Spent, TypeInv, TypeOK

\* A command stores its value once more, or nothing.
LEMMA ExecOffers ==
  ASSUME TypeInv, NEW req \in Seq(Commands), req # <<>>, Exec(Head(req)), NEW v \in Values
  PROVE  stored'[v] \in Nat /\ stored'[v] <= stored[v] + Pending(v, req)
<1>1. PICK c \in Commands : c = Head(req)
  OBVIOUS
<1>2. stored \in [Values -> Nat] /\ (c.cmd \in {"hset", "hsetnx"} => c.val \in Values)
  BY CommandParts DEF TypeInv, TypeOK
<1>3. Offers(req) = IF c.cmd \in {"hset", "hsetnx"} THEN {c.val} ELSE {}
  BY <1>1 DEF Offers
<1>4. \/ stored' = stored
      \/ c.cmd \in {"hset", "hsetnx"} /\ stored' = [stored EXCEPT ![c.val] = @ + 1]
  BY <1>1 DEF Exec
<1> QED
  BY <1>2, <1>3, <1>4 DEF Pending

\* A late command takes from what is late what it stores.
LEMMA LateSpends ==
  ASSUME TypeInv, IsFiniteSet(late), NEW req \in late, PlainTail(req), Late(req), NEW v \in Values
  PROVE  Spent(v)' \in Nat /\ Spent(v)' <= Spent(v)
<1>1. /\ req \in Seq(Commands) /\ req # <<>> /\ Exec(Head(req))
      /\ late' \subseteq (late \ {req}) \cup {Tail(req)}
  BY DEF Late, TypeInv, TypeOK
<1>2. Offers(Tail(req)) = {}
  BY <1>1, Rest
<1>3. LateFor(v)' \subseteq LateFor(v) \ {req}
  BY <1>1, <1>2 DEF LateFor
<1>4. stored'[v] \in Nat /\ stored'[v] <= stored[v] + Pending(v, req)
  BY <1>1, ExecOffers
<1>5. /\ IsFiniteSet(LateFor(v)) /\ Cardinality(LateFor(v)) \in Nat /\ stored[v] \in Nat
  BY SpentType
<1>6. CASE v \in Offers(req)
  <2>1. req \in LateFor(v)
    BY <1>6 DEF LateFor
  <2>2. Cardinality(LateFor(v)') \in Nat /\ Cardinality(LateFor(v)') + 1 <= Cardinality(LateFor(v))
    BY <1>3, <1>5, <2>1, OneLess
  <2> QED
    BY <1>4, <1>5, <1>6, <2>2 DEF Spent, Pending
<1>7. CASE v \notin Offers(req)
  <2>1. Cardinality(LateFor(v)') \in Nat /\ Cardinality(LateFor(v)') <= Cardinality(LateFor(v))
    BY <1>3, <1>5, Within
  <2> QED
    BY <1>4, <1>5, <1>7, <2>1 DEF Spent, Pending
<1> QED
  BY <1>6, <1>7

\* What is left of a request is spent when it is executed, or given up.
LEMMA ServeSpends ==
  ASSUME TypeInv, IsFiniteSet(late), NEW p \in Procs, Serve(p), NEW v \in Values
  PROVE  Spent(v)' \in Nat /\ Spent(v)' <= Spent(v) + Pending(v, call[p].todo)
<1>1. /\ call[p].todo \in Seq(Commands) /\ call[p].todo # <<>> /\ Exec(Head(call[p].todo))
      /\ late' = late
  BY DEF Serve, InFlight, TypeInv, TypeOK
<1>2. stored'[v] \in Nat /\ stored'[v] <= stored[v] + Pending(v, call[p].todo)
  BY <1>1, ExecOffers
<1>3. Cardinality(LateFor(v)) \in Nat /\ stored[v] \in Nat /\ LateFor(v)' = LateFor(v)
  BY <1>1, SpentType DEF LateFor
<1> QED
  BY <1>2, <1>3 DEF Spent, Pending

LEMMA AbandonSpends ==
  ASSUME TypeInv, IsFiniteSet(late), NEW p \in Procs, Abandon(p), stored' = stored, NEW v \in Values
  PROVE  Spent(v)' \in Nat /\ Spent(v)' <= Spent(v) + Pending(v, call[p].todo)
<1>1. late' \subseteq late \cup {call[p].todo}
  BY DEF Abandon
<1>2. /\ IsFiniteSet(LateFor(v)) /\ Cardinality(LateFor(v)) \in Nat /\ stored[v] \in Nat
  BY SpentType
<1>3. CASE v \in Offers(call[p].todo)
  <2>1. LateFor(v)' \subseteq LateFor(v) \cup {call[p].todo}
    BY <1>1 DEF LateFor
  <2>2. Cardinality(LateFor(v)') \in Nat /\ Cardinality(LateFor(v)') <= Cardinality(LateFor(v)) + 1
    BY <1>2, <2>1, OneMore
  <2> QED
    BY <1>2, <1>3, <2>2 DEF Spent, Pending
<1>4. CASE v \notin Offers(call[p].todo)
  <2>1. LateFor(v)' \subseteq LateFor(v)
    BY <1>1, <1>4 DEF LateFor
  <2>2. Cardinality(LateFor(v)') \in Nat /\ Cardinality(LateFor(v)') <= Cardinality(LateFor(v))
    BY <1>2, <2>1, Within
  <2> QED
    BY <1>2, <1>4, <2>2 DEF Spent, Pending
<1> QED
  BY <1>3, <1>4

\* A step of p that takes its call to c and spends what p had pending, or less.
LEMMA BudgetKept ==
  ASSUME TypeInv, BudgetInv, NEW p \in Procs, NEW c, Goto(p, c),
         late' \subseteq late \cup {call[p].todo},
         \A v \in Values : Spent(v)' \in Nat /\ Spent(v)' <= Spent(v) + Pending(v, call[p].todo),
         \A v \in Values : asked'[v] = Unset => asked[v] = Unset /\ c.val # v,
         WithinBudget(c)',
         c.val = Nil \/ \A q \in Procs \ {p} : call[q].val # c.val
  PROVE  BudgetInv'
<1>1. /\ call'[p] = c /\ (\A q \in Procs \ {p} : call'[q] = call[q])
      /\ WithinBudget(call[p]) /\ call[p].tries \in Nat
      /\ Nil \notin Values /\ IsFiniteSet(late) /\ Attempts \in Nat
  BY Others, ConstantsOK, AttemptsType DEF BudgetInv, TypeInv, Calls
<1>2. /\ \A v \in Values : Spent(v) \in Nat
      /\ \A q \in Procs : Offers(call[q].sent) \subseteq Values /\ call[q].tries \in Nat
  BY <1>1, SpentType, OffersType DEF TypeInv, TypeOK, Calls
<1>3. \A v \in Values : v # call[p].val => Spent(v)' <= Spent(v)
  BY <1>1, <1>2 DEF WithinBudget, Pending
<1>4. IsFiniteSet(late') /\ \A req \in late' : PlainTail(req)
  <2>1. IsFiniteSet(late \cup {call[p].todo})
    BY <1>1, FS_AddElement
  <2> QED
    BY <1>1, <2>1, Within DEF BudgetInv, WithinBudget
<1>5. ASSUME NEW v \in Values PROVE Spent(v)' <= Attempts
  <2>1. CASE v \in Offers(call[p].todo)
    <3>1. Spent(v) + 1 <= call[p].tries + 1 /\ call[p].tries < Attempts
      BY <1>1, <2>1 DEF WithinBudget, Pending
    <3>2. Spent(v)' \in Nat /\ Spent(v)' <= Spent(v) + 1
      BY <2>1 DEF Pending
    <3> QED
      BY <1>1, <1>2, <3>1, <3>2
  <2>2. CASE v \notin Offers(call[p].todo)
    <3>1. Spent(v)' \in Nat /\ Spent(v)' <= Spent(v) + 0
      BY <2>2 DEF Pending
    <3>2. Spent(v) <= Attempts
      BY DEF BudgetInv
    <3> QED
      BY <1>1, <1>2, <3>1, <3>2
  <2> QED
    BY <2>1, <2>2
<1>6. ASSUME NEW v \in Values, asked'[v] = Unset
      PROVE  Spent(v)' = 0 /\ \A q \in Procs : call'[q].val # v
  <2>1. Spent(v) = 0 /\ \A q \in Procs : call[q].val # v
    BY <1>6 DEF BudgetInv
  <2>2. Spent(v)' = 0
    BY <1>3, <2>1
  <2> QED
    BY <1>1, <1>6, <2>1, <2>2
<1>7. ASSUME NEW q \in Procs \ {p} PROVE WithinBudget(call[q])'
  <2>1. WithinBudget(call[q]) /\ call'[q] = call[q]
    BY <1>1 DEF BudgetInv
  <2>2. ASSUME NEW v \in Offers(call[q].sent)
        PROVE  Spent(v)' + Pending(v, call[q].todo) <= call[q].tries + 1
    <3>1. v \in Values /\ v = call[q].val /\ v # call[p].val
      BY <1>1, <1>2, <2>1, <2>2 DEF WithinBudget, BudgetInv, OwnValues
    <3>2. Spent(v)' \in Nat /\ Spent(v)' <= Spent(v)
      BY <1>3, <3>1
    <3>3. Spent(v) + Pending(v, call[q].todo) <= call[q].tries + 1
      BY <2>1, <2>2 DEF WithinBudget
    <3> QED
      BY <1>2, <3>1, <3>2, <3>3 DEF Pending
  <2> QED
    BY <2>1, <2>2 DEF WithinBudget
<1>8. OwnValues'
  BY <1>1 DEF BudgetInv, OwnValues
<1> QED
  BY <1>1, <1>4, <1>5, <1>6, <1>7, <1>8 DEF BudgetInv

\* A call that stores nothing is within its budget.
LEMMA NothingSpent ==
  ASSUME NEW c, Offers(c.sent) = {}, Offers(c.todo) = {}, PlainTail(c.sent), PlainTail(c.todo),
         c.pc = "wait" => c.tries < Attempts
  PROVE  WithinBudget(c)'
BY DEF WithinBudget

LEMMA BudgetStep ==
  ASSUME TypeInv, BudgetInv, [Next]_vars
  PROVE  BudgetInv'
<1>1. /\ asked \in [Values -> Instants \cup {Unset}] /\ Nil \notin Values /\ Unset \notin Instants
      /\ Never \in Instants /\ IsFiniteSet(late) /\ Attempts \in Nat /\ 0 < Attempts
      /\ Offers(<<>>) = {} /\ PlainTail(<<>>)
  BY ConstantsOK, AttemptsType DEF TypeInv, TypeOK, Instants, BudgetInv, Offers, PlainTail
<1>2. \A v \in Values : Spent(v) \in Nat
  BY <1>1, SpentType
<1>3. ASSUME NEW p \in Procs, NEW u \in Instants, Promises(p, u) \/ UNCHANGED asked, NEW v \in Values,
             asked'[v] = Unset
      PROVE  asked[v] = Unset /\ call[p].val # v
  BY <1>1, <1>3 DEF Promises, BudgetInv
<1>4. ASSUME stored' = stored, late' = late, NEW p \in Procs, NEW v \in Values
      PROVE  Spent(v)' \in Nat /\ Spent(v)' = Spent(v) /\ Spent(v)' <= Spent(v) + Pending(v, call[p].todo)
  <2>1. Spent(v)' = Spent(v)
    BY <1>4 DEF Spent, LateFor
  <2> QED
    BY <1>2, <2>1 DEF Pending
<1>5. ASSUME NEW p \in Procs PROVE call[p].val = Nil \/ \A q \in Procs \ {p} : call[q].val # call[p].val
  BY DEF BudgetInv, OwnValues
<1>6. CASE Tick \/ UNCHANGED vars
  <2>1. UNCHANGED <<call, late, asked, stored>>
    BY <1>6 DEF Tick, vars
  <2> QED
    BY <2>1 DEF BudgetInv, WithinBudget, OwnValues, Spent, LateFor
<1>7. ASSUME NEW req \in late, Late(req) PROVE BudgetInv'
  <2>1. /\ PlainTail(req) /\ req \in Seq(Commands) /\ req # <<>>
        /\ late' \subseteq late \cup {Tail(req)} /\ UNCHANGED <<call, asked>>
    BY <1>7 DEF Late, BudgetInv, TypeInv, TypeOK
  <2>2. \A v \in Values : Spent(v)' \in Nat /\ Spent(v)' <= Spent(v)
    BY <1>1, <1>7, <2>1, LateSpends
  <2>3. IsFiniteSet(late') /\ \A r \in late' : PlainTail(r)
    <3>1. IsFiniteSet(late \cup {Tail(req)}) /\ PlainTail(Tail(req))
      BY <1>1, <2>1, FS_AddElement, Rest
    <3> QED
      BY <2>1, <3>1, Within DEF BudgetInv
  <2>4. \A v \in Values : Spent(v)' <= Attempts /\ (asked'[v] = Unset => Spent(v)' = 0)
    BY <1>1, <1>2, <2>1, <2>2 DEF BudgetInv
  <2>5. ASSUME NEW q \in Procs PROVE WithinBudget(call[q])'
    <3>1. /\ WithinBudget(call[q]) /\ call'[q] = call[q]
          /\ call[q].sent \in Seq(Commands) /\ call[q].tries \in Nat
      BY <2>1 DEF BudgetInv, TypeInv, TypeOK, Calls
    <3>2. ASSUME NEW v \in Offers(call[q].sent)
          PROVE  Spent(v)' + Pending(v, call[q].todo) <= call[q].tries + 1
      <4>1. v \in Values /\ Spent(v) + Pending(v, call[q].todo) <= call[q].tries + 1
        BY <3>1, OffersType DEF WithinBudget
      <4>2. Spent(v)' \in Nat /\ Spent(v)' <= Spent(v)
        BY <2>2, <4>1
      <4> QED
        BY <1>2, <3>1, <4>1, <4>2 DEF Pending
    <3> QED
      BY <3>1, <3>2 DEF WithinBudget
  <2> QED
    BY <2>1, <2>3, <2>4, <2>5 DEF BudgetInv, OwnValues
<1>8. ASSUME NEW p \in Procs, Invoke(p) PROVE BudgetInv'
  <2>1. PICK c : Begin(p, c) /\ Starts(c)
    BY <1>8, Invoked
  <2>2. /\ Goto(p, c) /\ call'[p] = c /\ stored' = stored /\ late' = late /\ c.pc = "wait"
        /\ c.todo = c.sent /\ PlainTail(c.todo)
    BY <2>1, Others DEF Begin, Starts
  <2>3. c.tries = 0
    BY <1>8, <2>2, FirstAttempt
  <2>4. CASE c.val = Nil /\ UNCHANGED asked /\ Offers(c.todo) = {}
    <3>1. WithinBudget(c)'
      BY <1>1, <2>2, <2>3, <2>4, NothingSpent
    <3> QED
      BY <1>1, <1>4, <2>2, <2>4, <3>1, BudgetKept
  <2>5. ASSUME c.val \in Values, asked[c.val] = Unset, Offers(c.todo) = {c.val}, NEW u \in Instants,
               asked' = [asked EXCEPT ![c.val] = u]
        PROVE  BudgetInv'
    <3>1. Spent(c.val) = 0 /\ \A q \in Procs : call[q].val # c.val
      BY <2>5 DEF BudgetInv
    <3>2. Spent(c.val)' = 0
      BY <1>4, <2>2, <2>5, <3>1
    <3>3. WithinBudget(c)'
      BY <1>1, <2>2, <2>3, <2>5, <3>2 DEF WithinBudget, Pending
    <3>4. \A v \in Values : asked'[v] = Unset => asked[v] = Unset /\ c.val # v
      BY <1>1, <2>5
    <3> QED
      BY <1>4, <2>2, <3>1, <3>3, <3>4, BudgetKept
  <2> QED
    BY <2>1, <2>4, <2>5 DEF Starts
<1>9. ASSUME NEW p \in Procs, Serve(p) PROVE BudgetInv'
  <2>1. PICK d :
          /\ call[p].pc = "wait" /\ call[p].todo \in Seq(Commands) /\ call[p].todo # <<>>
          /\ Goto(p, d) /\ d.pc = "wait" /\ d.val = call[p].val
          /\ d.sent = call[p].sent /\ d.todo = Tail(call[p].todo) /\ UNCHANGED <<late, asked>>
    BY <1>9, ServeParts
  <2>2. d.tries = call[p].tries
    <3>1. d = call'[p] /\ call'[p].tries = call[p].tries
      BY <1>9, <2>1, Others DEF Serve, Goto, TypeInv, Calls
    <3> QED
      BY <3>1
  <2>3. WithinBudget(call[p]) /\ call[p].tries \in Nat /\ call[p].sent \in Seq(Commands)
    BY DEF BudgetInv, TypeInv, TypeOK, Calls
  <2>4. PlainTail(d.todo) /\ Offers(d.todo) = {}
    BY <2>1, <2>3, Rest DEF WithinBudget
  <2>5. ASSUME NEW v \in Offers(d.sent) PROVE Spent(v)' + Pending(v, d.todo) <= d.tries + 1
    <3>1. v \in Values /\ Spent(v) + Pending(v, call[p].todo) <= call[p].tries + 1
      BY <2>1, <2>3, <2>5, OffersType DEF WithinBudget
    <3>2. Spent(v)' \in Nat /\ Spent(v)' <= Spent(v) + Pending(v, call[p].todo)
      BY <1>1, <1>9, <3>1, ServeSpends
    <3> QED
      BY <1>2, <2>2, <2>3, <2>4, <3>1, <3>2 DEF Pending
  <2>6. WithinBudget(d)'
    BY <2>1, <2>2, <2>3, <2>4, <2>5 DEF WithinBudget
  <2> QED
    BY <1>1, <1>3, <1>5, <1>9, <2>1, <2>6, ServeSpends, BudgetKept
<1>10. ASSUME NEW p \in Procs, Answer(p) PROVE BudgetInv'
  <2>1. stored' = stored /\ late' = late
    BY <1>10 DEF Answer
  <2>2. CASE NeedsExpiry(p)
    <3>1. PICK d : \E u \in Instants :
            /\ Goto(p, d) /\ Promises(p, u) /\ d.pc = "wait" /\ d.val = call[p].val
            /\ d.todo = d.sent /\ Offers(d.todo) = {} /\ PlainTail(d.todo)
      BY <1>10, <2>2, ExpireParts
    <3>2. d.tries = 0
      BY <1>10, <2>2, <3>1, FirstAttempt, Others
    <3>3. WithinBudget(d)'
      BY <1>1, <3>1, <3>2, NothingSpent
    <3> QED
      BY <1>3, <1>4, <1>5, <2>1, <3>1, <3>3, BudgetKept
  <2>3. CASE ~NeedsExpiry(p)
    <3>1. PICK d : /\ Goto(p, d) /\ d.pc = "done" /\ d.val = call[p].val
                   /\ d.sent = <<>> /\ d.todo = <<>>
      BY <1>10, <2>3, FinishParts DEF Answer
    <3>2. Promises(p, Never) \/ UNCHANGED asked
      BY <1>10, <2>3 DEF Answer
    <3>3. WithinBudget(d)'
      BY <1>1, <3>1, NothingSpent
    <3> QED
      BY <1>1, <1>3, <1>4, <1>5, <2>1, <3>1, <3>2, <3>3, BudgetKept
  <2> QED
    BY <2>2, <2>3
<1>11. ASSUME NEW p \in Procs, Abandon(p), stored' = stored
       PROVE  /\ late' \subseteq late \cup {call[p].todo}
              /\ \A v \in Values :
                   Spent(v)' \in Nat /\ Spent(v)' <= Spent(v) + Pending(v, call[p].todo)
  BY <1>1, <1>11, AbandonSpends DEF Abandon
<1>12. ASSUME NEW p \in Procs, Retry(p) PROVE BudgetInv'
  <2>1. PICK d : d = [call[p] EXCEPT !.todo = call[p].sent, !.tries = @ + 1, !.reply = {}]
    OBVIOUS
  <2>2. /\ d.pc = "wait" /\ d.val = call[p].val /\ d.sent = call[p].sent /\ d.todo = call[p].sent
        /\ d.tries = call[p].tries + 1 /\ Goto(p, d)
        /\ "retry" \in Faults /\ call[p].tries < MaxRetries
        /\ Abandon(p) /\ stored' = stored /\ asked' = asked
    BY <1>12, <2>1 DEF Retry, TypeInv, Calls
  <2>3. WithinBudget(call[p]) /\ call[p].tries \in Nat /\ call[p].sent \in Seq(Commands)
    BY DEF BudgetInv, TypeInv, TypeOK, Calls
  <2>4. d.tries < Attempts
    BY <2>2, <2>3, AttemptsType
  <2>5. ASSUME NEW v \in Offers(d.sent) PROVE Spent(v)' + Pending(v, d.todo) <= d.tries + 1
    <3>1. v \in Values /\ Spent(v) + Pending(v, call[p].todo) <= call[p].tries + 1
      BY <2>2, <2>3, <2>5, OffersType DEF WithinBudget
    <3>2. Spent(v)' \in Nat /\ Spent(v)' <= Spent(v) + Pending(v, call[p].todo)
      BY <1>11, <2>2, <3>1
    <3>3. Pending(v, call[p].todo) \in {0, 1} /\ Pending(v, d.todo) = 1
      <4>1. d.todo = d.sent /\ v \in Offers(d.todo)
        BY <2>2, <2>5
      <4> QED
        BY <4>1 DEF Pending
    <3> QED
      BY <1>2, <2>2, <2>3, <3>1, <3>2, <3>3
  <2>6. WithinBudget(d)'
    BY <2>2, <2>3, <2>4, <2>5 DEF WithinBudget
  <2> QED
    BY <1>1, <1>3, <1>5, <1>11, <2>2, <2>6, BudgetKept
<1>13. ASSUME NEW p \in Procs, GiveUp(p) PROVE BudgetInv'
  <2>1. PICK d : /\ Goto(p, d) /\ d.pc = "done" /\ d.val = call[p].val
                 /\ d.sent = <<>> /\ d.todo = <<>>
    BY <1>13, FinishParts DEF GiveUp
  <2>2. stored' = stored /\ Promises(p, Never) /\ Abandon(p)
    BY <1>13 DEF GiveUp
  <2>3. WithinBudget(d)'
    BY <1>1, <2>1, NothingSpent
  <2> QED
    BY <1>1, <1>3, <1>5, <1>11, <2>1, <2>2, <2>3, BudgetKept
<1>14. ASSUME NEW p \in Procs, Return(p) PROVE BudgetInv'
  <2>1. Goto(p, Idle) /\ stored' = stored /\ late' = late /\ asked' = asked
    BY <1>14 DEF Return
  <2>2. Idle.val = Nil /\ Idle.pc = "idle" /\ Idle.sent = <<>> /\ Idle.todo = <<>>
    BY DEF Idle
  <2>3. WithinBudget(Idle)'
    BY <1>1, <2>2, NothingSpent
  <2> QED
    BY <1>1, <1>4, <2>1, <2>2, <2>3, BudgetKept
<1> QED
  BY <1>6, <1>7, <1>8, <1>9, <1>10, <1>12, <1>13, <1>14 DEF Next, Step

LEMMA BudgetInit == Init => BudgetInv
<1>1. SUFFICES ASSUME Init PROVE BudgetInv
  OBVIOUS
<1>2. \A p \in Procs : call[p].val = Nil /\ WithinBudget(call[p])
  BY <1>1 DEF Init, Idle, WithinBudget, Offers, PlainTail
<1>3. IsFiniteSet(late) /\ late = {}
  BY <1>1, FS_EmptySet DEF Init
<1>4. \A v \in Values : Spent(v) = 0
  <2>1. \A v \in Values : LateFor(v) = {} /\ stored[v] = 0
    BY <1>1 DEF Init, LateFor
  <2> QED
    BY <2>1, FS_EmptySet DEF Spent
<1> QED
  BY <1>2, <1>3, <1>4, ConstantsOK, AttemptsType DEF BudgetInv, OwnValues

\* Where no request is repeated, what a call will store was not stored before.
Unstored == \A p \in Procs : \A v \in Offers(call[p].todo) : stored[v] = 0

LEMMA SentOnce ==
  ASSUME "retry" \notin Faults, TypeInv, BudgetInv
  PROVE  Unstored
<1>1. SUFFICES ASSUME NEW p \in Procs, NEW v \in Offers(call[p].todo) PROVE stored[v] = 0
  BY DEF Unstored
<1>2. /\ WithinBudget(call[p]) /\ call[p].tries \in Nat /\ call[p].todo \in Seq(Commands)
      /\ IsFiniteSet(late)
  BY DEF BudgetInv, TypeInv, TypeOK, Calls
<1>3. v \in Values
  BY <1>1, <1>2, OffersType
<1>4. Spent(v) + 1 <= call[p].tries + 1 /\ call[p].tries < 1
  BY <1>1, <1>2 DEF WithinBudget, Pending, Attempts
<1>5. Cardinality(LateFor(v)) \in Nat /\ stored[v] \in Nat /\ Spent(v) = stored[v] + Cardinality(LateFor(v))
  BY <1>2, <1>3, SpentType DEF Spent
<1> QED
  BY <1>2, <1>4, <1>5

\* A value is handed out at most once for each attempt of the request that stores
\* it: with no retries it has one consumer, and never more of them than attempts,
\* whichever Drains, GetAndDeletes and Gets with AndDelete race, and whatever is
\* lost, repeated or late (redis.go, the two scripts).
THEOREM ServedOncePerAttemptCorrect == Spec => []ServedOncePerAttempt
<1>1. TypeInv /\ BudgetInv /\ [Next]_vars => BudgetInv'
  BY BudgetStep
<1>2. TypeInv /\ BudgetInv /\ ServedOncePerStore => ServedOncePerAttempt
  <2>1. SUFFICES ASSUME TypeInv, BudgetInv, ServedOncePerStore, NEW v \in Values
                 PROVE  served[v] <= Attempts
    BY DEF ServedOncePerAttempt
  <2>2. /\ Cardinality(LateFor(v)) \in Nat /\ stored[v] \in Nat /\ served[v] \in Nat
        /\ Attempts \in Nat
    BY <2>1, SpentType, AttemptsType DEF BudgetInv, TypeInv, TypeOK
  <2>3. stored[v] + Cardinality(LateFor(v)) <= Attempts /\ served[v] <= stored[v]
    BY <2>1 DEF BudgetInv, ServedOncePerStore, Spent
  <2> QED
    BY <2>2, <2>3
<1> QED
  BY TypeInit, TypeStep, BudgetInit, ServedOncePerStoreCorrect, <1>1, <1>2, PTL DEF Spec

-----------------------------------------------------------------------------
(* A Get's options in the two backends.                                    *)

\* Instants at less than a second from each other.
Near(r, m) == m - Second < r /\ r < m + Second

\* Options that the Redis backend can express: a time is sent if it is one, and
\* not of the first second of the epoch; a delta counts from one second on; and
\* there is a default if that is what is asked for.
Expressible(o) ==
  /\ ~o.delete
  /\ o.validUntil \in Int => o.validUntil >= Second
  /\ o.validUntil # Never
  /\ o.validUntil = Nil /\ o.setTTL # Nil => now + o.setTTL >= Second
  /\ o.validUntil = Nil /\ o.setTTL = Nil /\ o.updateTTL # Nil => o.updateTTL >= Second
  /\ o.validUntil = Nil /\ o.setTTL = Nil /\ o.updateTTL = Nil /\ o.defaultTTL =>
       DefaultTTL > 0 /\ now + DefaultTTL >= Second

LEMMA CutsOff ==
  ASSUME NEW a \in Int
  PROVE  /\ (a \div Second) * Second \in Int
         /\ (a \div Second) * Second <= a /\ a < (a \div Second) * Second + Second
         /\ a >= Second => a \div Second > 0
<1>1. Second \in Nat \ {0}
  BY ConstantsOK
<1> QED
  BY <1>1, TimesInt, DivInt

\* A time that is sent in seconds.
LEMMA SentNear ==
  ASSUME NEW a \in Int, a >= Second
  PROVE  Unix(a) \in Int /\ Unix(a) > 0 /\ Near(Unix(a) * Second, a)
BY CutsOff, DivInt, ConstantsOK, NeverIsNoInstant DEF Unix, Near

\* The script's extension, of an entry that expires u and of one that does not.
LEMMA ExtendedNear ==
  ASSUME TypeInv, NEW k \in Keys, Present(k), NEW d \in Int, d >= Second
  PROVE  \E r \in Int :
           /\ Extended(k, d \div Second) = Expiring(k, r)
           /\ Near(r, (IF hash[k].until = Never THEN now ELSE hash[k].until) + d)
<1>1. /\ hash[k] \in Fields /\ now \in Int /\ Second \in Nat \ {0}
      /\ hash[k].until # Never => hash[k].until \in Int /\ now <= hash[k].until
  BY ConstantsOK DEF TypeInv, TypeOK, Fields, Instants, Present
<1>2. PICK e \in Int : /\ e = d \div Second /\ e * Second \in Int
                       /\ e * Second <= d /\ d < e * Second + Second
  BY CutsOff, DivInt
<1>3. CASE hash[k].until = Never
  <2>1. HTtl(k) = -1
    BY <1>3 DEF HTtl
  <2>2. Extended(k, e) = Expiring(k, now + (0 + e) * Second)
    BY <2>1 DEF Extended
  <2>3. (0 + e) * Second = e * Second
    BY <1>2
  <2> QED
    BY <1>1, <1>2, <1>3, <2>2, <2>3 DEF Near
<1>4. CASE hash[k].until # Never
  <2>1. PICK a \in Int : a = hash[k].until - now + Second - 1 /\ a >= 0
    BY <1>1, <1>4
  <2>2. PICK s \in Int : /\ s = a \div Second /\ s * Second \in Int /\ s >= 0
                         /\ s * Second <= a /\ a < s * Second + Second
    <3>1. a \div Second >= 0
      BY <1>1, <2>1
    <3> QED
      BY <3>1, CutsOff, DivInt
  <2>3. HTtl(k) = s
    BY <1>4, <2>1, <2>2 DEF HTtl
  <2>4. Extended(k, e) = Expiring(k, now + (s + e) * Second)
    BY <2>2, <2>3 DEF Extended
  <2>5. (s + e) * Second = s * Second + e * Second
    BY <1>1, <1>2, <2>2
  <2>6. now + (s + e) * Second \in Int /\ Near(now + (s + e) * Second, hash[k].until + d)
    BY <1>1, <1>2, <1>4, <2>1, <2>2, <2>5 DEF Near
  <2> QED
    BY <1>2, <1>4, <2>4, <2>6
<1> QED
  BY <1>3, <1>4

LEMMA Touches ==
  ASSUME NEW c, c.cmd = "getscript", c.del = FALSE, c.at \in Int, c.delta \in Int, Present(c.key)
  PROVE  /\ c.at > 0 => FieldAfter(c) = Expiring(c.key, c.at * Second)
         /\ c.at <= 0 /\ c.delta > 0 => FieldAfter(c) = Extended(c.key, c.delta)
         /\ c.at <= 0 /\ c.delta <= 0 => FieldAfter(c) = hash[c.key]
<1>1. FieldAfter(c) = TouchedField(c)
  BY DEF FieldAfter
<1> QED
  BY <1>1 DEF TouchedField

\* What the script does to a field that it does not remove.
LEMMA ScriptTouches ==
  ASSUME NEW k, NEW at \in Int, NEW delta \in Int, Present(k)
  PROVE  LET f == FieldAfter(GetScript(k, FALSE, at, delta)) IN
         /\ at > 0 => f = Expiring(k, at * Second)
         /\ at <= 0 /\ delta > 0 => f = Extended(k, delta)
         /\ at <= 0 /\ delta <= 0 => f = hash[k]
<1> DEFINE c == GetScript(k, FALSE, at, delta)
<1>1. c.cmd = "getscript" /\ c.key = k /\ c.del = FALSE /\ c.at = at /\ c.delta = delta
  BY DEF GetScript
<1> HIDE DEF c
<1>2. /\ at > 0 => FieldAfter(c) = Expiring(k, at * Second)
      /\ at <= 0 /\ delta > 0 => FieldAfter(c) = Extended(k, delta)
      /\ at <= 0 /\ delta <= 0 => FieldAfter(c) = hash[k]
  BY <1>1, Touches
<1> QED
  BY <1>2 DEF c

\* A Get with an option that Redis can express leaves the entry it finds with
\* the expiry that the in-memory backend would give it, but for less than a
\* second; if that is over by the server's clock, the entry is gone. Without an
\* option for it, neither backend changes the expiry.
THEOREM BackendsAgreeOnExpiry ==
  ASSUME TypeInv, NEW k \in Keys, Present(k), NEW o \in GetOpts, Expressible(o),
         NEW f, f = FieldAfter(GetScript(k, o.delete, TtlTimestamp(o), TtlDelta(o))),
         NEW m, m = Touched(o, hash[k].until, DefaultTTL, now)
  PROVE  \/ f = hash[k] /\ m = hash[k].until
         \/ m \in Int /\ f.val = hash[k].val /\ f.until \in Int /\ now < f.until /\ Near(f.until, m)
         \/ m \in Int /\ f = Absent /\ m < now + Second
<1>1. /\ now \in Int /\ hash[k] \in Fields /\ Second \in Nat \ {0} /\ DefaultTTL \in Int
      /\ Never \notin Int /\ Nil \notin Int /\ Never # Nil
  <2>1. hash[k] \in [val : Values \cup {Nil}, until : Instants] /\ now \in Start..MaxTime
    BY DEF TypeInv, TypeOK
  <2> QED
    BY <2>1, ConstantsOK, NeverIsNoInstant, NilIsNoInstant DEF Fields
<1>2. /\ o.validUntil \in Instants \cup {Nil} /\ o.setTTL \in Int \cup {Nil}
      /\ o.updateTTL \in Int \cup {Nil} /\ o.defaultTTL \in BOOLEAN /\ o.delete = FALSE
  BY ConstantsOK DEF GetOptions, Expressible
<1>3. PICK at, delta : at = TtlTimestamp(o) /\ delta = TtlDelta(o)
  OBVIOUS
<1>4. /\ at > 0 => f = Expiring(k, at * Second)
      /\ at <= 0 /\ delta > 0 => f = Extended(k, delta)
      /\ at <= 0 /\ delta <= 0 => f = hash[k]
  <2>1. /\ at \in Int /\ delta \in Int
    BY <1>1, <1>3, OptionTypes
  <2>2. f = FieldAfter(GetScript(k, FALSE, at, delta))
    BY <1>2, <1>3
  <2> QED
    BY <2>1, <2>2, ScriptTouches
<1>5. ASSUME NEW r \in Int, f = Expiring(k, r), m \in Int, Near(r, m)
      PROVE  \/ m \in Int /\ f.val = hash[k].val /\ f.until \in Int /\ now < f.until /\ Near(f.until, m)
             \/ m \in Int /\ f = Absent /\ m < now + Second
  <2>1. CASE r <= now
    BY <1>1, <1>5, <2>1 DEF Expiring, Near
  <2>2. CASE ~(r <= now)
    BY <1>1, <1>5, <2>2 DEF Expiring, Fields
  <2> QED
    BY <2>1, <2>2
<1>6. ASSUME m \in Int, m >= Second, at = Unix(m)
      PROVE  \/ m \in Int /\ f.val = hash[k].val /\ f.until \in Int /\ now < f.until /\ Near(f.until, m)
             \/ m \in Int /\ f = Absent /\ m < now + Second
  <2>1. at > 0 /\ at * Second \in Int /\ Near(at * Second, m)
    BY <1>6, SentNear, TimesInt
  <2> QED
    BY <1>4, <1>5, <1>6, <2>1
<1>7. CASE o.validUntil # Nil \/ o.setTTL # Nil \/ (o.updateTTL = Nil /\ o.defaultTTL)
  <2>1. m \in Int /\ m >= Second /\ at = Unix(m)
    BY <1>1, <1>2, <1>3, <1>7 DEF Expressible, Touched, TtlTimestamp, DefaultUntil, Instants
  <2> QED
    BY <1>6, <2>1
<1>8. CASE o.validUntil = Nil /\ o.setTTL = Nil /\ o.updateTTL # Nil
  <2>1. PICK d \in Int : d = o.updateTTL /\ d >= Second
    BY <1>2, <1>8 DEF Expressible
  <2>2. at = 0 /\ delta = d \div Second /\ delta > 0
    BY <1>1, <1>3, <1>8, <2>1, CutsOff DEF TtlTimestamp, TtlDelta
  <2>3. f = Extended(k, d \div Second)
    BY <1>4, <2>2
  <2>4. m \in Int /\ m = (IF hash[k].until = Never THEN now ELSE hash[k].until) + d
    BY <1>1, <1>8, <2>1 DEF Touched, Fields, Instants
  <2> QED
    BY <1>5, <2>1, <2>3, <2>4, ExtendedNear
<1>9. CASE o.validUntil = Nil /\ o.setTTL = Nil /\ o.updateTTL = Nil /\ ~o.defaultTTL
  BY <1>1, <1>3, <1>4, <1>9 DEF Touched, TtlTimestamp, TtlDelta
<1> QED
  BY <1>2, <1>7, <1>8, <1>9
=============================================================================
