------------------------------ MODULE RedisCache ------------------------------
(***************************************************************************)
(* The Redis backend, cache/redis.go: any number of goroutines, in any     *)
(* number of processes, and one server that they share.                    *)
(*                                                                         *)
(* A cache is one hash, a key one field of it. The server executes one     *)
(* command at a time, a script is one command, and the commands of a       *)
(* pipeline come one after the other, with those of other connections      *)
(* between them. A field's expiry is set in whole seconds. The client      *)
(* library repeats a request whose answer does not come, and what it gave  *)
(* up may still arrive.                                                    *)
(***************************************************************************)
EXTENDS Options, Sequences, FiniteSets

CONSTANTS
  Keys,        \* cache keys: fields of the hash
  Procs,       \* goroutines
  Values,      \* identities of the values stored: bounds the number of stores
  Unset,       \* the expiry asked for a value that no call has stored
  DefaultTTL,  \* RedisConfig.TTL
  Second,      \* clock ticks in a second
  SetOpts,     \* options a caller of Set may pass
  FailOpts,    \* options a caller of SetOrFail may pass
  GetOpts,     \* options a caller of Get may pass, NoGetOptions among them
  Faults,      \* what the network may do: see Retry, GiveUp and Late
  MaxRetries,  \* retries of one request
  MaxLate,     \* requests given up and not executed yet
  Start,       \* the clock's first instant
  MaxTime,     \* bound of the clock
  Horizon      \* an entry that expires later is not extended any more

ASSUME ConstantsOK ==
  /\ Nil \notin Keys \cup Procs \cup Values
  /\ Unset \notin Instants
  /\ DefaultTTL \in Int
  /\ Second \in Nat \ {0}
  /\ SetOpts \cup FailOpts \subseteq SetOptions
  /\ GetOpts \subseteq GetOptions
  /\ Faults \subseteq {"retry", "giveup", "late"}
  /\ MaxRetries \in Nat /\ MaxLate \in Nat
  /\ Start \in Nat /\ MaxTime \in Nat /\ Start <= MaxTime
  /\ Horizon \in Int

VARIABLES
  now,    \* the clock of the clients and of the server
  hash,   \* key -> the field at the server
  call,   \* goroutine -> the operation it executes
  late,   \* requests given up by their callers that the server may yet get
  \* History: nothing below influences a step, but that values are fresh.
  asked,  \* value -> the expiry its Set or SetOrFail computed for it, Never
          \* if that call failed: see Promises
  stored, \* value -> how often the server stored it
  served, \* value -> how many consuming calls returned it
  took    \* goroutine -> the values its call has removed at the server

vars == <<now, hash, call, late, asked, stored, served, took>>

-----------------------------------------------------------------------------
(* Commands, and the server. *)

Absent == [val |-> Nil, until |-> Never]

\* The server does not tell an expired field from an absent one.
Present(k) == hash[k].val # Nil /\ (hash[k].until = Never \/ now <= hash[k].until)

HSet(k, v) == [cmd |-> "hset", key |-> k, val |-> v]
HSetNX(k, v) == [cmd |-> "hsetnx", key |-> k, val |-> v]
HExpireAt(k, at) == [cmd |-> "hexpireat", key |-> k, at |-> at]
HGet(k) == [cmd |-> "hget", key |-> k]
HDel(k) == [cmd |-> "hdel", key |-> k]
GetScript(k, del, at, delta) ==
  [cmd |-> "getscript", key |-> k, del |-> del, at |-> at, delta |-> delta]
DrainScript == [cmd |-> "drainscript"]

\* What command c removes in order to hand it out.
Consumes(c) == c.cmd = "drainscript" \/ (c.cmd = "getscript" /\ c.del)

\* The reply to command c, as the set of values in it.
Reply(c) ==
  CASE c.cmd = "drainscript"          -> {hash[k].val : k \in {k \in Keys : Present(k)}}
    [] c.cmd \in {"hget", "getscript"} -> IF Present(c.key) THEN {hash[c.key].val} ELSE {}
    [] c.cmd = "hsetnx"               -> IF Present(c.key) THEN {} ELSE {c.val}
    [] OTHER                          -> {}

\* Field k with expiry u: an expiry that is not in the future deletes it.
Expiring(k, u) == IF u <= now THEN Absent ELSE [hash[k] EXCEPT !.until = u]

\* HTTL: the remaining seconds, rounded up, or -1 for a field without expiry.
HTtl(k) == IF hash[k].until = Never THEN -1 ELSE (hash[k].until - now + Second - 1) \div Second

\* Fault: the script forgets what is left of the present ttl.
ExtendedFromNow(k, delta) == Expiring(k, now + delta * Second)

\* The last branch of getAndUpdateTTLScript.
Extended(k, delta) ==
  LET ttl == HTtl(k) IN Expiring(k, now + ((IF ttl < 0 THEN 0 ELSE ttl) + delta) * Second)

\* Fault: the ttl branches come before the test of the delete flag.
TouchedFieldFirst(c) ==
  CASE c.at > 0                             -> Expiring(c.key, c.at * Second)
    [] c.at <= 0 /\ c.delta > 0             -> Extended(c.key, c.delta)
    [] c.at <= 0 /\ c.delta <= 0 /\ c.del   -> Absent
    [] OTHER                                -> hash[c.key]

\* getAndUpdateTTLScript on a field that is present: removed, or its expiry
\* replaced, or extended, or neither.
TouchedField(c) ==
  CASE c.del                                -> Absent
    [] ~c.del /\ c.at > 0                   -> Expiring(c.key, c.at * Second)
    [] ~c.del /\ c.at <= 0 /\ c.delta > 0   -> Extended(c.key, c.delta)
    [] OTHER                                -> hash[c.key]

\* Field c.key after command c.
FieldAfter(c) ==
  CASE c.cmd = "hset"                              -> [val |-> c.val, until |-> Never]
    [] c.cmd = "hsetnx" /\ ~Present(c.key)         -> [val |-> c.val, until |-> Never]
    [] c.cmd = "hexpireat" /\ Present(c.key)       -> Expiring(c.key, c.at * Second)
    [] c.cmd = "getscript" /\ Present(c.key)       -> TouchedField(c)
    [] c.cmd = "hdel"                              -> Absent
    [] OTHER                                       -> hash[c.key]

\* The server executes command c.
Exec(c) ==
  /\ hash' = IF c.cmd = "drainscript" THEN [k \in Keys |-> Absent]
             ELSE [hash EXCEPT ![c.key] = FieldAfter(c)]
  /\ stored' = IF c.cmd = "hset" \/ (c.cmd = "hsetnx" /\ ~Present(c.key))
                 THEN [stored EXCEPT ![c.val] = @ + 1] ELSE stored

-----------------------------------------------------------------------------
(* Calls. A request is a sequence of commands: sent is the whole of it, todo *)
(* what the server has not executed. opt is SetOrFail's, for its second      *)
(* request; res is what the call returns.                                    *)

Idle == [pc |-> "idle", op |-> "none", key |-> Nil, val |-> Nil, opt |-> Nil,
         sent |-> <<>>, todo |-> <<>>, tries |-> 0, reply |-> {}, res |-> "none"]

Goto(p, c) == call' = [call EXCEPT ![p] = c]

Waiting(op, k, v, req) ==
  [Idle EXCEPT !.pc = "wait", !.op = op, !.key = k, !.val = v, !.sent = req, !.todo = req]

Begin(p, c) ==
  /\ call[p].pc = "idle"
  /\ Goto(p, c)
  /\ UNCHANGED <<now, hash, late, stored, served, took>>

\* An instant as the server gets it (time.Time.Unix); the zero time lies
\* before the epoch.
Unix(u) == IF u = Never THEN -1 ELSE u \div Second

\* Fault: the zero time is sent as if it were an expiry.
ExpiryUnchecked(k, u) == <<HExpireAt(k, IF u = Never THEN u ELSE Unix(u))>>

\* The command that gives field k its expiry, if there is one.
Expiry(k, u) == IF u = Never THEN <<>> ELSE <<HExpireAt(k, Unix(u))>>

\* Fault: the expiry is sent before the value.
ExpiryFirst(k, v, u) == Expiry(k, u) \o <<HSet(k, v)>>

\* The pipeline of Set.
SetRequest(k, v, u) == <<HSet(k, v)>> \o Expiry(k, u)

Set(p, k, o) ==
  \E v \in Values :
    LET u == NewUntil(o, DefaultTTL, now) IN
    /\ asked[v] = Unset
    /\ asked' = [asked EXCEPT ![v] = u]
    /\ Begin(p, Waiting("set", k, v, SetRequest(k, v, u)))

SetOrFail(p, k, o) ==
  \E v \in Values :
    /\ asked[v] = Unset
    /\ asked' = [asked EXCEPT ![v] = NewUntil(o, DefaultTTL, now)]
    /\ Begin(p, [Waiting("setorfail", k, v, <<HSetNX(k, v)>>) EXCEPT !.opt = o])

Delete(p, k) ==
  Begin(p, Waiting("delete", k, Nil, <<HDel(k)>>)) /\ UNCHANGED asked

\* ttlTimestamp, 0 if no option sets it: seconds of an absolute time.
TtlTimestamp(o) ==
  IF o.validUntil # Nil THEN Unix(o.validUntil)
  ELSE IF o.setTTL # Nil THEN Unix(now + o.setTTL)
  ELSE IF o.updateTTL = Nil /\ o.defaultTTL /\ DefaultTTL > 0 THEN Unix(now + DefaultTTL)
  ELSE 0

\* ttlDelta: whole seconds of an extension, rounded towards zero. The script
\* ignores a negative one.
TtlDelta(o) ==
  IF o.validUntil = Nil /\ o.setTTL = Nil /\ o.updateTTL # Nil /\ o.updateTTL > 0
    THEN o.updateTTL \div Second ELSE 0

\* GetAndDelete is Get with AndDelete. No extension is asked for beyond Horizon.
Get(p, k, o) ==
  /\ TtlDelta(o) > 0 /\ hash[k].until # Never => hash[k].until <= Horizon
  /\ Begin(p, Waiting(IF o.delete THEN "take" ELSE "get", k, Nil,
                IF IsEmpty(o) THEN <<HGet(k)>>
                ELSE <<GetScript(k, o.delete, TtlTimestamp(o), TtlDelta(o))>>))
  /\ UNCHANGED asked

Drain(p) ==
  Begin(p, Waiting("drain", Nil, Nil, <<DrainScript>>)) /\ UNCHANGED asked

-----------------------------------------------------------------------------
(* A request on its way. *)

InFlight(p) == call[p].pc = "wait" /\ call[p].todo # <<>>

\* The server gets the next command of p's request.
Serve(p) ==
  /\ InFlight(p)
  /\ LET c == Head(call[p].todo) IN
       /\ Exec(c)
       /\ Goto(p, [call[p] EXCEPT !.todo = Tail(@), !.reply = Reply(c)])
       /\ took' = IF Consumes(c) THEN [took EXCEPT ![p] = @ \cup Reply(c)] ELSE took
  /\ UNCHANGED <<now, late, asked, served>>

\* Fault: the value in the reply is not handed on.
FinishWithout(p, res, reply) ==
  Goto(p, [Idle EXCEPT !.pc = "done", !.op = call[p].op, !.val = call[p].val, !.res = res])

\* The call returns res, and the values in reply.
Finish(p, res, reply) ==
  Goto(p, [Idle EXCEPT !.pc = "done", !.op = call[p].op, !.val = call[p].val,
                       !.res = res, !.reply = reply])

\* What p's call returns, once the request has been answered.
Outcome(p) ==
  IF call[p].op \in {"get", "take"} /\ call[p].reply = {} THEN "notfound"
  ELSE IF call[p].op = "setorfail" /\ call[p].reply = {} THEN "exists"
  ELSE "ok"

\* p's call, if it stores a value, answers for expiry u of it, or for none.
Promises(p, u) ==
  asked' = IF call[p].val = Nil THEN asked ELSE [asked EXCEPT ![call[p].val] = u]

\* SetOrFail has stored its value and computes the expiry, which is a request
\* of its own.
NeedsExpiry(p) ==
  /\ call[p].op = "setorfail" /\ call[p].reply # {}
  /\ NewUntil(call[p].opt, DefaultTTL, now) # Never

\* The answer arrives.
Answer(p) ==
  /\ call[p].pc = "wait" /\ call[p].todo = <<>>
  /\ IF NeedsExpiry(p)
       THEN LET u == NewUntil(call[p].opt, DefaultTTL, now) IN
            /\ Goto(p, Waiting("expire", call[p].key, call[p].val, Expiry(call[p].key, u)))
            /\ Promises(p, u)
            /\ UNCHANGED served
       ELSE /\ Finish(p, Outcome(p), call[p].reply)
            /\ served' = [v \in Values |->
                 IF call[p].op \in {"take", "drain"} /\ v \in call[p].reply
                   THEN served[v] + 1 ELSE served[v]]
            /\ IF Outcome(p) = "exists" THEN Promises(p, Never) ELSE UNCHANGED asked
  /\ UNCHANGED <<now, hash, late, stored, took>>

\* What is left of p's request is lost, or the server will still get it.
Abandon(p) ==
  \/ UNCHANGED late
  \/ /\ "late" \in Faults /\ InFlight(p) /\ Cardinality(late) < MaxLate
     /\ late' = late \cup {call[p].todo}

\* The request, or the answer, does not come through, and the client sends the
\* request again.
Retry(p) ==
  /\ "retry" \in Faults
  /\ call[p].pc = "wait" /\ call[p].tries < MaxRetries
  /\ Goto(p, [call[p] EXCEPT !.todo = call[p].sent, !.tries = @ + 1, !.reply = {}])
  /\ Abandon(p)
  /\ UNCHANGED <<now, hash, asked, stored, served, took>>

\* The call returns an error: the retries are used up, or its context is done.
GiveUp(p) ==
  /\ "giveup" \in Faults
  /\ call[p].pc = "wait"
  /\ Finish(p, "error", {})
  /\ Promises(p, Never)
  /\ Abandon(p)
  /\ UNCHANGED <<now, hash, stored, served, took>>

\* A command that nobody waits for any more reaches the server.
Late(req) ==
  /\ Exec(Head(req))
  /\ late' = (late \ {req}) \cup (IF Len(req) > 1 THEN {Tail(req)} ELSE {})
  /\ UNCHANGED <<now, call, asked, served, took>>

Return(p) ==
  /\ call[p].pc = "done"
  /\ Goto(p, Idle)
  /\ took' = [took EXCEPT ![p] = {}]
  /\ UNCHANGED <<now, hash, late, asked, stored, served>>

Tick ==
  /\ now < MaxTime
  /\ now' = now + 1
  /\ UNCHANGED <<hash, call, late, asked, stored, served, took>>

Init ==
  /\ now = Start
  /\ hash = [k \in Keys |-> Absent]
  /\ call = [p \in Procs |-> Idle]
  /\ late = {}
  /\ asked = [v \in Values |-> Unset]
  /\ stored = [v \in Values |-> 0] /\ served = [v \in Values |-> 0]
  /\ took = [p \in Procs |-> {}]

Invoke(p) ==
  \/ \E k \in Keys, o \in SetOpts : Set(p, k, o)
  \/ \E k \in Keys, o \in FailOpts : SetOrFail(p, k, o)
  \/ \E k \in Keys : Delete(p, k)
  \/ \E k \in Keys, o \in GetOpts : Get(p, k, o)
  \/ Drain(p)

Step(p) == Invoke(p) \/ Serve(p) \/ Answer(p) \/ Retry(p) \/ GiveUp(p) \/ Return(p)

Next == Tick \/ (\E req \in late : Late(req)) \/ \E p \in Procs : Step(p)

Spec == Init /\ [][Next]_vars

-----------------------------------------------------------------------------
(* Properties *)

Commands ==
  [cmd : {"hset", "hsetnx"}, key : Keys, val : Values]
    \cup [cmd : {"hexpireat"}, key : Keys, at : Int]
    \cup [cmd : {"hget", "hdel"}, key : Keys]
    \cup [cmd : {"getscript"}, key : Keys, del : BOOLEAN, at : Int, delta : Nat]
    \cup {DrainScript}

\* Every variable holds a value of its kind; a request given up is not empty,
\* and nobody is idle or done with a request under way.
TypeOK ==
  /\ now \in Start..MaxTime
  /\ hash \in [Keys -> [val : Values \cup {Nil}, until : Instants]]
  /\ \A req \in late : req \in Seq(Commands) /\ req # <<>>
  /\ asked \in [Values -> Instants \cup {Unset}]
  /\ stored \in [Values -> Nat] /\ served \in [Values -> Nat]
  /\ took \in [Procs -> SUBSET Values]
  /\ \A p \in Procs :
       /\ call[p].pc \in {"idle", "wait", "done"}
       /\ call[p].sent \in Seq(Commands) /\ call[p].todo \in Seq(Commands)
       /\ call[p].reply \subseteq Values
       /\ call[p].pc # "wait" => call[p].todo = <<>>

\* Nobody uses the cache, and nothing is on its way to the server.
AtRest == late = {} /\ \A p \in Procs : call[p].pc = "idle"

\* GetAndDelete and Drain hand a value out at most as often as the server stored
\* it, whatever is lost, repeated or late (redis.go, the two scripts).
ServedOncePerStore == \A v \in Values : served[v] <= stored[v]

\* How often a request is sent at most.
Attempts == IF "retry" \in Faults THEN MaxRetries + 1 ELSE 1

\* A value is handed out at most once for each attempt of the Set or SetOrFail
\* that stores it, in whatever order attempts are executed, repeated and late
\* (redis.go, Set, SetOrFail and the two scripts, with the retries that NewRedis
\* leaves on).
ServedOncePerAttempt == \A v \in Values : served[v] <= Attempts

\* A GetAndDelete that returns has lost, of what it removed while it waited, at
\* most one value for each attempt that it repeated; one that fails, one for each
\* (redis.go, getAndUpdateTTLScript).
TakeLosesOnlyRepeated ==
  \A p \in Procs : call[p].pc = "done" /\ call[p].op = "take" =>
    Cardinality(took[p] \ call[p].reply) <= (IF call[p].res = "error" THEN Attempts ELSE Attempts - 1)

\* Command c is executed in this step, for a caller or after one.
Executes(c) ==
  \/ \E p \in Procs : InFlight(p) /\ Head(call[p].todo) = c /\ call'[p].todo = Tail(call[p].todo)
  \/ \E req \in late : Head(req) = c /\ req \notin late'

\* A Get that extends an entry does not bring its expiry forward, although the
\* remaining time is read in whole seconds (redis.go, getAndUpdateTTLScript).
ExtensionNeverShortens ==
  [][\A k \in Keys :
       /\ Present(k) /\ hash[k].until # Never
       /\ \E o \in GetOpts : TtlDelta(o) > 0 /\ ~o.delete /\ Executes(GetScript(k, FALSE, 0, TtlDelta(o)))
       => Present(k)' /\ hash'[k].until >= hash[k].until]_vars

\* A Set or SetOrFail that returned without an error, and asked for an expiry,
\* has not left an entry without one: not when it overlapped with others on the
\* same key, nor when it was repeated (redis.go, Set and SetOrFail). A SetOrFail
\* has, if its first HSETNX arrives after all and finds the key removed.
AckedEntryExpires ==
  AtRest => \A k \in Keys :
    Present(k) /\ asked[hash[k].val] # Never => hash[k].until # Never

\* What the server makes of an expiry.
InSeconds(u) == IF u = Never THEN Never ELSE Unix(u) * Second

\* An entry has the expiry that was asked for with its own value.
OwnExpiry ==
  AtRest => \A k \in Keys : Present(k) => hash[k].until = InSeconds(asked[hash[k].val])

\* A Set that gives its value an expiry leaves no entry without one, though it
\* fails (redis.go, Set).
SetWhole ==
  AtRest /\ FailOpts = {} /\ (\A o \in SetOpts : NewUntil(o, DefaultTTL, now) # Never) =>
    \A k \in Keys : Present(k) => hash[k].until # Never

\* An entry that nobody removes or replaces is there until its time has passed.
NotExpiredEarly ==
  [][\A k \in Keys : Present(k) /\ ~Present(k)' =>
       asked[hash[k].val] # Never /\ now' > asked[hash[k].val]]_vars

\* A consuming call that returns without an error returns everything that it
\* removed at the server.
TakeLosesNothing ==
  \A p \in Procs : call[p].pc = "done" /\ call[p].res # "error" => took[p] \subseteq call[p].reply

\* A Get with AndDefaultTTL leaves the entry with the default expiry of the cache,
\* whatever it was before; here, of a cache whose default is none.
DefaultRestored ==
  [][\A p \in Procs :
       /\ DefaultTTL = 0 /\ GetOpts = {AndDefaultTTL(NoGetOptions)}
       /\ call[p].op = "get" /\ InFlight(p) /\ Executes(Head(call[p].todo))
       /\ Present(call[p].key)
       => hash'[call[p].key].until = Never]_vars

\* A SetOrFail that answers ErrKeyExists has not stored its value (redis.go, SetOrFail).
ExistsStoresNothing ==
  \A p \in Procs : call[p].res = "exists" => stored[call[p].val] = 0
=============================================================================
