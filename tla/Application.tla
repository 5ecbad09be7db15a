------------------------------ MODULE Application ------------------------------
(***************************************************************************)
(* How an application comes to its caches: the fx module and its sweeper   *)
(* (module.go, NewSweeper), NewFactory and the backends it builds, the     *)
(* names of caches, and the Redis client that each of them uses until it   *)
(* is closed. The interleavings of New, Close and CleanupAll are the       *)
(* subject of Factory; here each is one step.                              *)
(***************************************************************************)
EXTENDS Integers, Sequences, SequencesExt

CONSTANTS
  Caches,     \* identities of caches: bounds the number that is created
  Names,      \* the names that callers give, as sequences of characters
  Configs,    \* the configurations: url, by its kind, and interval
  Lent,       \* a Redis client that the application has made itself
  Nil,        \* no cache
  MaxDerived  \* bound of the factories derived through WithName

ASSUME ApplicationOK ==
  /\ Lent \notin Caches /\ Nil \notin Caches /\ Nil # Lent
  /\ Configs \subseteq [url : {"", "memory", "redis", "unusable", "other", "garbled"}, interval : Int]

Colon == ":"

\* What names and prefixes are made of; "cache" stands for the word.
Chars == (UNION {Range(n) : n \in Names}) \cup {Colon, "cache"}

\* What is known of a cache: its path of names, if a factory made it, the store
\* that its entries are in, and its client.
CacheRecords ==
  [path : Seq(Names), store : {"map", "hash"} \X (Caches \cup Seq(Chars)),
   client : Caches \cup {Lent, Nil}]

ASSUME NamesOK == \A n \in Names : n \in Seq(Range(n))

ASSUME NilIsNoCache == Nil \notin CacheRecords

VARIABLES
  config,     \* the Config that the application supplies
  sweeper,    \* moduleConfig.withSweeper
  app,        \* "new", "wired", "up", or "failed" at its start
  backend,    \* what the builder of NewFactory creates, or "none"
  factories,  \* the factories in use, as prefix, tracker and path of names
  swept,      \* the tracker that a running sweeper works through, or "none"
  caches,     \* cache -> what it was created as, or Nil
  tracked,    \* cache -> the tracker it is registered in, or "none"
  clients,    \* the Redis clients that are open; a cache's own bears its name
  closed      \* the caches that were closed

vars == <<config, sweeper, app, backend, factories, swept, caches, tracked, clients, closed>>

wiring == <<config, sweeper, app, backend, swept>>

-----------------------------------------------------------------------------
(* Module and the start of the application. *)

\* The options set flags one after the other; WithSweeper is the only one.
Applied(opts) == \E i \in DOMAIN opts : opts[i] = "WithSweeper"

Module(opts) ==
  /\ app = "new" /\ app' = "wired"
  /\ sweeper' = Applied(opts)
  /\ UNCHANGED <<config, backend, factories, swept, caches, tracked, clients, closed>>

\* What NewFactory makes of a URL: an "unusable" one has the scheme redis, and
\* redis.ParseURL rejects it later; "none" is an error.
Backend(url) ==
  CASE url \in {"", "memory"}        -> "memory"
    [] url \in {"redis", "unusable"} -> "redis"
    [] OTHER                         -> "none"

\* Fault: the interval is not looked at.
IntervalIgnored(interval) == TRUE

\* NewSweeper returns a Sweeper.
IntervalOK(interval) == interval > 0

\* fx runs the constructors that somebody asks for: NewFactory for the sweeper
\* or another part of the application, NewSweeper if it is registered. An
\* error fails the start.
Start(asked) ==
  LET made == asked \/ sweeper
      ok == (made => Backend(config.url) # "none") /\ (sweeper => IntervalOK(config.interval))
  IN
    /\ app = "wired"
    /\ app' = IF ok THEN "up" ELSE "failed"
    /\ IF ok /\ made
         THEN /\ backend' = Backend(config.url)
              /\ factories' = {[prefix |-> <<>>, tracker |-> "first", path |-> <<>>]}
         ELSE UNCHANGED <<backend, factories>>
    /\ swept' = IF ok /\ sweeper THEN "first" ELSE "none"
    /\ UNCHANGED <<config, sweeper, caches, tracked, clients, closed>>

-----------------------------------------------------------------------------
(* Names. *)

\* Fault: prefix and name run together.
JoinPlain(prefix, name) == prefix \o name

\* fullName in New, fullPrefix in WithName.
Join(prefix, name) == IF prefix = <<>> THEN name ELSE prefix \o <<Colon>> \o name

\* Fault: the derived factory starts a tracker of its own.
DeriveAlone(f, name) ==
  [prefix |-> Join(f.prefix, name), tracker |-> "second", path |-> Append(f.path, name)]

\* The factory that f.WithName(name) returns.
Derive(f, name) ==
  [prefix |-> Join(f.prefix, name), tracker |-> f.tracker, path |-> Append(f.path, name)]

WithName(f, name) ==
  /\ Cardinality(factories) <= MaxDerived
  /\ factories' = factories \cup {Derive(f, name)}
  /\ UNCHANGED <<wiring, caches, tracked, clients, closed>>

\* The key of the Redis hash that NewRedis derives from its prefix.
Hash(prefix) ==
  (IF prefix # <<>> /\ Last(prefix) # Colon THEN prefix \o <<Colon>> ELSE prefix) \o <<"cache">>

-----------------------------------------------------------------------------
(* Caches. *)

\* A new cache and the tracker that it is registered in.
Create(c, path, store, client, tracker) ==
  /\ caches[c] = Nil
  /\ caches' = [caches EXCEPT ![c] = [path |-> path, store |-> store, client |-> client]]
  /\ tracked' = [tracked EXCEPT ![c] = tracker]
  /\ clients' = IF client = c THEN clients \cup {c} ELSE clients
  /\ UNCHANGED <<wiring, factories, closed>>

\* NewMemory: a map of its own.
NewMemory(c, path, tracker) == Create(c, path, <<"map", c>>, Nil, tracker)

\* Fault: a client that was given is thought to be the cache's own.
OwnsAny(c) == caches[c].client # Nil

\* RedisCache.ownedClient
OwnsClient(c) == caches[c].client = c

\* Fault: the error of ParseURL is lost.
ClientFromAny(client, url) == client # Nil \/ url # ""

\* There is a client, or a URL that ParseURL makes one from.
ClientFor(client, url) == client # Nil \/ url = "redis"

\* NewRedis; it returns an error if it can get no client.
NewRedis(c, path, prefix, client, url, tracker) ==
  /\ ClientFor(client, url)
  /\ Create(c, path, <<"hash", Hash(prefix)>>, IF client = Nil THEN c ELSE client, tracker)

\* New: the builder, which may fail, and then the tracker.
New(c, f, name) ==
  LET path == Append(f.path, name) IN
  \/ backend = "memory" /\ NewMemory(c, path, f.tracker)
  \/ backend = "redis" /\ NewRedis(c, path, Join(f.prefix, name), Nil, config.url, f.tracker)

\* The application calls NewRedis itself, with its own client.
Borrow(c, name) ==
  app = "up" /\ NewRedis(c, <<>>, name, Lent, "", "none")

\* Close: the client if it is the cache's own, and whatever that returned (a
\* second Close fails), the tracker.
Close(c) ==
  /\ caches[c] # Nil
  /\ clients' = IF OwnsClient(c) THEN clients \ {caches[c].client} ELSE clients
  /\ tracked' = [tracked EXCEPT ![c] = "none"]
  /\ closed' = closed \cup {c}
  /\ UNCHANGED <<wiring, factories, caches>>

Init ==
  /\ config \in Configs
  /\ sweeper = FALSE /\ app = "new" /\ backend = "none" /\ swept = "none"
  /\ factories = {}
  /\ caches = [c \in Caches |-> Nil]
  /\ tracked = [c \in Caches |-> "none"]
  /\ clients = {Lent}
  /\ closed = {}

Next ==
  \/ \E opts \in {<<>>, <<"WithSweeper">>, <<"WithSweeper", "WithSweeper">>} : Module(opts)
  \/ \E asked \in BOOLEAN : Start(asked)
  \/ \E f \in factories, name \in Names : WithName(f, name) \/ \E c \in Caches : New(c, f, name)
  \/ \E c \in Caches : Close(c) \/ \E name \in Names : Borrow(c, name)

Spec == Init /\ [][Next]_vars

-----------------------------------------------------------------------------
(* Properties *)

\* Names that the factory's ":" cannot be mistaken in.
Proper(path) == path # <<>> /\ \A i \in DOMAIN path : path[i] # <<>> /\ Colon \notin Range(path[i])

\* Two caches of a factory share their entries only if they were created under
\* the same names, provided that these are not empty and have no colon
\* (factory.go, New and WithName; redis.go, NewRedis).
NamesIsolate ==
  \A c, d \in Caches :
    /\ caches[c] # Nil /\ caches[d] # Nil
    /\ Proper(caches[c].path) /\ Proper(caches[d].path)
    /\ caches[c].store = caches[d].store
    => caches[c].path = caches[d].path

\* A Redis cache has an open client until it is closed itself, whichever other
\* caches are closed, twice or not; a client that the application lent stays
\* open, and no other stays open beyond its cache (redis.go, NewRedis and Close).
ClientsFollow ==
  /\ Lent \in clients
  /\ \A c \in Caches \ closed : caches[c] # Nil => caches[c].client \in clients \cup {Nil}
  /\ clients \cap closed = {}

\* An application that was wired with a sweeper is not up without one, and the
\* sweeper's tracker holds every open cache of every factory, derived ones
\* included (module.go, WithSweeper; sweeper.go, NewSweeper; factory.go, WithName).
NeverSilentlyUnswept ==
  app = "up" /\ sweeper =>
    /\ config.interval > 0
    /\ swept # "none"
    /\ \A c \in Caches \ closed : caches[c] # Nil /\ caches[c].path # <<>> => tracked[c] = swept

\* Every variable holds a value of its kind, and caches exist only where a start
\* succeeded; a client of their own only with a URL that makes one.
TypeOK ==
  /\ config \in Configs /\ sweeper \in BOOLEAN
  /\ app \in {"new", "wired", "up", "failed"} /\ backend \in {"none", "memory", "redis"}
  /\ swept \in {"none", "first"}
  /\ \A c \in Caches : tracked[c] \in {"none"} \cup {f.tracker : f \in factories}
  /\ \A c \in Caches : caches[c] # Nil =>
       /\ app = "up" /\ caches[c].client \in {c, Lent, Nil}
       /\ caches[c].client = c => config.url = "redis"
  /\ clients \subseteq Caches \cup {Lent} /\ closed \subseteq Caches
=============================================================================
