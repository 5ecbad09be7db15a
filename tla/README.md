# Verification of cachefx

cachefx is a small caching library for Go: one `Cache` interface, an in-memory
and a Redis backend behind it, a typed wrapper, a factory that hands out named
caches over one backend, and a background sweeper that evicts what has expired.
This directory holds TLA+ models of it, their TLC runs and TLAPS proofs. Paths
below are relative to the repository (`src/` in `PROJECT.json`).

## 1. Inventory

| Component | Code | State | Operations |
|---|---|---|---|
| Expiry times and options | `cache/options.go`, `isExpired` and `newItem` in `cache/memory.go` | none | options of Set and Get to an expiry, the expiry test |
| In-memory backend | `cache/memory.go` | map key -> `*memoryItem` (value, `validUntil`), default ttl, one `RWMutex` | Get (with any `GetOption`), GetAndDelete, Set, SetOrFail, Delete, Cleanup, Drain, Close |
| Redis backend | `cache/redis.go` | client, prefix, ttl, ownership of the client; the hash and its field TTLs at the server | the same operations, as commands, pipelines and Lua scripts |
| Typed cache | `cache/typed.go` | storage, item constructor | the same operations, with Marshal and Unmarshal around them |
| Cache interface | `cache/cache.go`, `cache/errors.go` | none of its own; what every backend promises | all of the above |
| Factory and cache tracker | `factory.go` | the builder, the name, the tracker's list of open caches and its mutex | NewFactory, WithName, New, Close of a tracked cache, CleanupAll |
| Sweeper | `sweeper.go` | interval, factory; a ticker while running | NewSweeper, Run |
| fx wiring and configuration | `module.go`, `config.go`, `errors.go` | the flag of `WithSweeper` | `Module`, and the constructors at the start of the application |

**Interactions.** A caller holds a cache that the factory wrapped
(`unregisteringCache`), around a backend, perhaps in a typed cache; its calls go
straight to the backend. `Close` closes the backend and then takes the wrapper
out of the tracker. The sweeper's one goroutine waits for a tick or the
cancellation of its context and calls `CleanupAll`, which copies the tracker's
list and calls `Cleanup` of each cache without holding the tracker's lock. All
of this runs in as many goroutines as the application has.

**Hard behaviours.**

* The in-memory Get looks an item up under the lock and judges its expiry
  *after* releasing it, by a new clock reading; then it takes the lock again to
  evict. Between those points other goroutines replace, consume, drain or
  extend the item.
* `validUntil` is written in place under the lock and read without it: a data
  race on a value of several words.
* `cleanup` reads the clock *before* it waits for the lock, so its notion of
  "now" is stale by the time it acts.
* A sweep runs over a copy of the tracker's list while caches come and go, and
  must get past a cache that fails.
* The sweeper must not starve a cancellation behind ticks, nor the reverse.
* A Redis Set is two commands, not one transaction; whole seconds are all the
  server's expiry gets; go-redis retries a command whose answer is lost.
* A typed consuming call has removed the data before it learns that the data do
  not decode.
* Whether two caches share entries follows from names that several calls of
  `WithName` and `New`, and the builders, join; whether a Redis client stays open
  from who made it.
* A sweeper takes a flag of `Module`, an interval of the configuration, and factories
  that share one tracker; none of these looks at the others.

**What makes each component correct.**

* In-memory backend: a hit is a value the key really held, unexpired, during
  the call; no store is consumed twice; the dead stay dead; a live entry leaves
  only because somebody removed or replaced it; every call returns.
* Factory: the tracker holds exactly the open caches; a sweep reaches each of
  them; a cache closed before it is left alone.
* Sweeper: expired entries in open caches are evicted; a cancelled sweeper stops.
* Redis backend: a value is consumed at most as often as it was stored, whatever
  the network does; every entry that should expire has an expiry, and the one given
  for its own value; nothing is served beyond it.
* Typed cache: what the storage handed out is returned, or the call reports an error.
* Cache interface: callers see one map that each call works on at one instant, and
  no value is consumed twice; every backend implements that.
* Application: caches of different names are apart, a client lives as long as the
  cache that owns it, and an application wired with a sweeper has every cache swept.

`PROJECT.json` lists every hazard at its line, with the properties that cover it.

## 2. Modules

| Module | Models | Role |
|---|---|---|
| `Options` | `cache/options.go` and the expiry arithmetic of `memory.go` | pure operators, shared |
| `CacheContract` | `cache/cache.go` | abstract specification |
| `CacheContractProofs` | | theorems about `CacheContract` |
| `MemoryCache` | `cache/memory.go` | state machine |
| `MemoryCacheProofs` | | theorems about `MemoryCache` |
| `MemoryContract`, `MemoryContractProofs` | | refinement: `MemoryCache` implements `CacheContract`, and its proof |
| `SweptMemory` | `cache/memory.go` under `sweeper.go` | composition: EXTENDS `MemoryCache` |
| `RedisCache` | `cache/redis.go` and the server it talks to | state machine |
| `RedisCacheProofs` | | theorems about `RedisCache` |
| `RedisContract`, `RedisContractProofs` | | refinement: `RedisCache` implements `CacheContract`, and its proof |
| `TypedCache` | `cache/typed.go` around any storage | composition: EXTENDS `CacheContract` |
| `TypedCacheProofs` | | theorems about `TypedCache` |
| `Factory` | `factory.go`: New, Close, CleanupAll | state machine |
| `Sweeper` | `sweeper.go` on top of `Factory` | composition: EXTENDS `Factory` |
| `FactoryProofs` | | theorems about `Factory` and `Sweeper` |
| `Application` | `module.go`, `config.go`, NewFactory, WithName, NewRedis, NewSweeper | state machine |
| `ApplicationProofs` | | theorems about `Application` |
| `MC...` | | option sets, names and symmetry for TLC |

### Options

An instant is an integer, `time.Time{}` is `Never`. All options of `Set` write the
same field, so a list of them is worth its last one; options of `Get` are the
struct `getOptions`, whose precedence (`delete` over `validUntil` over `setTTL` over
`updateTTL` over `defaultTTL`) is that of the code's early return and `switch`.
`WithTTL(0)` (never), a negative ttl (now), the default ttl of zero, and the
extension of an entry that has no expiry are kept, since they differ.

### MemoryCache

| Model | Code |
|---|---|
| `items` | `m.items`; `Nil` is an absent key |
| `heap` | `validUntil` of the `memoryItem` at each address; the value never changes, so the address stands for it |
| `mux` | the goroutine that keeps `m.mux` locked *between steps* |
| `now` | what `time.Now()` returns; `Tick` moves it |
| `call[p]` | goroutine `p`'s operation, program point and locals |
| `Set`, `SetOrFail`, `Delete` | the methods, one critical section each |
| `GetRead`, `GetLocked`, `GetWrite` | the getter closure in `Get` without and with options, and its store to `validUntil` |
| `ReadClock`, `ReadZero`, `ReadAfter`, `Evict` | `getItem`: `time.Now()`, the two tests of `isExpired`, the guarded removal |
| `SweepStart`, `Sweep` | `cleanup` up to and from `m.mux.Lock()`, with the callback of `Cleanup` or `Drain` |
| `Return` | the caller gets the answer |

*Atomicity.* Map accesses happen under `m.mux`, so a critical section is one
step to everybody else. The exception is a lock-free reader of `validUntil`; so a
getter with a TTL option ends its first step at pc `write`, with the lock taken
and the store under way. While it is, a reader in `isExpired` may see the old or
the new value, and, when the store changes between the zero time and a set one,
a mixture: `time.Time` is several words, and `IsZero` and `After` look at different
ones. The readings of one process's clock carry Go's monotonic reading, so
`After` between two set times compares a single word. An absolute expiry given
without a monotonic reading would add torn pairs, and they are not modelled.

*Not in the model:* values (opaque), the context (the code ignores it), `Close`
(it does nothing), re-use of a collected item's address (an address that a call
still holds is never collected).

`seen` and `served` are history: what the key, or the cache, held in the course of
the call, and how often a store's value was consumed. No guard reads them.

### CacheContract

| Model | Promise |
|---|---|
| `store` | the entries a caller may see |
| `lapsed` | values whose time is up and which still take memory: a Drain may hand them out |
| `op`, `held` | what a call has already done, and the values it is about to return |
| `served` | how many consuming calls returned a value |
| `Set`, `SetOrFail`, `Delete`, `Drain`, `Cleanup`, `Close` | one step each, at some instant of the call |
| `Look`, `Take`, then `Hit` or `Forget` | a Get finds an entry, and then returns it or answers that there is none |
| `Expire` | the time of some entries is up |

The contract has no clock: it is about which values callers see, and any entry may
expire at any instant. Two liberties are there because the in-memory backend
takes them. A Get may forget what it found, and then remove
that very entry if it is still there (`Forget`): so a miss need not be true, and
a consuming Get may lose an entry that expired meanwhile. A Drain may return
lapsed values. The rest is strict: no hit without an entry, no entry that
comes back, no value with two consumers, no call that touches another key.

`MemoryContract` maps the items in the map that are live to `store`, the dead ones
to `lapsed`, the item that a Get looks at to `held` if its key held it alive during the
call, and program points to `op`; `RedisContract` maps the fields of the hash
and the replies that are on their way, and a call takes effect with the first
command that the server executes.

### TypedCache

A typed call is a call of the contract's storage, with what `typed.go` does
before it (`MarshalFails`: the storage is not called) and after it (`Decode`: `newItem` and
`Unmarshal` of each value, the first failure ends the call). `Corrupt` values are
those that Unmarshal rejects, `Pointer` says if `T` is a pointer type, without which
`newItem` fails. Because the storage is the contract, what is shown here
holds over each backend that implements it. `delivered` and `reported` are history.

### SweptMemory

One goroutine does nothing but `Cleanup`, again and again, as `Run` does through
`CleanupAll`; the others use the cache. `Sweeper` shows that ticks reach every open
cache, and `SweptMemory` what they come to in the map of one.

### Factory and Sweeper

| Model | Code |
|---|---|
| `tracker` | `t.caches`, a slice in order |
| `Build`, `Add` | `New`: the builder, which may fail, and `tracker.add` |
| `CloseInner`, `Unregister` | `unregisteringCache.Close`: the inner `Close`, then `tracker.remove` whatever it returned |
| `List`, `CleanupNext`, `CleanupEnd` | `CleanupAll`: the copy, one `Cleanup` after the other, the joined errors |
| `Expire` | entries of an open cache run out |
| `Stop`, `Sweep`, `Run` | the branches of the `select` in `Sweeper.Run` |
| `tick` | the ticker's channel: one tick long, further ticks are dropped |

Factories made by `WithName` share their parent's tracker, so one tracker is a
whole family. Of a cache, only "it holds expired entries" is kept (`stale`). `Broken`
caches are those of any backend whose `Cleanup` may fail; they may also succeed.
A cache may be closed twice, and by two goroutines at once. `handed`, `closed` and
`swept` are history.

### RedisCache

| Model | Code |
|---|---|
| `hash` | the server's hash, one field per key, with the field's expiry (external) |
| `call[p].sent`, `todo` | the request of goroutine `p`: the commands of a pipeline, or one command, and those not executed yet |
| `Set`, `SetOrFail`, `Delete`, `Get`, `Drain` | the methods up to the request: options evaluated by the clock, `Get` with the plain `HGET` or the script |
| `TouchedField`, `Extended`, `Consumes`, `Exec` | the two Lua scripts |
| `Serve` | the server executes one command and replies (external) |
| `Answer` | the method after the reply; `SetOrFail` goes on with its second request, by a new clock reading |
| `Retry`, `GiveUp`, `Late` | go-redis and the network (external): the request is sent again, the call fails, what was given up is executed after all |

The server executes a command at a time, and a script is one command; a pipeline is
several. It deletes a field whose new expiry is not in the future, drops a
field's expiry when `HSET` overwrites it, and counts `HTTL` in seconds, rounded up.
`Second` is the number of clock ticks in a second, so that cutting an expiry to whole
seconds (`Unix`) loses something. Clients and server share one clock.
go-redis sends a request again when the connection fails or the answer is overdue, up to
three times with the default options that `NewRedis` leaves in place. The bytes of the
first attempt may reach the server later, even after the repetition. A request is
either executed from its first command on or lost; `Late` has no fairness, so a
request can be lost in the middle as well. `Cleanup` does nothing and has no action.
`asked`, `stored`, `served` and `took` are history, except that a fresh value is one
that nobody has asked to store. `asked` is withdrawn when the call fails.

### Application

| Model | Code |
|---|---|
| `Module`, `Applied` | `Module` and its options, which set flags in order |
| `Start` | fx runs `NewFactory` if anybody asks for a factory, and `NewSweeper` if it is registered; an error of either fails the start |
| `Backend` | the `switch` of `NewFactory` on the scheme of the URL |
| `Derive`, `WithName`, `Join` | a derived factory: a longer prefix, the same tracker and builder |
| `New`, `NewMemory`, `NewRedis`, `Hash` | the builders; the key of the Redis hash |
| `ClientFor`, `OwnsClient`, `clients` | `NewRedis` with a given client, or one that it makes from the URL and owns |
| `Borrow` | the application calls `NewRedis` itself, with its own client |
| `Close` | the client, if owned; the tracker |

Names are sequences of characters: what `NamesIsolate` says depends on where
colons are. The interleavings inside `New` and `Close` are in `Factory`; each is one step here.
The comment at `config.go:12` speaks of an option `withRun=true`, which is called
`WithSweeper` in `module.go`; the model has the option that exists.

## 3. Runs

All passing runs but `application` also check for deadlock: nothing in the models
may stop. An application may: one whose start fails does nothing any more.

| Run | Instance | Shows |
|---|---|---|
| `memory_races` | 2 goroutines, 1 key, 2 stores, every kind of option, default ttl 1, clock 0..2 | `IInv` (inductive invariant), `HitWasPresent`, `ServedAtMostOnce`, `TakeLosesOnlyExpired`, `ExpiredStaysExpired`, `ReplacementStays`; and that the backend implements the contract (`KeepsContract`) |
| `swept_memory` | a caller and a sweeper, 2 keys, 2 stores, no symmetry | `ExpiredLeaves`: what has expired is removed for good, read or not; `CallsReturn` |
| `factory` | 2 goroutines, 3 caches, 1 broken | `TrackerExact`, `SweepCovers`, `ClosedBeforeNotSwept`, and `IInv`, the invariant of their proofs |
| `sweeper` | Run and one caller, caches open, closing and failing | `SweeperStops`, `ExpiredIsEvicted` |
| `redis_contract` | 2 goroutines, 2 keys, 2 values, Set and SetOrFail with ttls, Gets that extend or consume; calls that fail at any point; two instants | the Redis backend implements the contract (`KeepsContract`) while no request is repeated; `AckedEntryExpires`, `ExtensionNeverShortens` |
| `redis_faults` | 2 goroutines, 1 key, 2 values, Set and consuming calls; retries, errors and late requests; no time | `ServedOncePerStore`, `ServedOncePerAttempt`, `TakeLosesOnlyRepeated`, `AckedEntryExpires` |
| `typed` | 2 goroutines, 2 keys, 3 values, one of which does not decode | `NothingDropped`; the contract's own `IInv`, `ServedAtMostOnce` and `StaysGone` under typed calls |
| `application` | 2 caches, 5 names (empty, plain, with a colon), 2 derived factories, 6 kinds of URL, a valid interval and an invalid one | `NamesIsolate`, `ClientsFollow`, `NeverSilentlyUnswept` |

Four more runs are expected to violate a sentence of the documentation:

| Run | Sentence | What happens |
|---|---|---|
| `memory_lost_extension` | "an expired item is removed by the Get that observes it" (`memory.go:12`) | a Get removes an entry that another Get has extended meanwhile: the eviction compares the item's address, and an extension keeps the address |
| `redis_swapped` | "pipelining to ensure that the set and TTL operations are atomic" (`redis.go:363`) | of two interleaved Sets, one's value gets the other's expiry |
| `redis_early` | "expire after the given duration" (`options.go:25`) | a ttl below a second is cut to one that has passed: the entry is deleted by the Set that stores it |
| `redis_default` | "AndDefaultTTL resets the item's TTL to the cache's default TTL" (`options.go:174`) | with the default of no expiry, which every cache of a factory has, Redis leaves the entry's expiry alone; the in-memory backend removes it |

These configurations answer narrower questions; they are run by hand, in the same way,
on the module of the same prefix:

| Configuration | Module | Outcome |
|---|---|---|
| `MCMemoryContract` | `MCMemoryContract` | holds: `KeepsContract` with two keys |
| `MCMemoryThree` | `MCMemoryCache` | holds: `HitWasPresent` and `ReplacementStays` with a reader, a writer of the expiry and a replacing Set all at once |
| `MCMemoryKeys` | `MCMemoryCache` | holds: `ServedAtMostOnce` with two keys, so that a Drain takes more than one entry |
| `MCMemoryFixed` | `MCMemoryCache` | holds: `LiveEntryStays`, as long as no Get changes an expiry, with three stores |
| `MCCacheContract` | `MCCacheContract` | holds: `IInv` of the contract by itself |
| `MCRedisBoth` | `MCRedisCache` | holds: `AckedEntryExpires` and `ExtensionNeverShortens` with Sets, SetOrFails and extensions that are repeated |
| `MCMemoryTornRead` | `MCMemoryCache` | violated: without any time passing, a Get racing with the store to `validUntil` takes a live entry for expired and removes it (`memory.go:11` says "safe for concurrent access") |
| `MCMemoryAtOnce` | `MCMemoryCache` | violated: an entry with a negative ttl is live at the instant it is stored (`options.go:44`) |
| `MCMemoryMiss` | `MCMemoryCache` | violated: a Get misses a key that was live throughout its call, since it judged the item that a Set has replaced (`memory.go:181` says "If the key exists and has not expired, returns the value") |
| `MCMemoryDrain` | `MCMemoryCache` | violated: a Drain that waited for the lock returns entries that were never in the cache together (`memory.go:143` says "a snapshot of the cache at the time of the call") |
| `MCFactoryClosed` | `MCFactory` | violated: a CleanupAll under way sweeps a cache whose Close has returned (`factory.go:69` says "a cache the caller has closed must not be swept anymore") |
| `MCRedisHalf` | `MCRedisCache` | violated: a Set that fails between its two commands has stored its value, without an expiry (`redis.go:363` says "pipelining to ensure that the set and TTL operations are atomic") |
| `MCRedisLock` | `MCRedisCache` | violated: a SetOrFail, a Delete and another SetOrFail: the expiry of the first falls on the value of the second (`redis.go:404` says "This is an atomic operation that prevents race conditions") |
| `MCRedisExists` | `MCRedisCache` | violated: a repeated HSETNX meets the call's own value: ErrKeyExists, and a value without an expiry (`redis.go:415` says "ErrKeyExists if the key already exists and is not expired") |
| `MCRedisRetry` | `MCRedisCache` | violated: the answer of a Drain's script is lost, the script repeated: an empty map and no error (`redis.go:208` says "returns a map of all non-expired items in the Redis cache and clears the cache") |
| `MCRedisLate` | `MCRedisCache` | violated: a SetOrFail's first HSETNX is given up and repeated, and arrives after all when another caller has deleted the entry: it stores the value for good (`options.go:25` says "The item will expire after the given duration") |
| `MCTypedDrain` | `MCTypedCache` | violated: one value that does not decode loses a Drain's other entries (`typed.go`, Drain) |

`LiveEntryStays` holds in `MCMemoryFixed` and fails in `MCMemoryTornRead` and
`memory_lost_extension`: the difference is a Get that changes an expiry. `ReplacementStays` is
what holds regardless: Cleanup and SetOrFail never remove a live entry, and a Get evicts
none but the very item it looked up.

`AckedEntryExpires` is about the calls that succeeded. A Set that fails between its
two commands leaves its value for good, and so does a SetOrFail whose HSETNX is
repeated: it answers ErrKeyExists and never sends its second request (`MCRedisHalf`, `MCRedisExists`). A late HSETNX
breaks it for a SetOrFail that did succeed (`MCRedisLate`); a late Set is a pipeline that brings its
HEXPIREAT with it, so `redis_faults`, which has Sets, keeps it under late requests too, once
all of their commands have arrived (`AtRest`).

`KeepsContract` excludes repeated and late requests for Redis: a script that is executed twice
takes effect twice, which the contract does not allow. What is left then is `ServedOncePerStore`, and two bounds in the number
of `Attempts` of a request: `ServedOncePerAttempt` on the consumers of a value, and
`TakeLosesOnlyRepeated` on what a consuming Get removes and does not return. Both are tight: with one retry a value can
be served twice, and a Get that returns can lose a value. The second is about the attempts that the server executes while
the call waits (`took`); an attempt that was given up and arrives after the call is not counted against it.

A call that fails halfway is within the contract: it has stored its value. That the value then has no expiry is what `MCRedisHalf` shows.

### Bounds

* `Items` bounds the stores in a behaviour. Two are enough for a replacement (the
  item a call holds and the one that took its place); `MCMemoryFixed` has three, so
  that an entry can be replaced twice under a stale sweep.
* `MaxTime` bounds the clock. An expiry of one tick passes at time 2, so a clock of
  three instants has an entry live, expire, and be judged by a reading older than
  both; runs with two instants use ttl options that expire at once.
* `Horizon` bounds the expiry that extensions add up to. It lies beyond the clock,
  where all later expiries behave alike.
* `Caches` bounds the successful `New`s. Three in `Factory` make a neighbour on either side of
  the one that `remove` cuts out; the properties of `Application` speak of two at a time.
* `Values` of the contract bounds the stores again: with three, `typed` has a Drain return two sound values
  and one that does not decode.
* `MaxDerived` allows a factory derived from a derived one. `Names` has two names whose
  plain concatenation is a third, so that the colon matters.
* In `RedisCache` a second has two ticks: an expiry can lie on a second or between two.
  One retry per request and one late request at a time are enough for a command
  to be executed twice, in either order with another caller's. Late requests are a
  set, so two equal ones count once. The clock starts in the third second because
  the script reads a timestamp of zero as "none", which a real clock is far from. An
  entry whose expiry is beyond `Horizon` is not extended any more.
* Symmetry permutes goroutines, keys, values and addresses (caches: within the broken and
  within the sound ones; values: those that decode). No model orders them, and liveness runs use none.

### Fairness

`MemoryCache` assumes that a goroutine able to run does (weak fairness of the
lock-free steps and of the holder of the lock; the Go scheduler preempts) and that one waiting
for the lock gets it when it is released again and again (strong fairness of `Evict` and
of `Sweep`): `RWMutex` holds new readers back for a waiting writer, and its writers'
`Mutex` falls back to FIFO order against starvation. Nobody is obliged to call, and time may
stand still. `SweptMemory` adds that ticks never cease (weak fairness of `SweepTick`), which is what
`Sweeper` shows of an open cache whose sweeper is not stopped. `Sweeper` assumes that the
ticker ticks, that the goroutines run, and
that `select`, which picks among ready branches at random, passes neither over for
ever (strong fairness of `Stop` and `Sweep`). Nothing obliges anyone to cancel.

## 4. Proofs

The theorems hold for any sets of keys, goroutines, stores and caches, any options and any
bound of the clock. The assumptions are those that the modules declare beside
their constants: that these have their types, that `Nil`,
`Never` and `Unset` are none of the values they stand beside, and that a name is a sequence of
characters. Some theorems assume more, each of them what a counterexample shows to be needed:

| Assumption | Theorems | Without it |
|---|---|---|
| no request arrives late (`"late" \notin Faults`) | `AckedEntryExpiresCorrect` | `MCRedisLate` |
| none is late, and none is repeated (`"retry" \notin Faults`) | `KeepsContractCorrect` and `StaysGoneCorrect` of Redis | a script that is executed twice takes effect twice |
| Gets change no expiry (`\A o \in GetOpts : o.delete`; plain Gets are not among the options) | `LiveEntryStaysCorrect` | `memory_lost_extension`, `MCMemoryTornRead` |
| the options say what Redis can express (`Expressible`) | `BackendsAgreeOnExpiry` | `redis_default`, and the other differences named below |

Lost requests and lost answers, and calls that fail at any point, are allowed in all of them, and
every other theorem about the Redis backend allows repeated and late requests as well.

| Theorem | Module | Says |
|---|---|---|
| `TypeCorrect` | `MemoryCacheProofs` | `Spec => []TypeOK` |
| `ExpiredStaysExpiredCorrect` | | `Spec => ExpiredStaysExpired` |
| `HitWasPresentCorrect` | | `Spec => []HitWasPresent` |
| `ServedAtMostOnceCorrect` | | `Spec => []ServedAtMostOnce` |
| `TakeLosesOnlyExpiredCorrect` | | `Spec => []TakeLosesOnlyExpired` |
| `ReplacementStaysCorrect` | | `Spec => ReplacementStays` |
| `LiveEntryStaysCorrect` | | `Spec => LiveEntryStays`, if no Get changes an expiry |
| `InductiveInvariantCorrect` | | `Spec => []IInv` |
| `ContractInvariant` | `CacheContractProofs` | `Spec => []IInv` |
| `ContractServesOnce` | | `Spec => []ServedAtMostOnce` |
| `ContractStaysGone` | | `Spec => StaysGone` |
| `KeepsContractCorrect` | `MemoryContractProofs` | `Spec => KeepsContract`: the in-memory backend implements the contract |
| `StaysGoneCorrect` | | `Spec => Contract!StaysGone`, of the map its callers see |
| `InductiveInvariantCorrect` | `FactoryProofs` | `Spec => []IInv` |
| `TypeCorrect` | | `Spec => []TypeOK` |
| `TrackerExactCorrect` | | `Spec => []TrackerExact` |
| `SweepCoversCorrect` | | `Spec => []SweepCovers` |
| `ClosedBeforeNotSweptCorrect` | | `Spec => []ClosedBeforeNotSwept` |
| `SweeperTypeCorrect` | | `SSpec => []STypeOK` |
| `SweeperUsesFactory` | | `SSpec => Spec` |
| `SweptFactoryCorrect` | | `SSpec => [](TrackerExact /\ SweepCovers /\ ClosedBeforeNotSwept)` |
| `TypedTypeCorrect` | `TypedCacheProofs` | `TSpec => []TTypeOK` |
| `NothingDroppedCorrect` | | `TSpec => []NothingDropped` |
| `TypedServesOnce` | | `TSpec => []ServedAtMostOnce` |
| `TypedUsesStorage` | | `TSpec => Spec` |
| `TypedStaysGone` | | `TSpec => StaysGone` |
| `TypeCorrect` | `RedisCacheProofs` | `Spec => []TypeOK` |
| `ServedOncePerStoreCorrect` | | `Spec => []ServedOncePerStore` |
| `AckedEntryExpiresCorrect` | | `Spec => []AckedEntryExpires`, if no request arrives late |
| `ExtensionNeverShortensCorrect` | | `Spec => ExtensionNeverShortens` |
| `ServedOncePerAttemptCorrect` | | `Spec => []ServedOncePerAttempt` |
| `TakeLosesOnlyRepeatedCorrect` | | `Spec => []TakeLosesOnlyRepeated` |
| `BackendsAgreeOnExpiry` | | the script's expiry and `MemoryCache`'s differ by less than a second |
| `KeepsContractCorrect` | `RedisContractProofs` | `Spec => KeepsContract`: the Redis backend implements the contract, if no request is repeated or late |
| `StaysGoneCorrect` | | `Spec => Contract!StaysGone`, under the same assumptions |
| `TypeCorrect` | `ApplicationProofs` | `Spec => []TypeOK` |
| `ClientsFollowCorrect` | | `Spec => []ClientsFollow` |
| `NeverSilentlyUnsweptCorrect` | | `Spec => []NeverSilentlyUnswept` |
| `NamesIsolateCorrect` | | `Spec => []NamesIsolate` |

### The in-memory backend

*Types.* `TypeOK` is not inductive: a step dereferences items, so `TypeInv` adds
that every pointer leads to an allocated address (`Allocated`), and that the lock is
held between steps by the goroutine at pc `write` and no other (`LockHeld`).

*Hits are true.* `HitWasPresent` speaks of the moment of the answer, but the item is
chosen much earlier and its expiry read without the lock. The invariant that
carries it is `FoundSeen`: a Get looks at an item that its key held alive in the course of
the call, **or** at one that had expired when it was found (`FoundDead`). The
second case cannot turn into a hit, because a dead item's expiry is final:
whoever wants to change it tests it under the lock first. That is
`DeadIsFinal`, from which `ExpiredStaysExpired` follows too. Then no read of a
`FoundDead` item is torn and `After` must answer true (`DeadNeverHits`). `ReadingsPast` gives that a clock
reading is not ahead of the clock.

*Consumed once.* A call that consumes either found a dead item or owns it
(`Owns`): the item is not in the map, was not served, and any other taker that
holds it found it dead. `MapInv` gives what `Take` and `Drain` start from: no
address is under two keys, and nothing in the map has been served.

*Nothing alive is lost.* A consuming Get takes an item out of the map and judges it afterwards;
it must not take a live one for expired. `WrittenHeld` says that an item
whose expiry is being stored is in the map, under the key of the writer, so an item that was taken out is never written again:
its expiry is whole and final. With that, `TakenExpires` and `TakenDead` say what the
two tests of `isExpired` have found so far, and together they are `LossInv`.
`ReplacementStays` is about a step; lemma `Replaced` goes through those that change the map.
What it leaves open is a Get that evicts its own item while that is live. Where no Get
changes an expiry, it cannot: the lock is never kept between steps, no read is torn, and what
the two tests of `isExpired` have found stays true (`LookedExpires`, `LookedDead`). So the
lost extension is the only way in which a live entry is lost.

The lemmas `Moves`, `LockSteps` and `MapSteps` say once, over all actions, how a
step may change the lock with the heap, and the map with `served`; the invariants are
then preserved by cases on those few shapes rather than on every action.

### The contract, and that the in-memory backend implements it

`ServedAtMostOnce` of the contract rests on two facts: a value is in one place, under one
key, lapsed, or with one consumer (`OnePlace`), and whatever is in some place was stored
and not served yet (`NotServedYet`). `IInv` is their conjunction with the types. `StaysGone` then
follows action by action: a step leaves what a key shows, empties it, or puts a value there
that was never stored (`NothingReturns`).

The refinement has one lemma per operation of `MemoryCache`, each of which names the
contract's step that it is, or shows that the contract does not see it. To the invariant of
`MemoryCacheProofs` it adds `HeldInv`: an item that a Get looks at was seen alive under its key in the course of
the call, or nobody can see it any more. In the first case the call has the item in
`held`, and its end is a `Hit` or a `Forget`; in the second it can only end as a miss, and its
eviction is invisible. The steps of the clock map to `Expire`: which items die with a tick
is which leave `View`, and they join `lapsed` if they are still in the map.

What is proved of the contract holds of a backend that implements it: `StaysGoneCorrect`, for each of
the two, instantiates `CacheContractProofs` with the refinement mapping (`Kept`) and cites `ContractStaysGone`.

### The factory

`TrackerExact` counts, so the invariant says that the tracker has no repetition and that its
range is the open caches; `InjectiveLen` turns that into the count. Where `remove` cuts the
slice is in `CutOne` and `RemoveOne`: they say which element is at which index afterwards. Because a
cache that is on its way into the tracker belongs to one New alone (`CallsInv`), `add` never makes a
repetition. `SweepCovers` needs `SweepInv`: a cache that a sweep still owes is at or behind
its position in the list it copied, and the list has no cache that was closed before.

### The sweeper

A step of the sweeper is a step of the factory or leaves the factory alone (`FactoryStep`), so the
factory's step lemmas carry its invariant over. What is new is that `Runner` does nothing
but `CleanupAll`, and that `Run` and its call agree on what it is doing.

### The typed wrapper

A step of the wrapper is a step of the contract's storage or leaves it alone (`StorageStep`), so the storage's
invariant is cited. `NothingDropped` counts: for each value, the number of times it was served is the
number of times it was delivered or reported plus the calls that carry it. That is preserved since a value is
carried by one call, from the moment the storage serves it until the call returns.

### The Redis backend

*Served once per store.* The books of a value: what was served, what the hash holds and what consuming calls
carry in replies are never more than the server's stores. A repeated script finds
nothing of the first one's, and a lost answer only loses from the left-hand side. A repeated or
late store is one more on the right-hand side.

*What succeeded expires.* An entry without the expiry it should have is one whose own call is
still at work on it (`Covered`): the command that gives the expiry is the next one of its request, or
the second request of a SetOrFail is still to come. Exactly one call is at work for a value
(`OneCall`). When a call succeeds, nothing is left to do, so the entry is covered by its expiry. A
call that fails withdraws what it asked for.

*Extensions.* `HTTL` rounds the remaining time up, so adding a duration to it is never less than the expiry
that was there (`RoundsUp`), for every number of ticks in a second.

*Losses of a repeated Get.* `ShapeInv` says what each operation has sent and what of it is left: reads,
removals and drains are one command (`Sole`), and nothing else consumes. So each attempt of a consuming Get removes at most
one value, and the last one's is in the reply; `TookInv` counts the values against `tries`.

*Consumers per attempt.* The server stores a value once for each attempt that it executes, and an attempt may be
executed by its call, or late, even when the call has returned. `Spent` counts those executed and those that are
late together, so that a late one which is executed changes nothing (`LateSpends`), and one that is executed, or
given up, takes what its call had pending (`ServeSpends`, `AbandonSpends`). `WithinBudget` bounds that by the attempts made so far;
no two calls have one value (`OwnValues`), and a value that nobody has chosen has spent nothing. With
`BudgetInv` a value is stored at most `Attempts` times, and by `ServedOncePerStore` not served more often. Where nothing is repeated,
a call that has a value to store finds it `Unstored`, which the refinement needs.

*Implementing the contract.* A call takes effect with the first command that the server executes: `Begun` is false
before, and what is left after it (the expiry of a Set, the second request of a SetOrFail) can only
end an entry's time, which is the contract's `Expire`. `RInv` collects the invariants above. For each command, `StoreAfter`
says what the contract's `store` is after it, and `StoringMaps` and `SoleMaps` find the contract's
step: `Set`, `SetOrFail`, `Delete`, `Look`, `Take` or `Drain`. An answer is `Hit`, if the
call had something to return, and otherwise `Forget` or no step; giving up is `Fail` before the first command, and
`Forget` or no step after it.

*The same options, the same expiry.* `BackendsAgreeOnExpiry` compares the script, fed by `TtlTimestamp` and `TtlDelta`, with
the `switch` of `MemoryCache.Get` (`Touched`), on an entry that is present. Either neither changes the expiry, or the two
results differ by less than a second, or the script deletes the field, and then the in-memory entry has less than
a second left. `Expressible` is what that takes; what it leaves out are the cases where the backends
really differ, one finding (`redis_default`) among them: an extension that is negative or shorter than a second, which
the script ignores; the zero time given as an absolute expiry, and the default expiry of a cache that has
none, which remove the expiry in memory and leave it in Redis; and a time in the first
second of the epoch or before, which is sent as no time.

### Names, clients and the wiring

`NamesIsolate` needs no induction over the path of names. A joined name without a colon of its own in the
last part determines that part, since it begins behind the last colon (`JoinInjective`); and every factory but the
first is derived from another one in the state, so the invariant that different paths have
different prefixes is preserved by one `WithName` at a time (`DeriveInjective`). `ClientsFollow` needs
that an owned client belongs to one cache.

### Model-checked only

All liveness: `CallsReturn`, `ExpiredLeaves`, `SweeperStops` and `ExpiredIsEvicted` (the prover handles
neither fairness nor ENABLED). `SweptMemory` is about liveness alone. Every invariant and every action property
that a passing run checks is a theorem.

## 5. Plan

Done: the state machines of all components, the contract and two refinements, the
compositions, and the proofs above. What would add most next, in this order:

1. `RedisCache` with a clock of the server that differs from the clients', and `Close` of an owned client while
   calls are under way.

## 6. Not modelled

* An absolute expiry before the epoch. The server answers HEXPIREAT with an error for a negative time; the model lets it
  delete the field, as it does for any time that has passed. No run uses such a time.
* Values are opaque: that `Set` keeps the caller's slice and `Get` returns it
  (`memory.go:430`), so that a caller can write to a cached value, is not in the models.
* The lifecycle of fx and `fxutil`: hooks, timeouts, when a runnable is started and cancelled. `Sweeper`
  takes a cancellation at any time.
* Contexts: the in-memory backend ignores them; those of Redis calls are among the reasons that
  a request is given up.
* Logging, the wording of errors, the bytes of values.
