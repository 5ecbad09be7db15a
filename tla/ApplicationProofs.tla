--------------------------- MODULE ApplicationProofs ---------------------------
(***************************************************************************)
(* Proofs about the wiring, the names and the clients of an application,   *)
(* for any names, any configurations, and any number of caches.            *)
(***************************************************************************)
EXTENDS Application, SequenceTheorems, TLAPS

(* Sequences of characters.                                                *)

\* A name that has no separator in it.
Plain(n) == n \in Seq(Chars) /\ n # <<>> /\ Colon \notin Range(n)

LEMMA NamesAreSeqs == Names \subseteq Seq(Chars)
<1> SUFFICES ASSUME NEW n \in Names PROVE n \in Seq(Chars)
  OBVIOUS
<1>1. n \in Seq(Range(n)) /\ Range(n) \subseteq Chars
  BY NamesOK DEF Chars
<1>2. Len(n) \in Nat /\ n \in [1..Len(n) -> Range(n)]
  BY <1>1
<1> QED
  BY <1>1, <1>2

LEMMA ConcatIs ==
  ASSUME NEW a \in Seq(Chars), NEW b \in Seq(Chars)
  PROVE  /\ a \o b \in Seq(Chars) /\ Len(a \o b) = Len(a) + Len(b)
         /\ \A i \in 1..(Len(a) + Len(b)) : (a \o b)[i] = IF i <= Len(a) THEN a[i] ELSE b[i - Len(a)]
BY ConcatProperties

\* A prefix with a name behind it, element by element.
LEMMA JoinedIs ==
  ASSUME NEW p \in Seq(Chars), NEW n \in Seq(Chars)
  PROVE  LET t == p \o <<Colon>> \o n IN
         /\ t \in Seq(Chars) /\ Len(t) = Len(p) + 1 + Len(n)
         /\ \A i \in 1..Len(p) : t[i] = p[i]
         /\ t[Len(p) + 1] = Colon
         /\ \A i \in 1..Len(n) : t[Len(p) + 1 + i] = n[i]
<1> DEFINE s == p \o <<Colon>>
<1>1. Colon \in Chars /\ <<Colon>> \in Seq(Chars) /\ Len(<<Colon>>) = 1 /\ <<Colon>>[1] = Colon
  BY DEF Chars
<1> DEFINE one == <<Colon>>
<1> HIDE DEF one
<1>2. s \in Seq(Chars) /\ Len(s) = Len(p) + 1
      /\ \A i \in 1..(Len(p) + 1) : s[i] = IF i <= Len(p) THEN p[i] ELSE one[i - Len(p)]
  BY <1>1, ConcatIs DEF one
<1>3. Len(p) \in Nat /\ Len(n) \in Nat
  OBVIOUS
<1>4. /\ \A i \in 1..Len(p) : s[i] = p[i]
      /\ s[Len(p) + 1] = Colon
  BY <1>1, <1>2, <1>3 DEF one
<1> HIDE DEF s
<1>5. s \o n \in Seq(Chars) /\ Len(s \o n) = Len(s) + Len(n)
      /\ \A i \in 1..(Len(s) + Len(n)) : (s \o n)[i] = IF i <= Len(s) THEN s[i] ELSE n[i - Len(s)]
  BY <1>2, ConcatIs
<1> DEFINE t == s \o n
<1> HIDE DEF t
<1>6. t \in Seq(Chars) /\ Len(t) = Len(p) + 1 + Len(n)
      /\ \A i \in 1..(Len(p) + 1 + Len(n)) : t[i] = IF i <= Len(p) + 1 THEN s[i] ELSE n[i - (Len(p) + 1)]
  BY <1>2, <1>5 DEF t
<1>7. /\ \A i \in 1..Len(p) : t[i] = p[i]
      /\ t[Len(p) + 1] = Colon
  BY <1>3, <1>4, <1>6
<1>8. ASSUME NEW i \in 1..Len(n) PROVE t[Len(p) + 1 + i] = n[i]
  BY <1>3, <1>6
<1> QED
  BY <1>6, <1>7, <1>8 DEF t, s

LEMMA PlainIs ==
  ASSUME NEW n, Plain(n)
  PROVE  n \in Seq(Chars) /\ Len(n) \in Nat /\ Len(n) > 0 /\ \A i \in 1..Len(n) : n[i] # Colon
BY EmptySeq DEF Plain, Range

\* The last separator is where the name begins: what was joined can be told.
LEMMA JoinInjective ==
  ASSUME NEW p \in Seq(Chars), NEW q \in Seq(Chars), NEW n, NEW m, Plain(n), Plain(m),
         p \o <<Colon>> \o n = q \o <<Colon>> \o m
  PROVE  p = q /\ n = m
<1> DEFINE t == p \o <<Colon>> \o n
<1>1. n \in Seq(Chars) /\ m \in Seq(Chars)
      /\ (\A i \in 1..Len(n) : n[i] # Colon) /\ (\A i \in 1..Len(m) : m[i] # Colon)
  BY PlainIs
<1>2. /\ t \in Seq(Chars) /\ Len(t) = Len(p) + 1 + Len(n)
      /\ \A i \in 1..Len(p) : t[i] = p[i]
      /\ t[Len(p) + 1] = Colon
      /\ \A i \in 1..Len(n) : t[Len(p) + 1 + i] = n[i]
  BY <1>1, JoinedIs
<1>3. /\ Len(t) = Len(q) + 1 + Len(m)
      /\ \A i \in 1..Len(q) : t[i] = q[i]
      /\ t[Len(q) + 1] = Colon
      /\ \A i \in 1..Len(m) : t[Len(q) + 1 + i] = m[i]
  <2> DEFINE u == q \o <<Colon>> \o m
  <2>1. /\ Len(u) = Len(q) + 1 + Len(m)
        /\ \A i \in 1..Len(q) : u[i] = q[i]
        /\ u[Len(q) + 1] = Colon
        /\ \A i \in 1..Len(m) : u[Len(q) + 1 + i] = m[i]
    BY <1>1, JoinedIs
  <2>2. t = u
    OBVIOUS
  <2> HIDE DEF t, u
  <2> QED
    BY <2>1, <2>2
<1> HIDE DEF t
<1>4. Len(p) \in Nat /\ Len(q) \in Nat /\ Len(n) \in Nat /\ Len(m) \in Nat
  BY <1>1
<1>5. ~ Len(p) < Len(q)
  <2> SUFFICES ASSUME Len(p) < Len(q) PROVE FALSE
    OBVIOUS
  <2> DEFINE i == Len(q) - Len(p)
  <2>1. i \in 1..Len(n) /\ Len(p) + 1 + i = Len(q) + 1
    BY <1>2, <1>3, <1>4
  <2> HIDE DEF i
  <2>2. t[Len(q) + 1] = n[i]
    BY <1>2, <2>1
  <2> QED
    BY <1>1, <1>3, <2>1, <2>2
<1>6. ~ Len(q) < Len(p)
  <2> SUFFICES ASSUME Len(q) < Len(p) PROVE FALSE
    OBVIOUS
  <2> DEFINE i == Len(p) - Len(q)
  <2>1. i \in 1..Len(m) /\ Len(q) + 1 + i = Len(p) + 1
    BY <1>2, <1>3, <1>4
  <2> HIDE DEF i
  <2>2. t[Len(p) + 1] = m[i]
    BY <1>3, <2>1
  <2> QED
    BY <1>1, <1>2, <2>1, <2>2
<1>7. Len(p) = Len(q) /\ Len(n) = Len(m)
  BY <1>2, <1>3, <1>4, <1>5, <1>6
<1>8. \A i \in 1..Len(p) : p[i] = q[i]
  BY <1>2, <1>3, <1>7
<1>9. \A i \in 1..Len(n) : n[i] = m[i]
  BY <1>2, <1>3, <1>7
<1> QED
  BY <1>1, <1>7, <1>8, <1>9, SeqEqual

\* A name is not one that was joined.
LEMMA JoinedHasColon ==
  ASSUME NEW p \in Seq(Chars), NEW n, NEW m, Plain(n), Plain(m)
  PROVE  p \o <<Colon>> \o n # m
<1> SUFFICES ASSUME p \o <<Colon>> \o n = m PROVE FALSE
  OBVIOUS
<1>1. n \in Seq(Chars) /\ m \in Seq(Chars) /\ \A i \in 1..Len(m) : m[i] # Colon
  BY PlainIs
<1>2. Len(m) = Len(p) + 1 + Len(n) /\ m[Len(p) + 1] = Colon
  BY <1>1, JoinedIs
<1>3. Len(p) \in Nat /\ Len(n) \in Nat
  BY <1>1
<1> QED
  BY <1>1, <1>2, <1>3

LEMMA JoinOne ==
  ASSUME NEW p \in Seq(Chars), NEW q \in Seq(Chars), NEW n, NEW m, Plain(n), Plain(m),
         Join(p, n) = Join(q, m)
  PROVE  p = q /\ n = m
<1>1. CASE p = <<>> /\ q = <<>>
  BY <1>1 DEF Join
<1>2. CASE p # <<>> /\ q = <<>>
  BY <1>2, JoinedHasColon DEF Join
<1>3. CASE p = <<>> /\ q # <<>>
  BY <1>3, JoinedHasColon DEF Join
<1>4. CASE p # <<>> /\ q # <<>>
  BY <1>4, JoinInjective DEF Join
<1> QED
  BY <1>1, <1>2, <1>3, <1>4

LEMMA JoinType ==
  ASSUME NEW p \in Seq(Chars), NEW n \in Seq(Chars)
  PROVE  Join(p, n) \in Seq(Chars)
BY JoinedIs DEF Join

\* What is joined ends as the name does.
LEMMA JoinEnds ==
  ASSUME NEW p \in Seq(Chars), NEW n, Plain(n)
  PROVE  LET t == Join(p, n) IN t \in Seq(Chars) /\ t # <<>> /\ Last(t) # Colon
<1> DEFINE t == p \o <<Colon>> \o n
<1>1. n \in Seq(Chars) /\ Len(n) \in Nat /\ Len(n) > 0 /\ n[Len(n)] # Colon
  BY PlainIs
<1>2. CASE p = <<>>
  BY <1>1, <1>2 DEF Join, Last
<1>3. CASE p # <<>>
  <2>1. t \in Seq(Chars) /\ Len(t) = Len(p) + 1 + Len(n) /\ t[Len(p) + 1 + Len(n)] = n[Len(n)]
    BY <1>1, JoinedIs
  <2> HIDE DEF t
  <2>2. t # <<>> /\ Last(t) # Colon
    BY <1>1, <2>1, EmptySeq DEF Last
  <2>3. Join(p, n) = t
    BY <1>3 DEF Join, t
  <2> QED
    BY <2>1, <2>2, <2>3
<1> QED
  BY <1>2, <1>3

LEMMA HashType ==
  ASSUME NEW p \in Seq(Chars)
  PROVE  Hash(p) \in Seq(Chars)
<1>1. <<Colon>> \in Seq(Chars) /\ <<"cache">> \in Seq(Chars)
  BY DEF Chars
<1> QED
  BY <1>1 DEF Hash

\* Prefixes that end in a name have hashes of their own.
LEMMA HashInjective ==
  ASSUME NEW p \in Seq(Chars), NEW q \in Seq(Chars),
         p # <<>>, q # <<>>, Last(p) # Colon, Last(q) # Colon, Hash(p) = Hash(q)
  PROVE  p = q
<1> DEFINE w == <<"cache">>
<1>1. w \in Seq(Chars) /\ w # <<>> /\ Colon \notin Range(w)
  BY DEF Chars, Range, Colon
<1>2. Hash(p) = p \o <<Colon>> \o w /\ Hash(q) = q \o <<Colon>> \o w
  BY DEF Hash
<1> HIDE DEF w
<1> QED
  BY <1>1, <1>2, JoinInjective DEF Plain

-----------------------------------------------------------------------------
(* The invariant.                                                          *)

AllPlain(path) == \A i \in DOMAIN path : path[i] # <<>> /\ Colon \notin Range(path[i])

Root == [prefix |-> <<>>, tracker |-> "first", path |-> <<>>]

\* Before the application is up there is nothing; a sweeper that was asked for
\* works through the tracker that every factory uses.
WiringInv ==
  /\ config \in Configs /\ sweeper \in BOOLEAN /\ backend \in {"none", "memory", "redis"}
  /\ app \in {"new", "wired", "up", "failed"} /\ swept \in {"none", "first"}
  /\ app # "up" => factories = {} /\ \A c \in Caches : caches[c] = Nil
  /\ app = "up" /\ sweeper => config.interval > 0 /\ swept = "first"

\* Every factory but the first was derived from another.
FactoriesInv ==
  /\ factories \subseteq [prefix : Seq(Chars), tracker : {"first"}, path : Seq(Names)]
  /\ \A f \in factories : f = Root \/ \E g \in factories, n \in Names : f = Derive(g, n)

\* Factories with one prefix were derived through the same names, if plain.
PrefixInv ==
  \A f, g \in factories :
    AllPlain(f.path) /\ AllPlain(g.path) /\ f.prefix = g.prefix => f.path = g.path

\* A cache is in a map of its own, or was not made by a factory, or it is in the
\* hash of its names; it is tracked while it is open.
CachesInv ==
  /\ caches \in [Caches -> CacheRecords \cup {Nil}]
  /\ tracked \in [Caches -> {"none", "first"}]
  /\ \A c \in Caches : tracked[c] = "first" => factories # {}
  /\ \A c \in Caches : caches[c] # Nil =>
       /\ \/ caches[c].store = <<"map", c>>
          \/ caches[c].path = <<>>
          \/ \E f \in factories, n \in Names :
               caches[c].path = Append(f.path, n) /\ caches[c].store = <<"hash", Hash(Join(f.prefix, n))>>
       /\ c \notin closed /\ caches[c].path # <<>> => tracked[c] = "first"

\* An open client is the cache's own, or lent.
ClientsInv ==
  /\ Lent \in clients /\ clients \subseteq Caches \cup {Lent} /\ closed \subseteq Caches
  /\ \A c \in closed : caches[c] # Nil /\ c \notin clients
  /\ \A c \in Caches : c \in clients => caches[c] # Nil /\ caches[c].client = c
  /\ \A c \in Caches : caches[c] # Nil =>
       /\ caches[c].client \in {c, Lent, Nil}
       /\ caches[c].client = c => config.url = "redis"
       /\ c \notin closed => caches[c].client \in clients \cup {Nil}

AInv == WiringInv /\ FactoriesInv /\ PrefixInv /\ CachesInv /\ ClientsInv

LEMMA AInitOK == Init => AInv
  BY ApplicationOK DEF Init, AInv, WiringInv, FactoriesInv, PrefixInv, CachesInv, ClientsInv

-----------------------------------------------------------------------------
(* The steps.                                                              *)

\* Of a path without empty names and colons, so is the last name, and the rest.
LEMMA LastPlain ==
  ASSUME NEW p \in Seq(Names), NEW n \in Names, AllPlain(Append(p, n))
  PROVE  AllPlain(p) /\ Plain(n)
<1>1. /\ Len(p) \in Nat
      /\ DOMAIN Append(p, n) = 1..(Len(p) + 1) /\ DOMAIN p = 1..Len(p)
      /\ (\A i \in 1..Len(p) : Append(p, n)[i] = p[i]) /\ Append(p, n)[Len(p) + 1] = n
  BY AppendProperties
<1>2. AllPlain(p)
  BY <1>1 DEF AllPlain
<1>3. n # <<>> /\ Colon \notin Range(n)
  <2>1. Len(p) + 1 \in DOMAIN Append(p, n)
    BY <1>1
  <2> QED
    BY <1>1, <2>1 DEF AllPlain
<1> QED
  BY <1>2, <1>3, NamesAreSeqs DEF Plain

\* What is derived from factories of different names has different prefixes.
LEMMA DeriveInjective ==
  ASSUME FactoriesInv, PrefixInv, NEW f \in factories, NEW g \in factories, NEW n \in Names, NEW m \in Names,
         AllPlain(Append(f.path, n)), AllPlain(Append(g.path, m)),
         Join(f.prefix, n) = Join(g.prefix, m)
  PROVE  f.path = g.path /\ n = m
<1>1. /\ f.path \in Seq(Names) /\ g.path \in Seq(Names)
      /\ f.prefix \in Seq(Chars) /\ g.prefix \in Seq(Chars)
      /\ n \in Seq(Chars) /\ m \in Seq(Chars)
  BY NamesAreSeqs DEF FactoriesInv
<1>2. AllPlain(f.path) /\ AllPlain(g.path) /\ Plain(n) /\ Plain(m)
  BY <1>1, LastPlain
<1>3. f.prefix = g.prefix /\ n = m
  BY <1>1, <1>2, JoinOne
<1> QED
  BY <1>2, <1>3 DEF PrefixInv

LEMMA WithNameOK ==
  ASSUME AInv, NEW f \in factories, NEW n \in Names, WithName(f, n)
  PROVE  AInv'
<1> DEFINE d == Derive(f, n)
<1>1. factories' = factories \cup {d} /\ UNCHANGED <<wiring, caches, tracked, clients, closed>>
  BY DEF WithName
<1>2. /\ f.prefix \in Seq(Chars) /\ f.path \in Seq(Names) /\ f.tracker = "first" /\ n \in Seq(Chars)
      /\ f \in [prefix : Seq(Chars), tracker : {"first"}, path : Seq(Names)]
  BY NamesAreSeqs DEF AInv, FactoriesInv
<1>3. d.prefix = Join(f.prefix, n) /\ d.path = Append(f.path, n) /\ d.tracker = "first"
  BY <1>2 DEF Derive
<1>4. d \in [prefix : Seq(Chars), tracker : {"first"}, path : Seq(Names)]
  BY <1>2, JoinType, AppendProperties DEF Derive
<1>5. FactoriesInv'
  <2>1. \E g \in factories', k \in Names : d = Derive(g, k)
    BY <1>1
  <2> HIDE DEF d
  <2> QED
    BY <1>1, <1>4, <2>1 DEF AInv, FactoriesInv
<1> HIDE DEF d
<1>6. ASSUME NEW g \in factories, AllPlain(d.path), AllPlain(g.path), d.prefix = g.prefix
      PROVE  d.path = g.path
  <2>1. CASE g = Root
    <3>1. Plain(n)
      BY <1>2, <1>3, <1>6, LastPlain
    <3>2. Join(f.prefix, n) # <<>>
      BY <1>2, <3>1, JoinEnds
    <3> QED
      BY <1>3, <1>6, <2>1, <3>2 DEF Root
  <2>2. ASSUME NEW h \in factories, NEW m \in Names, g = Derive(h, m)
        PROVE  d.path = g.path
    <3>1. g.prefix = Join(h.prefix, m) /\ g.path = Append(h.path, m)
      BY <2>2 DEF Derive
    <3>2. /\ AllPlain(Append(f.path, n)) /\ AllPlain(Append(h.path, m))
          /\ Join(f.prefix, n) = Join(h.prefix, m)
      BY <1>3, <1>6, <3>1
    <3>3. f.path = h.path /\ n = m
      BY <3>2, DeriveInjective DEF AInv
    <3> QED
      BY <1>3, <3>1, <3>3
  <2> QED
    BY <2>1, <2>2 DEF AInv, FactoriesInv
<1>7. PrefixInv'
  BY <1>1, <1>6 DEF AInv, PrefixInv
<1>8. app = "up"
  BY DEF AInv, WiringInv
<1>9. WiringInv'
  BY <1>1, <1>8 DEF AInv, WiringInv, wiring
<1>10. CachesInv' /\ ClientsInv'
  BY <1>1 DEF AInv, CachesInv, ClientsInv, wiring
<1> QED
  BY <1>5, <1>7, <1>9, <1>10 DEF AInv

\* A new cache: of a factory or the application's own.
LEMMA CreateOK ==
  ASSUME AInv, app = "up", NEW c \in Caches, NEW path \in Seq(Names),
         NEW store \in {"map", "hash"} \X (Caches \cup Seq(Chars)),
         NEW client \in {c, Lent, Nil}, NEW tracker \in {"none", "first"},
         Create(c, path, store, client, tracker),
         client = c => config.url = "redis",
         tracker = "first" => factories # {},
         path # <<>> => tracker = "first",
         \/ store = <<"map", c>>
         \/ path = <<>>
         \/ \E f \in factories, n \in Names :
              path = Append(f.path, n) /\ store = <<"hash", Hash(Join(f.prefix, n))>>
  PROVE  AInv'
<1> DEFINE r == [path |-> path, store |-> store, client |-> client]
<1>1. /\ caches[c] = Nil /\ caches' = [caches EXCEPT ![c] = r]
      /\ tracked' = [tracked EXCEPT ![c] = tracker]
      /\ clients' = IF client = c THEN clients \cup {c} ELSE clients
      /\ UNCHANGED <<wiring, factories, closed>>
  BY DEF Create
<1>2. r \in CacheRecords /\ r.path = path /\ r.store = store /\ r.client = client
  BY DEF CacheRecords
<1>3. r # Nil
  BY <1>2, NilIsNoCache
<1> HIDE DEF r
<1>4. /\ caches'[c] = r /\ tracked'[c] = tracker
      /\ caches' \in [Caches -> CacheRecords \cup {Nil}] /\ tracked' \in [Caches -> {"none", "first"}]
      /\ \A d \in Caches \ {c} : caches'[d] = caches[d] /\ tracked'[d] = tracked[d]
  BY <1>1, <1>2 DEF AInv, CachesInv
<1>5. WiringInv' /\ FactoriesInv' /\ PrefixInv'
  BY <1>1 DEF AInv, WiringInv, FactoriesInv, PrefixInv, wiring
<1>6. CachesInv'
  BY <1>1, <1>2, <1>4 DEF AInv, CachesInv
<1>7. c \notin clients /\ c \notin closed /\ c # Lent /\ Nil \notin Caches /\ Nil # Lent
  BY <1>1, ApplicationOK DEF AInv, ClientsInv
<1>8. ClientsInv'
  <2>1. Lent \in clients' /\ clients' \subseteq Caches \cup {Lent} /\ closed' \subseteq Caches
    BY <1>1 DEF AInv, ClientsInv
  <2>2. \A d \in closed' : caches'[d] # Nil /\ d \notin clients'
    BY <1>1, <1>4, <1>7 DEF AInv, ClientsInv
  <2>3. \A d \in Caches : d \in clients' => caches'[d] # Nil /\ caches'[d].client = d
    BY <1>1, <1>2, <1>3, <1>4, <1>7 DEF AInv, ClientsInv
  <2>4. ASSUME NEW d \in Caches, caches'[d] # Nil
        PROVE  /\ caches'[d].client \in {d, Lent, Nil}
               /\ caches'[d].client = d => config'.url = "redis"
               /\ d \notin closed' => caches'[d].client \in clients' \cup {Nil}
    <3>1. CASE d = c
      BY <1>1, <1>2, <1>4, <2>1, <3>1 DEF wiring
    <3>2. CASE d # c
      BY <1>1, <1>4, <2>4, <3>2 DEF wiring, AInv, ClientsInv
    <3> QED
      BY <3>1, <3>2
  <2> QED
    BY <2>1, <2>2, <2>3, <2>4 DEF ClientsInv
<1> QED
  BY <1>5, <1>6, <1>8 DEF AInv

LEMMA NewOK ==
  ASSUME AInv, NEW f \in factories, NEW n \in Names, NEW c \in Caches, New(c, f, n)
  PROVE  AInv'
<1> DEFINE path == Append(f.path, n)
           store == <<"hash", Hash(Join(f.prefix, n))>>
<1>1. /\ f.prefix \in Seq(Chars) /\ f.path \in Seq(Names) /\ f.tracker = "first" /\ n \in Seq(Chars)
  BY NamesAreSeqs DEF AInv, FactoriesInv
<1>2. app = "up"
  BY DEF AInv, WiringInv
<1>3. path \in Seq(Names)
  BY <1>1, AppendProperties
<1>4. Hash(Join(f.prefix, n)) \in Seq(Chars)
  BY <1>1, JoinType, HashType
<1>5. path = Append(f.path, n) /\ store = <<"hash", Hash(Join(f.prefix, n))>>
  OBVIOUS
<1> HIDE DEF path, store
<1>6. CASE NewMemory(c, path, "first")
  BY <1>2, <1>3, <1>6, CreateOK, ApplicationOK DEF NewMemory
<1>7. CASE NewRedis(c, path, Join(f.prefix, n), Nil, config.url, "first")
  <2>1. config.url = "redis" /\ Create(c, path, store, c, "first")
    BY <1>5, <1>7 DEF NewRedis, ClientFor
  <2>2. store \in {"map", "hash"} \X (Caches \cup Seq(Chars))
    BY <1>4, <1>5
  <2> QED
    BY <1>2, <1>3, <1>5, <2>1, <2>2, CreateOK
<1> QED
  BY <1>1, <1>5, <1>6, <1>7 DEF New

LEMMA BorrowOK ==
  ASSUME AInv, NEW n \in Names, NEW c \in Caches, Borrow(c, n)
  PROVE  AInv'
<1> DEFINE store == <<"hash", Hash(n)>>
           path == <<>>
           tracker == "none"
<1>1. app = "up" /\ Create(c, path, store, Lent, tracker)
  BY ApplicationOK DEF Borrow, NewRedis
<1>2. store \in {"map", "hash"} \X (Caches \cup Seq(Chars))
  <2>1. Hash(n) \in Seq(Chars)
    BY NamesAreSeqs, HashType
  <2> QED
    BY <2>1
<1>3. path \in Seq(Names) /\ path = <<>> /\ c # Lent
  <2>1. c # Lent
    BY ApplicationOK
  <2> QED
    BY <2>1, EmptySeq
<1>4. tracker \in {"none", "first"} /\ tracker # "first"
  OBVIOUS
<1> HIDE DEF store, path, tracker
<1> QED
  BY <1>1, <1>2, <1>3, <1>4, CreateOK

LEMMA CloseOK ==
  ASSUME AInv, NEW c \in Caches, Close(c)
  PROVE  AInv'
<1>1. /\ caches[c] # Nil
      /\ clients' = IF caches[c].client = c THEN clients \ {c} ELSE clients
      /\ tracked' = [tracked EXCEPT ![c] = "none"]
      /\ closed' = closed \cup {c}
      /\ UNCHANGED <<config, sweeper, app, backend, swept, factories, caches>>
  BY DEF Close, OwnsClient, wiring
<1>2. /\ tracked'[c] = "none" /\ tracked' \in [Caches -> {"none", "first"}]
      /\ \A d \in Caches \ {c} : tracked'[d] = tracked[d]
  BY <1>1 DEF AInv, CachesInv
<1>3. WiringInv' /\ FactoriesInv' /\ PrefixInv'
  BY <1>1 DEF AInv, WiringInv, FactoriesInv, PrefixInv
<1>4. CachesInv'
  BY <1>1, <1>2 DEF AInv, CachesInv
<1>5. c # Lent /\ Nil # Lent /\ Nil \notin Caches /\ c \notin clients'
  BY <1>1, ApplicationOK DEF AInv, ClientsInv
<1>6. clients' \subseteq clients /\ \A x \in clients : x # c => x \in clients'
  BY <1>1
<1>7. ClientsInv'
  <2>1. Lent \in clients' /\ clients' \subseteq Caches \cup {Lent} /\ closed' \subseteq Caches
    BY <1>1, <1>5, <1>6 DEF AInv, ClientsInv
  <2>2. \A d \in closed' : caches'[d] # Nil /\ d \notin clients'
    BY <1>1, <1>5, <1>6 DEF AInv, ClientsInv
  <2>3. \A d \in Caches : d \in clients' => caches'[d] # Nil /\ caches'[d].client = d
    BY <1>1, <1>6 DEF AInv, ClientsInv
  <2>4. ASSUME NEW d \in Caches, caches'[d] # Nil
        PROVE  /\ caches'[d].client \in {d, Lent, Nil}
               /\ caches'[d].client = d => config'.url = "redis"
               /\ d \notin closed' => caches'[d].client \in clients' \cup {Nil}
    BY <1>1, <1>5, <1>6, <2>4 DEF AInv, ClientsInv
  <2> QED
    BY <2>1, <2>2, <2>3, <2>4 DEF ClientsInv
<1> QED
  BY <1>3, <1>4, <1>7 DEF AInv

LEMMA ModuleOK ==
  ASSUME AInv, NEW opts, Module(opts)
  PROVE  AInv'
<1>1. /\ app = "new" /\ app' = "wired" /\ sweeper' \in BOOLEAN
      /\ UNCHANGED <<config, backend, factories, swept, caches, tracked, clients, closed>>
  BY DEF Module, Applied
<1>2. WiringInv'
  BY <1>1 DEF AInv, WiringInv
<1>3. FactoriesInv' /\ PrefixInv' /\ CachesInv' /\ ClientsInv'
  BY <1>1 DEF AInv, FactoriesInv, PrefixInv, CachesInv, ClientsInv
<1> QED
  BY <1>2, <1>3 DEF AInv

LEMMA StartOK ==
  ASSUME AInv, NEW asked \in BOOLEAN, Start(asked)
  PROVE  AInv'
<1>1. /\ app = "wired" /\ app' \in {"up", "failed"}
      /\ sweeper /\ app' = "up" => config.interval > 0 /\ swept' = "first"
      /\ app' = "failed" => UNCHANGED <<backend, factories>>
      /\ \/ factories' = {Root} /\ backend' = Backend(config.url)
         \/ UNCHANGED <<backend, factories>>
      /\ swept' \in {"none", "first"}
      /\ UNCHANGED <<config, sweeper, caches, tracked, clients, closed>>
  BY DEF Start, Root, IntervalOK
<1>2. Backend(config.url) \in {"none", "memory", "redis"}
  BY DEF Backend
<1>3. factories = {} /\ \A c \in Caches : caches[c] = Nil
  BY <1>1 DEF AInv, WiringInv
<1>4. WiringInv'
  BY <1>1, <1>2, <1>3 DEF AInv, WiringInv
<1>5. Root \in [prefix : Seq(Chars), tracker : {"first"}, path : Seq(Names)]
  BY DEF Root
<1> HIDE DEF Root
<1>6. FactoriesInv' /\ PrefixInv'
  BY <1>1, <1>3, <1>5 DEF FactoriesInv, PrefixInv
<1>7. CachesInv' /\ ClientsInv'
  BY <1>1, <1>3 DEF AInv, CachesInv, ClientsInv
<1> QED
  BY <1>4, <1>6, <1>7 DEF AInv

LEMMA AStepOK == AInv /\ [Next]_vars => AInv'
<1> SUFFICES ASSUME AInv, [Next]_vars
             PROVE  AInv'
  OBVIOUS
<1>1. CASE UNCHANGED vars
  BY <1>1 DEF vars, AInv, WiringInv, FactoriesInv, PrefixInv, CachesInv, ClientsInv
<1>2. CASE Next
  <2>1. CASE \E f \in factories, n \in Names : WithName(f, n) \/ \E c \in Caches : New(c, f, n)
    BY <2>1, WithNameOK, NewOK
  <2>2. CASE \E c \in Caches : Close(c) \/ \E n \in Names : Borrow(c, n)
    BY <2>2, CloseOK, BorrowOK
  <2> QED
    BY <1>2, <2>1, <2>2, ModuleOK, StartOK DEF Next
<1> QED
  BY <1>1, <1>2

-----------------------------------------------------------------------------
(* The theorems.                                                           *)

LEMMA AInvariant == Spec => []AInv
  BY AInitOK, AStepOK, PTL DEF Spec

\* Every variable holds a value of its kind: caches exist only after a start
\* that succeeded, and own a client only with a URL that makes one.
THEOREM TypeCorrect == Spec => []TypeOK
<1>1. AInv => TypeOK
  <2> SUFFICES ASSUME AInv PROVE TypeOK
    OBVIOUS
  <2>1. \A c \in Caches : tracked[c] \in {"none"} \cup {f.tracker : f \in factories}
    BY DEF AInv, CachesInv, FactoriesInv
  <2>2. \A c \in Caches : caches[c] # Nil =>
          /\ app = "up" /\ caches[c].client \in {c, Lent, Nil}
          /\ caches[c].client = c => config.url = "redis"
    BY DEF AInv, WiringInv, ClientsInv
  <2> QED
    BY <2>1, <2>2 DEF AInv, WiringInv, ClientsInv, TypeOK
<1> QED
  BY <1>1, AInvariant, PTL

\* An open cache has an open client, one that was lent stays open, and none
\* stays open beyond the cache that owns it (redis.go, NewRedis and Close).
THEOREM ClientsFollowCorrect == Spec => []ClientsFollow
<1>1. AInv => ClientsFollow
  BY DEF AInv, ClientsInv, ClientsFollow
<1> QED
  BY <1>1, AInvariant, PTL

\* An application that is up with a sweeper has all its factories' open caches in
\* the tracker that the sweeper works through (module.go, sweeper.go, factory.go).
THEOREM NeverSilentlyUnsweptCorrect == Spec => []NeverSilentlyUnswept
<1>1. AInv => NeverSilentlyUnswept
  BY DEF AInv, WiringInv, CachesInv, NeverSilentlyUnswept
<1> QED
  BY <1>1, AInvariant, PTL

\* Two caches whose names are neither empty nor have a colon are in one store
\* only if they bear the same names, whatever is derived from what in between,
\* and for names of any length (factory.go, New and WithName; redis.go, NewRedis).
THEOREM NamesIsolateCorrect == Spec => []NamesIsolate
<1>1. AInv => NamesIsolate
  <2> SUFFICES ASSUME AInv, NEW c \in Caches, NEW d \in Caches, caches[c] # Nil, caches[d] # Nil,
                      Proper(caches[c].path), Proper(caches[d].path), caches[c].store = caches[d].store
               PROVE  caches[c].path = caches[d].path
    BY DEF NamesIsolate
  <2>1. /\ caches[c].path # <<>> /\ AllPlain(caches[c].path)
        /\ caches[d].path # <<>> /\ AllPlain(caches[d].path)
    BY DEF Proper, AllPlain
  <2>2. ASSUME NEW x \in {c, d}, caches[x].store # <<"map", x>>
        PROVE  \E f \in factories, n \in Names :
                 caches[x].path = Append(f.path, n) /\ caches[x].store = <<"hash", Hash(Join(f.prefix, n))>>
    BY <2>1, <2>2 DEF AInv, CachesInv
  <2>3. CASE caches[c].store = <<"map", c>> \/ caches[d].store = <<"map", d>>
    <3>1. ASSUME NEW x \in {c, d}, NEW y \in {c, d}, caches[x].store = <<"map", x>>, caches[y].store = caches[x].store
          PROVE  x = y
      BY <2>2, <3>1
    <3> QED
      BY <2>3, <3>1
  <2>4. CASE caches[c].store # <<"map", c>> /\ caches[d].store # <<"map", d>>
    <3>1. PICK f \in factories, n \in Names :
            caches[c].path = Append(f.path, n) /\ caches[c].store = <<"hash", Hash(Join(f.prefix, n))>>
      BY <2>2, <2>4
    <3>2. PICK g \in factories, m \in Names :
            caches[d].path = Append(g.path, m) /\ caches[d].store = <<"hash", Hash(Join(g.prefix, m))>>
      BY <2>2, <2>4
    <3>3. /\ f.prefix \in Seq(Chars) /\ f.path \in Seq(Names) /\ n \in Seq(Chars)
          /\ g.prefix \in Seq(Chars) /\ g.path \in Seq(Names) /\ m \in Seq(Chars)
      BY NamesAreSeqs DEF AInv, FactoriesInv
    <3>4. Plain(n) /\ Plain(m)
      <4>1. AllPlain(Append(f.path, n)) /\ AllPlain(Append(g.path, m))
        BY <2>1, <3>1, <3>2
      <4> QED
        BY <3>3, <4>1, LastPlain
    <3>5. Join(f.prefix, n) = Join(g.prefix, m)
      <4> DEFINE s == Join(f.prefix, n)
                 t == Join(g.prefix, m)
      <4>1. /\ s \in Seq(Chars) /\ s # <<>> /\ Last(s) # Colon
            /\ t \in Seq(Chars) /\ t # <<>> /\ Last(t) # Colon
        BY <3>3, <3>4, JoinEnds
      <4>2. <<"hash", Hash(s)>> = <<"hash", Hash(t)>>
        BY <3>1, <3>2
      <4> HIDE DEF s, t
      <4>3. s = t
        BY <4>1, <4>2, HashInjective
      <4> QED
        BY <4>3 DEF s, t
    <3>6. f.path = g.path /\ n = m
      BY <2>1, <3>1, <3>2, <3>5, DeriveInjective DEF AInv
    <3> QED
      BY <3>1, <3>2, <3>6
  <2> QED
    BY <2>3, <2>4
<1> QED
  BY <1>1, AInvariant, PTL
===============================================================================
