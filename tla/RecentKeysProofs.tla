-------------------------- MODULE RecentKeysProofs --------------------------
(***************************************************************************)
(* Proofs about the recent-keys cache: whatever the handlers look up and   *)
(* add, in any order, its list and its map agree, and what it keeps are    *)
(* exactly the keys used last, for any keys and any capacity.              *)
(***************************************************************************)
EXTENDS RecentKeys, LruProofs
-----------------------------------------------------------------------------
(* The order of last use. *)

\* Cache c holds the keys that history u says were used last, in that order.
Ordered(c, u) ==
  /\ Len(c.ll) <= CacheCapacity
  /\ \A i, j \in DOMAIN c.ll : i < j => u[c.ll[j]] < u[c.ll[i]]
  /\ \A k \in Keys \ c.items, l \in c.items : u[k] < u[l]
  /\ Len(c.ll) < CacheCapacity => \A k \in Keys \ c.items : u[k] = 0

\* A list that has the key just used in front, and the others as they were, is
\* in order of last use.
LEMMA FrontedOrder ==
  ASSUME NEW c \in Caches, NEW d \in Caches, NEW k \in Keys, NEW now \in Nat,
         NEW u \in [Keys -> 0 .. now], Ordered(c, u), Fronted(d.ll, c.ll, k)
  PROVE  LET v == [u EXCEPT ![k] = now + 1]
         IN  \A i, j \in DOMAIN d.ll : i < j => v[d.ll[j]] < v[d.ll[i]]
<1> DEFINE v == [u EXCEPT ![k] = now + 1]
<1>1. /\ DOMAIN c.ll = 1 .. Len(c.ll) /\ DOMAIN d.ll = 1 .. Len(d.ll)
      /\ Len(c.ll) \in Nat /\ Len(d.ll) \in Nat
      /\ \A i \in DOMAIN c.ll : c.ll[i] \in Keys
  BY DEF Caches
<1>2. d.ll[1] = k  BY DEF Fronted
<1>3. PICK from \in [2 .. Len(d.ll) -> DOMAIN c.ll] :
        /\ \A i \in 2 .. Len(d.ll) : d.ll[i] = c.ll[from[i]] /\ d.ll[i] # k
        /\ \A i, j \in 2 .. Len(d.ll) : i < j => from[i] < from[j]
  BY DEF Fronted
<1>4. \A l \in Keys : v[l] = IF l = k THEN now + 1 ELSE u[l]  OBVIOUS
<1> HIDE DEF v
<1> SUFFICES ASSUME NEW i \in DOMAIN d.ll, NEW j \in DOMAIN d.ll, i < j
             PROVE  v[d.ll[j]] < v[d.ll[i]]
  BY DEF v
<1>5. j \in 2 .. Len(d.ll) /\ (i = 1 \/ i \in 2 .. Len(d.ll))  BY <1>1
<1>6. /\ from[j] \in DOMAIN c.ll /\ d.ll[j] = c.ll[from[j]] /\ c.ll[from[j]] \in Keys
      /\ v[d.ll[j]] = u[c.ll[from[j]]] /\ u[c.ll[from[j]]] \in 0 .. now
  BY <1>1, <1>3, <1>4, <1>5
<1>7. CASE i = 1
  <2>1. v[d.ll[i]] = now + 1  BY <1>2, <1>4, <1>7
  <2> QED  BY <1>6, <2>1
<1>8. CASE i \in 2 .. Len(d.ll)
  <2>1. /\ from[i] \in DOMAIN c.ll /\ d.ll[i] = c.ll[from[i]] /\ c.ll[from[i]] \in Keys
        /\ v[d.ll[i]] = u[c.ll[from[i]]]
    BY <1>1, <1>3, <1>4, <1>8
  <2>2. from[i] < from[j]  BY <1>3, <1>5, <1>8
  <2> QED  BY <1>6, <2>1, <2>2 DEF Ordered
<1> QED  BY <1>5, <1>7, <1>8

\* Using a key that is kept leaves the rest of the order alone.
LEMMA HitOrdered ==
  ASSUME NEW c \in Caches, Matched(c), NEW k \in c.items, NEW now \in Nat,
         NEW u \in [Keys -> 0 .. now], Ordered(c, u)
  PROVE  Ordered(MoveToFront(c, k), [u EXCEPT ![k] = now + 1])
<1> DEFINE d == MoveToFront(c, k)
           v == [u EXCEPT ![k] = now + 1]
<1>1. /\ Fronted(d.ll, c.ll, k) /\ Len(d.ll) = Len(c.ll) /\ d.items = c.items
  BY MoveToFrontList
<1>2. c.items \subseteq Keys  BY DEF Caches
<1>3. d \in Caches  BY <1>2, LookupType DEF Lookup, Cached
<1>4. \A i, j \in DOMAIN d.ll : i < j => v[d.ll[j]] < v[d.ll[i]]
  <2> HIDE DEF d
  <2> QED  BY <1>1, <1>2, <1>3, FrontedOrder
<1>5. \A l \in Keys : u[l] \in 0 .. now /\ v[l] = IF l = k THEN now + 1 ELSE u[l]  OBVIOUS
<1> HIDE DEF d, v
<1>6. \A g \in Keys \ d.items, l \in d.items : v[g] < v[l]
  <2> SUFFICES ASSUME NEW g \in Keys \ c.items, NEW l \in c.items PROVE v[g] < v[l]
    BY <1>1
  <2>1. u[g] < u[l] /\ l \in Keys /\ g # k  BY <1>2 DEF Ordered
  <2> QED  BY <1>5, <2>1
<1>7. Len(d.ll) < CacheCapacity => \A g \in Keys \ d.items : v[g] = 0
  BY <1>1, <1>5 DEF Ordered
<1>8. Len(d.ll) <= CacheCapacity  BY <1>1 DEF Ordered
<1>9. Ordered(d, v)  BY <1>4, <1>6, <1>7, <1>8 DEF Ordered
<1> QED  BY <1>9 DEF d, v

\* Adding a new key puts out, when there is no room, the key used longest ago.
LEMMA AddOrdered ==
  ASSUME NEW c \in Caches, Matched(c), NEW k \in Keys \ c.items, NEW now \in Nat,
         NEW u \in [Keys -> 0 .. now], Ordered(c, u)
  PROVE  Ordered(Add(c, k), [u EXCEPT ![k] = now + 1])
<1> DEFINE d == Add(c, k)
           v == [u EXCEPT ![k] = now + 1]
           n == Len(c.ll)
<1>1. /\ Fronted(d.ll, c.ll, k) /\ Len(d.ll) <= CacheCapacity
      /\ \/ n < CacheCapacity /\ d.items = c.items \cup {k}
         \/ /\ n = CacheCapacity /\ Len(d.ll) = CacheCapacity
            /\ d.items = (c.items \cup {k}) \ {c.ll[n]}
  BY AddNewList DEF Ordered
<1>2. d \in Caches  BY AddType
<1>3. /\ c.items \subseteq Keys /\ n \in Nat /\ DOMAIN c.ll = 1 .. n
      /\ CacheCapacity \in Nat \ {0}
  BY CapacityAssumption DEF Caches
<1>4. \A i, j \in DOMAIN d.ll : i < j => v[d.ll[j]] < v[d.ll[i]]
  <2> HIDE DEF d
  <2> QED  BY <1>1, <1>2, FrontedOrder
<1>5. \A l \in Keys : u[l] \in 0 .. now /\ v[l] = IF l = k THEN now + 1 ELSE u[l]  OBVIOUS
<1> HIDE DEF d, v
<1>6. CASE n < CacheCapacity /\ d.items = c.items \cup {k}
  <2>1. \A g \in Keys \ d.items : u[g] = 0 /\ v[g] = 0  BY <1>3, <1>5, <1>6 DEF Ordered
  <2>2. \A g \in Keys \ d.items, l \in d.items : v[g] < v[l]
    <3> SUFFICES ASSUME NEW g \in Keys \ d.items, NEW l \in d.items PROVE v[g] < v[l]
      OBVIOUS
    <3>1. g \in Keys \ c.items /\ v[g] = 0  BY <1>6, <2>1
    <3>2. CASE l = k  BY <1>5, <3>1, <3>2
    <3>3. CASE l # k
      <4>1. l \in c.items /\ l \in Keys /\ u[g] < u[l]
        BY <1>3, <1>6, <3>1, <3>3 DEF Ordered
      <4>2. u[g] = 0 /\ v[l] = u[l]  BY <1>5, <2>1, <3>3, <4>1
      <4> QED  BY <3>1, <4>1, <4>2
    <3> QED  BY <3>2, <3>3
  <2> QED  BY <1>1, <1>4, <2>1, <2>2 DEF Ordered, d, v
<1>7. CASE /\ n = CacheCapacity /\ Len(d.ll) = CacheCapacity
           /\ d.items = (c.items \cup {k}) \ {c.ll[n]}
  <2>1. n \in 1 .. n /\ c.ll[n] \in c.items /\ c.ll[n] \in Keys /\ c.ll[n] # k
    <3>1. n \in 1 .. n  BY <1>3, <1>7
    <3> QED  BY <1>3, <3>1 DEF Matched
  <2>2. \A l \in c.items \ {c.ll[n]} : u[c.ll[n]] < u[l]
    <3> SUFFICES ASSUME NEW l \in c.items \ {c.ll[n]} PROVE u[c.ll[n]] < u[l]
      OBVIOUS
    <3>1. PICK i \in 1 .. n : c.ll[i] = l  BY <1>3 DEF Matched
    <3>2. i < n  BY <1>3, <3>1
    <3> QED  BY <1>3, <2>1, <3>1, <3>2 DEF Ordered
  <2>3. \A g \in Keys \ d.items, l \in d.items : v[g] < v[l]
    <3> SUFFICES ASSUME NEW g \in Keys \ d.items, NEW l \in d.items PROVE v[g] < v[l]
      OBVIOUS
    <3>1. g # k /\ (g = c.ll[n] \/ g \in Keys \ c.items)  BY <1>7, <2>1
    <3>2. v[g] = u[g] /\ u[g] \in 0 .. now  BY <1>5, <3>1
    <3>3. CASE l = k  BY <1>5, <3>2, <3>3
    <3>4. CASE l # k
      <4>1. l \in c.items \ {c.ll[n]} /\ l \in Keys /\ v[l] = u[l]
        BY <1>3, <1>5, <1>7, <3>4
      <4>2. u[g] < u[l]  BY <2>2, <3>1, <4>1 DEF Ordered
      <4> QED  BY <3>2, <4>1, <4>2
    <3> QED  BY <3>3, <3>4
  <2>4. ~(Len(d.ll) < CacheCapacity)  BY <1>3, <1>7
  <2> QED  BY <1>1, <1>4, <2>3, <2>4 DEF Ordered, d, v
<1> QED  BY <1>1, <1>6, <1>7
-----------------------------------------------------------------------------
\* The inductive invariant: each of the three properties needs the others.
RecentInv == TypeOK /\ ItemsMatchList /\ RecencyOrder

LEMMA RecentParts ==
  RecentInv <=> TypeOK /\ Matched(cache) /\ Ordered(cache, lastUse)
BY DEF RecentInv, ItemsMatchList, Matched, RecencyOrder, Ordered

LEMMA RecentInit == Init => RecentInv
<1> SUFFICES ASSUME Init PROVE RecentInv
  OBVIOUS
<1>1. cache = [ll |-> << >>, items |-> {}] /\ clock = 0 /\ lastUse = [k \in Keys |-> 0]
  BY DEF Init, EmptyCache
<1>2. TypeOK
  <2>1. << >> \in Seq(Keys)  OBVIOUS
  <2> QED  BY <1>1, <2>1 DEF TypeOK, Caches
<1>3. Len(<< >>) = 0 /\ DOMAIN << >> = {}  OBVIOUS
<1>4. Matched(cache)  BY <1>1, <1>3 DEF Matched
<1>5. Ordered(cache, lastUse)  BY <1>1, <1>3, CapacityAssumption DEF Ordered
<1> QED  BY <1>2, <1>4, <1>5, RecentParts

\* A use writes the history as the lemmas above suppose.
LEMMA UseType ==
  ASSUME RecentInv, NEW k \in Keys, Use(k)
  PROVE  /\ clock \in Nat /\ clock' \in Nat /\ lastUse \in [Keys -> 0 .. clock]
         /\ lastUse' = [lastUse EXCEPT ![k] = clock + 1] /\ lastUse' \in [Keys -> 0 .. clock']
<1>1. clock \in Nat /\ lastUse \in [Keys -> 0 .. clock]  BY DEF RecentInv, TypeOK
<1>2. clock' = clock + 1 /\ lastUse' = [lastUse EXCEPT ![k] = clock + 1]  BY DEF Use
<1>3. \A l \in Keys : lastUse'[l] \in 0 .. clock + 1  BY <1>1, <1>2
<1> QED  BY <1>1, <1>2, <1>3

\* Moving a kept key to the front, as Contains and Add both do, is a step that
\* preserves the invariant.
LEMMA HitStep ==
  ASSUME RecentInv, NEW k \in Keys, Cached(cache, k), cache' = MoveToFront(cache, k), Use(k)
  PROVE  RecentInv'
<1>1. cache \in Caches /\ Matched(cache) /\ Ordered(cache, lastUse) /\ k \in cache.items
  BY RecentParts DEF RecentInv, TypeOK, Cached
<1>2. cache' \in Caches  BY <1>1, LookupType DEF Lookup, Cached
<1>3. Matched(cache')  BY <1>1, MoveToFrontMatched
<1>4. Ordered(cache', lastUse')  BY <1>1, HitOrdered, UseType
<1>5. TypeOK'  BY <1>2, UseType DEF TypeOK
<1> QED
  <2>1. ItemsMatchList'  BY <1>3 DEF Matched, ItemsMatchList
  <2>2. RecencyOrder'  BY <1>4 DEF Ordered, RecencyOrder
  <2> QED  BY <1>5, <2>1, <2>2 DEF RecentInv

LEMMA RecentStep == RecentInv /\ [Next]_vars => RecentInv'
<1> SUFFICES ASSUME RecentInv, [Next]_vars PROVE RecentInv'
  OBVIOUS
<1>1. CASE UNCHANGED vars
  BY <1>1 DEF vars, RecentInv, TypeOK, ItemsMatchList, RecencyOrder
<1>2. ASSUME NEW k \in Keys, ContainsHit(k) PROVE RecentInv'
  BY <1>2, HitStep DEF ContainsHit, Lookup
<1>3. ASSUME NEW k \in Keys, ContainsMiss(k) PROVE RecentInv'
  <2>1. UNCHANGED vars  BY <1>3 DEF ContainsMiss, Lookup, vars
  <2> QED  BY <1>1, <2>1
<1>4. ASSUME NEW k \in Keys, AddKey(k) PROVE RecentInv'
  <2>1. CASE Cached(cache, k)  BY <1>4, <2>1, HitStep DEF AddKey, Add
  <2>2. CASE ~Cached(cache, k)
    <3>1. /\ cache \in Caches /\ Matched(cache) /\ Ordered(cache, lastUse)
          /\ k \in Keys \ cache.items
      BY <2>2, RecentParts DEF RecentInv, TypeOK, Cached
    <3>2. cache' = Add(cache, k) /\ Use(k)  BY <1>4 DEF AddKey
    <3>3. cache' \in Caches  BY <3>1, <3>2, AddType
    <3>4. Matched(cache')
      <4>1. Len(cache.ll) <= CacheCapacity  BY <3>1 DEF Ordered
      <4> QED  BY <3>1, <3>2, <4>1, AddNewList
    <3>5. Ordered(cache', lastUse')  BY <3>1, <3>2, AddOrdered, UseType
    <3>6. TypeOK'  BY <3>2, <3>3, UseType DEF TypeOK
    <3>7. ItemsMatchList'  BY <3>4 DEF Matched, ItemsMatchList
    <3>8. RecencyOrder'  BY <3>5 DEF Ordered, RecencyOrder
    <3> QED  BY <3>6, <3>7, <3>8 DEF RecentInv
  <2> QED  BY <2>1, <2>2
<1> QED  BY <1>1, <1>2, <1>3, <1>4 DEF Next

LEMMA RecentAlways == Spec => []RecentInv
<1> QED  BY RecentInit, RecentStep, PTL DEF Spec

\* The cache stays a cache whatever the handlers look up and add.
THEOREM CacheTypeCorrect == Spec => []TypeOK
BY RecentAlways, PTL DEF RecentInv

\* The list and the map of lruCache agree after every Contains and every Add,
\* for any number of keys and any recentKeysCacheCapacity.
THEOREM CacheItemsMatch == Spec => []ItemsMatchList
BY RecentAlways, PTL DEF RecentInv

\* lruCache is a least-recently-used cache: moveToFront and evictOldest keep the
\* list in order of last use, and what it leaves out was used before all it keeps.
THEOREM CacheKeepsRecent == Spec => []RecencyOrder
BY RecentAlways, PTL DEF RecentInv
=============================================================================
