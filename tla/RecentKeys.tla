----------------------------- MODULE RecentKeys -----------------------------
(***************************************************************************)
(* The recent-keys cache on its own, driven by every order of Contains and *)
(* Add calls the handlers can make.  The clock and the last-use times are  *)
(* history variables: they record what a least-recently-used cache must    *)
(* remember, independently of the list that is supposed to embody it.      *)
(***************************************************************************)
EXTENDS LruCache

CONSTANT MaxUses   \* bound on the clock, for TLC
ASSUME MaxUsesAssumption == MaxUses \in Nat

VARIABLES cache,    \* the lruCache
          clock,    \* history: number of uses so far
          lastUse   \* history: lastUse[k] is when k was last used, 0 if never
vars == <<cache, clock, lastUse>>

Init == cache = EmptyCache /\ clock = 0 /\ lastUse = [k \in Keys |-> 0]

Use(k) == clock < MaxUses /\ clock' = clock + 1 /\ lastUse' = [lastUse EXCEPT ![k] = clock + 1]

ContainsHit(k)  == Cached(cache, k)  /\ cache' = Lookup(cache, k) /\ Use(k)
ContainsMiss(k) == ~Cached(cache, k) /\ cache' = Lookup(cache, k) /\ UNCHANGED <<clock, lastUse>>
AddKey(k)       == cache' = Add(cache, k) /\ Use(k)

Next == \E k \in Keys : ContainsHit(k) \/ ContainsMiss(k) \/ AddKey(k)
Spec == Init /\ [][Next]_vars
-----------------------------------------------------------------------------
\* The list and the map have the right types, and the history is in range.
TypeOK == cache \in Caches /\ clock \in Nat /\ lastUse \in [Keys -> 0 .. clock]

\* The list and the map of lruCache agree at every unlock: a key has an entry
\* in the map exactly when one list element holds it, and no key is twice in
\* the list.  A lookup (the map) and an eviction (the list) see one cache.
ItemsMatchList ==
  /\ cache.items = {cache.ll[i] : i \in DOMAIN cache.ll}
  /\ \A i, j \in DOMAIN cache.ll : cache.ll[i] = cache.ll[j] => i = j

\* The list never grows past its capacity and is in order of last use, every key
\* left out was used before every key kept, and while there is room no used key
\* is left out: Contains and Add together evict exactly the least recently used.
RecencyOrder ==
  /\ Len(cache.ll) <= CacheCapacity
  /\ \A i, j \in DOMAIN cache.ll : i < j => lastUse[cache.ll[j]] < lastUse[cache.ll[i]]
  /\ \A k \in Keys \ cache.items, l \in cache.items : lastUse[k] < lastUse[l]
  /\ Len(cache.ll) < CacheCapacity => \A k \in Keys \ cache.items : lastUse[k] = 0
=============================================================================
