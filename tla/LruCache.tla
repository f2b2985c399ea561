------------------------------ MODULE LruCache ------------------------------
(***************************************************************************)
(* The bounded recent-keys cache of the gate (lruCache in main.go): a      *)
(* doubly linked list, most recently used key first, and a map from key to *)
(* list element that answers lookups.  Every method holds the mutex from   *)
(* its first line to its return, so each is one atomic operator here.      *)
(***************************************************************************)
EXTENDS Naturals, Sequences

CONSTANTS Keys,          \* idempotency keys
          CacheCapacity  \* recentKeysCacheCapacity

ASSUME CapacityAssumption == CacheCapacity \in Nat \ {0}

\* Mutants of the operators below, each a plausible slip in the code.
EvictOldestKeepsItem(c) ==
  IF Len(c.ll) > CacheCapacity
  THEN [c EXCEPT !.ll = SubSeq(@, 1, Len(@) - 1)]
  ELSE c
MoveToFrontNot(c, k) == c
-----------------------------------------------------------------------------
\* The list and the key set of the map; the list elements the map points to
\* are found by their value.
EmptyCache == [ll |-> << >>, items |-> {}]

Cached(c, k) == k \in c.items

Place(c, k) == CHOOSE i \in DOMAIN c.ll : c.ll[i] = k

MoveToFront(c, k) ==
  [c EXCEPT !.ll = [i \in DOMAIN @ |-> IF i = 1 THEN k
                                       ELSE IF i <= Place(c, k) THEN @[i - 1]
                                       ELSE @[i]]]

PushFront(c, k) == [ll |-> <<k>> \o c.ll, items |-> c.items \cup {k}]

EvictOldest(c) ==
  IF Len(c.ll) > CacheCapacity
  THEN [ll |-> SubSeq(c.ll, 1, Len(c.ll) - 1), items |-> c.items \ {c.ll[Len(c.ll)]}]
  ELSE c

\* What Contains answers is Cached; this is what it leaves behind.
Lookup(c, k) == IF Cached(c, k) THEN MoveToFront(c, k) ELSE c

Add(c, k) == IF Cached(c, k) THEN MoveToFront(c, k) ELSE EvictOldest(PushFront(c, k))

Caches == [ll : Seq(Keys), items : SUBSET Keys]
=============================================================================
