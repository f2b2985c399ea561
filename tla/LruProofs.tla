------------------------------ MODULE LruProofs ------------------------------
(* What the cache operators return, for every cache and every capacity.      *)
EXTENDS LruCache, TLAPS

\* Contains keeps the cache a cache and changes no membership.
LEMMA LookupType ==
  ASSUME NEW c \in Caches, NEW k \in Keys
  PROVE  Lookup(c, k) \in Caches /\ Lookup(c, k).items = c.items
<1>1. c.ll \in Seq(Keys) /\ c.items \in SUBSET Keys /\ c = [ll |-> c.ll, items |-> c.items]
  BY DEF Caches
<1>2. MoveToFront(c, k).ll \in Seq(Keys) /\ MoveToFront(c, k).items = c.items
      /\ MoveToFront(c, k) \in Caches
  <2> DEFINE m == [i \in DOMAIN c.ll |-> IF i = 1 THEN k
                                         ELSE IF i <= Place(c, k) THEN c.ll[i - 1]
                                         ELSE c.ll[i]]
  <2>1. \A i \in 1 .. Len(c.ll) : m[i] \in Keys
    BY <1>1
  <2>2. m \in Seq(Keys)
    BY <1>1, <2>1
  <2>3. MoveToFront(c, k) = [ll |-> m, items |-> c.items]
    <3>1. MoveToFront(c, k) = [c EXCEPT !.ll = m]
      BY Zenon DEF MoveToFront
    <3> HIDE DEF m
    <3> QED  BY <3>1 DEF Caches
  <2> QED  BY <1>1, <2>2, <2>3 DEF Caches
<1> QED  BY <1>2 DEF Lookup

\* Add keeps the cache a cache, and no key but the added one becomes a member.
LEMMA AddType ==
  ASSUME NEW c \in Caches, NEW k \in Keys
  PROVE  Add(c, k) \in Caches /\ Add(c, k).items \subseteq c.items \cup {k}
<1>1. CASE Cached(c, k)
  <2>1. Add(c, k) = Lookup(c, k)
    BY <1>1 DEF Add, Lookup
  <2> QED  BY <2>1, LookupType
<1>2. CASE ~Cached(c, k)
  <2> DEFINE p == PushFront(c, k)
  <2>1. p \in Caches /\ p.items = c.items \cup {k}
    BY DEF PushFront, Caches
  <2>2. EvictOldest(p) \in Caches /\ EvictOldest(p).items \subseteq p.items
    <3>1. CASE Len(p.ll) > CacheCapacity
      <4> HIDE DEF p
      <4>1. p.ll \in Seq(Keys) /\ p.items \in SUBSET Keys /\ Len(p.ll) \in Nat \ {0}
        BY <2>1, <3>1, CapacityAssumption DEF Caches
      <4>2. SubSeq(p.ll, 1, Len(p.ll) - 1) \in Seq(Keys)
        BY <4>1
      <4> QED  BY <3>1, <4>1, <4>2 DEF EvictOldest, Caches
    <3>2. CASE ~(Len(p.ll) > CacheCapacity)
      BY <2>1, <3>2 DEF EvictOldest
    <3> QED  BY <3>1, <3>2
  <2>3. Add(c, k) = EvictOldest(p)
    BY <1>2 DEF Add
  <2> QED  BY <2>1, <2>2, <2>3
<1> QED  BY <1>1, <1>2
-----------------------------------------------------------------------------
(* What the cache operators do to the list. *)

\* The list and the map of one cache agree.
Matched(c) ==
  /\ c.items = {c.ll[i] : i \in DOMAIN c.ll}
  /\ \A i, j \in DOMAIN c.ll : c.ll[i] = c.ll[j] => i = j

\* List d has k first, and then elements of list c in the order they had there.
Fronted(d, c, k) ==
  /\ Len(d) \in Nat \ {0} /\ d[1] = k
  /\ \E from \in [2 .. Len(d) -> DOMAIN c] :
       /\ \A i \in 2 .. Len(d) : d[i] = c[from[i]] /\ d[i] # k
       /\ \A i, j \in 2 .. Len(d) : i < j => from[i] < from[j]

LEMMA MoveToFrontList ==
  ASSUME NEW c \in Caches, Matched(c), NEW k \in c.items
  PROVE  /\ Fronted(MoveToFront(c, k).ll, c.ll, k)
         /\ Len(MoveToFront(c, k).ll) = Len(c.ll)
         /\ MoveToFront(c, k).items = c.items
         /\ {MoveToFront(c, k).ll[i] : i \in DOMAIN MoveToFront(c, k).ll} = c.items
         /\ DOMAIN MoveToFront(c, k).ll = DOMAIN c.ll
<1>1. /\ c.ll \in Seq(Keys) /\ c = [ll |-> c.ll, items |-> c.items]
      /\ DOMAIN c.ll = 1 .. Len(c.ll) /\ Len(c.ll) \in Nat
  BY DEF Caches
<1>2. PICK p \in 1 .. Len(c.ll) : p = Place(c, k) /\ c.ll[p] = k
  BY <1>1 DEF Matched, Place
<1> DEFINE m == [i \in 1 .. Len(c.ll) |-> IF i = 1 THEN k
                                          ELSE IF i <= p THEN c.ll[i - 1] ELSE c.ll[i]]
           from == [i \in 2 .. Len(c.ll) |-> IF i <= p THEN i - 1 ELSE i]
<1>3. MoveToFront(c, k) = [ll |-> m, items |-> c.items]
  <2> DEFINE f == [i \in DOMAIN c.ll |-> IF i = 1 THEN k
                                         ELSE IF i <= Place(c, k) THEN c.ll[i - 1] ELSE c.ll[i]]
  <2>0. c = [ll |-> c.ll, items |-> c.items]  BY <1>1
  <2>1. MoveToFront(c, k) = [ll |-> f, items |-> c.items]  BY <2>0 DEF MoveToFront
  <2>2. f = m  BY <1>1, <1>2
  <2> QED  BY <2>1, <2>2
<1>4. Len(m) = Len(c.ll) /\ DOMAIN m = 1 .. Len(c.ll)
  <2>1. m \in Seq(Keys)
    <3>1. \A i \in 1 .. Len(c.ll) : m[i] \in Keys  BY <1>1, <1>2
    <3> QED  BY <1>1, <3>1
  <2> QED  BY <1>1, <2>1
<1>5. /\ from \in [2 .. Len(c.ll) -> DOMAIN c.ll]
      /\ \A i \in 2 .. Len(c.ll) : m[i] = c.ll[from[i]] /\ from[i] # p
      /\ \A i, j \in 2 .. Len(c.ll) : i < j => from[i] < from[j]
  BY <1>1, <1>2
<1>6. m[1] = k  BY <1>1, <1>2
<1>7. \A j \in 1 .. Len(c.ll) : j # p => \E i \in 2 .. Len(c.ll) : from[i] = j
  <2> SUFFICES ASSUME NEW j \in 1 .. Len(c.ll), j # p
               PROVE  \E i \in 2 .. Len(c.ll) : from[i] = j
    OBVIOUS
  <2>1. CASE j < p
    <3>1. j + 1 \in 2 .. Len(c.ll) /\ from[j + 1] = j  BY <1>1, <1>2, <2>1
    <3> QED  BY <3>1
  <2>2. CASE j > p
    <3>1. j \in 2 .. Len(c.ll) /\ from[j] = j  BY <1>1, <1>2, <2>2
    <3> QED  BY <3>1
  <2> HIDE DEF m, from
  <2>3. j \in Nat /\ p \in Nat  BY <1>1, <1>2
  <2>4. j < p \/ j > p  BY <2>3
  <2> QED  BY <2>1, <2>2, <2>4
<1> HIDE DEF m, from
<1>8. Fronted(m, c.ll, k)
  <2>1. \A i \in 2 .. Len(m) : m[i] # k
    BY <1>1, <1>2, <1>4, <1>5 DEF Matched
  <2> QED  BY <1>1, <1>2, <1>4, <1>5, <1>6, <2>1 DEF Fronted
<1>9. {m[i] : i \in 1 .. Len(c.ll)} = c.items
  <2>1. \A i \in 1 .. Len(c.ll) : m[i] \in c.items
    <3>1. \A i \in 2 .. Len(c.ll) : m[i] \in c.items  BY <1>1, <1>5 DEF Matched
    <3> QED  BY <1>1, <1>6, <3>1
  <2>2. ASSUME NEW l \in c.items PROVE \E i \in 1 .. Len(c.ll) : m[i] = l
    <3>1. PICK j \in 1 .. Len(c.ll) : c.ll[j] = l  BY <1>1 DEF Matched
    <3>2. CASE j = p  BY <1>1, <1>2, <1>6, <3>1, <3>2
    <3>3. CASE j # p
      <4>1. PICK i \in 2 .. Len(c.ll) : from[i] = j  BY <1>7, <3>3
      <4> QED  BY <1>1, <1>5, <3>1, <4>1
    <3> QED  BY <3>2, <3>3
  <2> QED  BY <2>1, <2>2
<1> QED  BY <1>1, <1>3, <1>4, <1>8, <1>9

LEMMA AddNewList ==
  ASSUME NEW c \in Caches, Matched(c), Len(c.ll) <= CacheCapacity, NEW k \in Keys \ c.items
  PROVE  /\ Fronted(Add(c, k).ll, c.ll, k)
         /\ Matched(Add(c, k))
         /\ Len(Add(c, k).ll) <= CacheCapacity
         /\ \/ Len(c.ll) < CacheCapacity /\ Add(c, k).items = c.items \cup {k}
            \/ /\ Len(c.ll) = CacheCapacity /\ Len(Add(c, k).ll) = CacheCapacity
               /\ Add(c, k).items = (c.items \cup {k}) \ {c.ll[Len(c.ll)]}
<1> DEFINE n == Len(c.ll)
           q == PushFront(c, k)
<1>1. /\ c.ll \in Seq(Keys) /\ n \in Nat /\ DOMAIN c.ll = 1 .. n
      /\ CacheCapacity \in Nat \ {0}
  BY CapacityAssumption DEF Caches
<1>2. /\ q.items = c.items \cup {k} /\ q.ll \in Seq(Keys) /\ Len(q.ll) = n + 1
      /\ q.ll[1] = k /\ \A i \in 2 .. n + 1 : q.ll[i] = c.ll[i - 1]
  BY <1>1 DEF PushFront
<1>3. Add(c, k) = EvictOldest(q)  BY DEF Add, Cached
<1>4. \A i \in 1 .. n : c.ll[i] \in c.items /\ c.ll[i] # k  BY <1>1 DEF Matched
<1>5. ASSUME NEW d, NEW len \in {n, n + 1}, Len(d) = len, d \in Seq(Keys), len > 0,
             \A i \in 1 .. len : d[i] = q.ll[i]
      PROVE  /\ Fronted(d, c.ll, k)
             /\ {d[i] : i \in DOMAIN d} = {k} \cup {c.ll[i] : i \in 1 .. len - 1}
             /\ \A i, j \in DOMAIN d : d[i] = d[j] => i = j
  <2> DEFINE from == [i \in 2 .. len |-> i - 1]
  <2>1. DOMAIN d = 1 .. len  BY <1>5
  <2>2. d[1] = k /\ \A i \in 2 .. len : d[i] = c.ll[i - 1] /\ i - 1 \in 1 .. n
    BY <1>1, <1>2, <1>5
  <2>3. \A i \in 2 .. len : d[i] # k  BY <1>4, <2>2
  <2>4. /\ from \in [2 .. len -> 1 .. n] /\ \A i \in 2 .. len : from[i] = i - 1
        /\ \A i, j \in 2 .. len : i < j => from[i] < from[j]
    BY <1>1, <1>5, <2>2
  <2> HIDE DEF from
  <2>5. Fronted(d, c.ll, k)
    <3>1. Len(d) \in Nat \ {0}  BY <1>1, <1>5
    <3>2. \A i \in 2 .. len : d[i] = c.ll[from[i]] /\ d[i] # k  BY <2>2, <2>3, <2>4
    <3> QED  BY <1>1, <1>5, <2>2, <2>4, <3>1, <3>2 DEF Fronted
  <2>6. \A i, j \in 1 .. len : d[i] = d[j] => i = j
    <3> SUFFICES ASSUME NEW i \in 1 .. len, NEW j \in 1 .. len, d[i] = d[j] PROVE i = j
      OBVIOUS
    <3>1. (i = 1 \/ i \in 2 .. len) /\ (j = 1 \/ j \in 2 .. len)  BY <1>1, <1>5
    <3>2. CASE i = 1 \/ j = 1  BY <2>2, <2>3, <3>1, <3>2
    <3>3. CASE i \in 2 .. len /\ j \in 2 .. len
      <4>1. i - 1 \in DOMAIN c.ll /\ j - 1 \in DOMAIN c.ll /\ c.ll[i - 1] = c.ll[j - 1]
        BY <1>1, <2>2, <3>3
      <4>2. i - 1 = j - 1  BY <4>1 DEF Matched
      <4> QED  BY <1>1, <1>5, <3>3, <4>2
    <3> QED  BY <3>1, <3>2, <3>3
  <2>7. {d[i] : i \in 1 .. len} = {k} \cup {c.ll[i] : i \in 1 .. len - 1}
    <3>1. \A i \in 1 .. len : d[i] \in {k} \cup {c.ll[h] : h \in 1 .. len - 1}
      <4> SUFFICES ASSUME NEW i \in 2 .. len PROVE \E h \in 1 .. len - 1 : d[i] = c.ll[h]
        BY <1>1, <1>5, <2>2
      <4>1. i - 1 \in 1 .. len - 1  BY <1>1, <1>5
      <4> QED  BY <2>2, <4>1
    <3>2. \A h \in 1 .. len - 1 : \E i \in 1 .. len : d[i] = c.ll[h]
      <4> TAKE h \in 1 .. len - 1
      <4>1. h + 1 \in 2 .. len /\ h + 1 \in 1 .. len /\ (h + 1) - 1 = h  BY <1>1, <1>5
      <4> QED  BY <2>2, <4>1
    <3>3. \E i \in 1 .. len : d[i] = k  BY <1>1, <1>5, <2>2
    <3> QED  BY <3>1, <3>2, <3>3
  <2> QED  BY <2>1, <2>5, <2>6, <2>7
<1>6. CASE n < CacheCapacity
  <2>1. Add(c, k) = q  BY <1>1, <1>2, <1>3, <1>6 DEF EvictOldest
  <2>2. /\ Fronted(q.ll, c.ll, k)
        /\ {q.ll[i] : i \in DOMAIN q.ll} = {k} \cup {c.ll[i] : i \in 1 .. n}
        /\ \A i, j \in DOMAIN q.ll : q.ll[i] = q.ll[j] => i = j
    <3> HIDE DEF q
    <3>1. n + 1 > 0 /\ (n + 1) - 1 = n /\ n + 1 \in {n, n + 1}  BY <1>1
    <3> QED  BY <1>2, <1>5, <3>1
  <2> HIDE DEF q
  <2>3. Matched(q)  BY <1>1, <1>2, <2>2 DEF Matched
  <2> QED  BY <1>1, <1>2, <1>6, <2>1, <2>2, <2>3
<1>7. CASE n = CacheCapacity
  <2> DEFINE d == SubSeq(q.ll, 1, Len(q.ll) - 1)
  <2>1. Add(c, k) = [ll |-> d, items |-> q.items \ {q.ll[Len(q.ll)]}]
    BY <1>1, <1>2, <1>3, <1>7 DEF EvictOldest
  <2> HIDE DEF q
  <2>2. Len(d) = n /\ d \in Seq(Keys) /\ \A i \in 1 .. n : d[i] = q.ll[i]  BY <1>1, <1>2
  <2>3. q.ll[Len(q.ll)] = c.ll[n]  BY <1>1, <1>2, <1>7
  <2> HIDE DEF d
  <2>4. /\ Fronted(d, c.ll, k)
        /\ {d[i] : i \in DOMAIN d} = {k} \cup {c.ll[i] : i \in 1 .. n - 1}
        /\ \A i, j \in DOMAIN d : d[i] = d[j] => i = j
    <3>1. n > 0 /\ n \in {n, n + 1}  BY <1>1, <1>7
    <3> QED  BY <1>5, <2>2, <3>1
  <2>5. (c.items \cup {k}) \ {c.ll[n]} = {k} \cup {c.ll[i] : i \in 1 .. n - 1}
    <3>1. n \in 1 .. n /\ c.ll[n] # k  BY <1>1, <1>4, <1>7
    <3>2. \A i \in 1 .. n - 1 : i \in 1 .. n /\ c.ll[i] # c.ll[n]
      BY <1>1, <1>7, <3>1 DEF Matched
    <3>3. \A i \in 1 .. n : i = n \/ i \in 1 .. n - 1  BY <1>1
    <3>4. c.items = {c.ll[i] : i \in 1 .. n}  BY <1>1 DEF Matched
    <3> QED  BY <3>1, <3>2, <3>3, <3>4
  <2>6. Matched([ll |-> d, items |-> (c.items \cup {k}) \ {c.ll[n]}])
    <3> DEFINE e == [ll |-> d, items |-> (c.items \cup {k}) \ {c.ll[n]}]
    <3>1. e.ll = d /\ e.items = {k} \cup {c.ll[i] : i \in 1 .. n - 1}  BY <2>5
    <3> HIDE DEF e
    <3>2. e.items = {d[i] : i \in DOMAIN d}  BY <2>4, <3>1
    <3>3. e.items = {e.ll[i] : i \in DOMAIN e.ll}  BY <3>1, <3>2
    <3>4. \A i, j \in DOMAIN e.ll : e.ll[i] = e.ll[j] => i = j  BY <2>4, <3>1
    <3>5. Matched(e)  BY <3>3, <3>4 DEF Matched
    <3> QED  BY <3>5 DEF e
  <2> QED  BY <1>1, <1>2, <1>7, <2>1, <2>2, <2>3, <2>4, <2>6
<1> QED  BY <1>1, <1>6, <1>7

\* Moving an element to the front keeps the list and the map in agreement.
LEMMA MoveToFrontMatched ==
  ASSUME NEW c \in Caches, Matched(c), NEW k \in c.items
  PROVE  Matched(MoveToFront(c, k))
<1> DEFINE d == MoveToFront(c, k)
<1>1. /\ Fronted(d.ll, c.ll, k) /\ Len(d.ll) = Len(c.ll) /\ d.items = c.items
      /\ {d.ll[i] : i \in DOMAIN d.ll} = c.items /\ DOMAIN d.ll = DOMAIN c.ll
  BY MoveToFrontList
<1>2. DOMAIN c.ll = 1 .. Len(c.ll) /\ Len(c.ll) \in Nat  BY DEF Caches
<1> HIDE DEF d
<1>3. \A i, j \in 1 .. Len(c.ll) : d.ll[i] = d.ll[j] => i = j
  <2> SUFFICES ASSUME NEW i \in 1 .. Len(c.ll), NEW j \in 1 .. Len(c.ll), d.ll[i] = d.ll[j]
               PROVE  i = j
    OBVIOUS
  <2>1. PICK from \in [2 .. Len(c.ll) -> DOMAIN c.ll] :
          /\ \A h \in 2 .. Len(c.ll) : d.ll[h] = c.ll[from[h]] /\ d.ll[h] # k
          /\ \A g, h \in 2 .. Len(c.ll) : g < h => from[g] < from[h]
    BY <1>1 DEF Fronted
  <2>2. d.ll[1] = k  BY <1>1 DEF Fronted
  <2>3. (i = 1 \/ i \in 2 .. Len(c.ll)) /\ (j = 1 \/ j \in 2 .. Len(c.ll))  BY <1>2
  <2>4. CASE i = 1 \/ j = 1  BY <2>1, <2>2, <2>3, <2>4
  <2>5. CASE i \in 2 .. Len(c.ll) /\ j \in 2 .. Len(c.ll)
    <3>1. from[i] = from[j]  BY <2>1, <2>5 DEF Matched
    <3>2. from[i] \in Nat /\ ~(i < j) /\ ~(j < i)  BY <1>2, <2>1, <2>5, <3>1
    <3> QED  BY <1>2, <2>5, <3>2
  <2> QED  BY <2>3, <2>4, <2>5
<1> QED  BY <1>1, <1>2, <1>3 DEF Matched, d
=============================================================================
