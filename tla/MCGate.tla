------------------------------- MODULE MCGate -------------------------------
(* Requests for two keys, two of them for the same one, through a cache with *)
(* room for one key: concurrent winners and losers of a key, cache hits,     *)
(* misses and evictions all happen.                                          *)
EXTENDS Gate, TLC
CONSTANTS r1, r2, s1, s2, k1, k2

Pair     == {r1, r2}
Trio     == {r1, r2, s1}
WithOdd  == {r1, r2, s2}
Nobody   == {}
Odd      == {s2}
TwoKeys  == {k1, k2}
MCKeyOf  == [e \in Events |-> IF e \in {s1, s2} THEN k2 ELSE k1]

\* Requests with the same key are interchangeable.
Alike == {p \in Permutations(Requests) : \A r \in Requests :
           KeyOf[p[r]] = KeyOf[r] /\ (p[r] \in Malformed <=> r \in Malformed)}
=============================================================================
