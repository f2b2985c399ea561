---------------------------- MODULE MCRecentKeys ----------------------------
(* Five keys and room for three: hits, refreshes and evictions all happen,   *)
(* and eight uses are enough to fill the cache, evict every key it held and  *)
(* add one of them again.                                                    *)
EXTENDS RecentKeys, TLC
Symmetry == Permutations(Keys)
=============================================================================
