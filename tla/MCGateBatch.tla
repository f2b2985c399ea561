----------------------------- MODULE MCGateBatch -----------------------------
(* One /accept call beside two batches.  Batch b1 carries a key twice and a   *)
(* second key, b2 the second key only: with one item per BatchWriteItem there *)
(* are several chunks, partly written batches and races between all three.    *)
EXTENDS GateBatch
CONSTANTS r1, e1, e2, e3, e4, b1, b2, k1, k2

TwoKeys     == {k1, k2}
OneRequest  == {r1}
TwoBatches  == {b1, b2}
AllEvents   == {r1, e1, e2, e3, e4}
Nobody      == {}
MCKeyOf     == [e \in Events |-> IF e \in {e3, e4} THEN k2 ELSE k1]
MCItems     == [b \in Batches |-> IF b = b1 THEN <<e1, e2, e3>> ELSE <<e4>>]
=============================================================================
