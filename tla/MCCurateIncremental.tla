------------------------ MODULE MCCurateIncremental ------------------------
(* Two batches of two rows.  The bits of the two keys of batch 0 together    *)
(* cover those of the first key of batch 1: a false positive.                *)
EXTENDS CurateIncremental, TLC
CONSTANTS o1, o2

One == {o1}
Two == {o1, o2}
MCPositions ==
  [k \in (0 .. 1) \X (0 .. 1) |->
     CASE k = <<0, 0>> -> {0, 1} [] k = <<0, 1>> -> {2, 3} [] k = <<1, 0>> -> {1, 2}
       [] k = <<1, 1>> -> {3, 4}]
Symmetry == Permutations(Operators)
=============================================================================
