------------------------------ MODULE MCIngest ------------------------------
(* An event and its retry, and an event the gate cannot bind; two consumers. *)
EXTENDS Ingest, TLC
CONSTANTS m1, m2, m3, c1, c2

One   == {c1}
Both  == {c1, c2}
OneKey == {m1}
Twice == {m1, m2}
Mixed == {m1, m2, m3}
Odd       == {m3} \cap Messages
MCOrigin  == [m \in Messages |-> IF m = m2 THEN m1 ELSE m]
MCVersion == [m \in Messages |-> 1]
Nothing == {}
Symmetry == Permutations(Consumers)
=============================================================================
