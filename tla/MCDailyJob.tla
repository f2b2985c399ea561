----------------------------- MODULE MCDailyJob -----------------------------
(* Two daily jobs, one after the other or at once, and one publisher whose    *)
(* Scan reads the whole outbox.  Three objects, two of which carry the same   *)
(* key, the one with the later ts first or second.                            *)
EXTENDS DailyJob
CONSTANTS j1, j2, p1, o1, o2, o3, k1, k2

TwoJobs      == {j1, j2}
OnePublisher == {p1}
MCOrder      == <<j1, j2>>
ThreeObjects == {o1, o2, o3}
MCKey        == [o \in ThreeObjects |-> IF o = o3 THEN k2 ELSE k1]
InTwo        == {{o2}, ThreeObjects}
MCTs         == [o \in ThreeObjects |-> IF o = o2 THEN 2 ELSE 1]
=============================================================================
