---------------------------- MODULE MCProvision ----------------------------
(* Two sessions, each repeated once although it went through, over a new       *)
(* account and over one where an earlier version created a resource of each   *)
(* lasting kind otherwise.                                                    *)
EXTENDS Provision
CONSTANTS s1, s2

Two     == {s1, s2}
Nothing == {}
Others  == {r \in Resources : Program[r] \in
              {<<"subscription", "txn-audit-queue">>, <<"table", "txn-outbox">>,
               <<"role", "txn-preflight-role">>, <<"function", "txn-preflight">>,
               <<"machine", "txn-daily-postflight">>}}
=============================================================================
