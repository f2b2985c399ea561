----------------------------- MODULE Provision -----------------------------
(***************************************************************************)
(* Setting up the AWS resources: bootstrap.py, then the deployment that    *)
(* statemachine.py starts each daily job with (roles of iam_setup.py,      *)
(* Lambdas, state machines).  Each resource is looked up, then created or  *)
(* adjusted, by calls that may fail; a session that failed is repeated     *)
(* over what it left, and two sessions may overlap.                        *)
(*                                                                         *)
(* AWS is external.  Tables, roles and functions can be created once only; *)
(* other creations are idempotent.  A new function is pending for a while  *)
(* and an updated one is updating; neither can be updated meanwhile.       *)
(***************************************************************************)
EXTENDS Naturals, Sequences

CONSTANTS
  Sessions,     \* make demo, make demo, ...
  Unlisted,     \* names that, existing, are not on the first page of a listing
  Earlier,      \* what an earlier version created with other parameters, which no
                \* call of this version sets again
  MaxRepeats,   \* bound on how often a session that went through is repeated
  MaxFailures   \* bound on calls that fail

\* main of bootstrap.py
Bootstrap == <<
  <<"bucket", "txn-raw">>, <<"bucket", "txn-curated">>, <<"bucket", "txn-quarantine">>,
  <<"queue", "txn-audit-dlq">>, <<"queue", "txn-validation-queue">>, <<"queue", "txn-audit-queue">>,
  <<"topic", "txn-events">>,
  <<"subscription", "txn-validation-queue">>, <<"subscription", "txn-audit-queue">>,
  <<"topic", "txn-curation-events">>, <<"queue", "txn-curation-events-queue">>,
  <<"subscription", "txn-curation-events-queue">>,
  <<"table", "txn-idempotency">>, <<"table", "txn-gate-metrics">>, <<"table", "txn-curation-jobs">>,
  <<"table", "txn-outbox">>, <<"table", "txn-curated-keys">> >>
\* Mutant of Deploy: the Lambdas before their roles.
DeployLambdasFirst == <<
  <<"function", "txn-preflight">>, <<"function", "txn-record-status">>,
  <<"role", "txn-preflight-role">>, <<"role", "txn-record-status-role">>,
  <<"role", "txn-sfn-execution-role">>,
  <<"machine", "txn-daily-preflight">>, <<"machine", "txn-daily-postflight">> >>
\* the first half of run_daily_job, and --deploy-only
Deploy == <<
  <<"role", "txn-preflight-role">>, <<"role", "txn-record-status-role">>,
  <<"role", "txn-sfn-execution-role">>,
  <<"function", "txn-preflight">>, <<"function", "txn-record-status">>,
  <<"machine", "txn-daily-preflight">>, <<"machine", "txn-daily-postflight">> >>

\* A resource is known by its place in the program.
Program   == Bootstrap \o Deploy
Resources == DOMAIN Program
Kind(r)   == Program[r][1]
Name(r)   == Program[r][2]
Functions == {r \in Resources : Kind(r) = "function"}
Redriven  == {r \in Resources : Program[r] \in {<<"queue", "txn-validation-queue">>, <<"queue", "txn-audit-queue">>}}

\* A bucket and a topic are created with a name alone, and set_queue_attributes sets all
\* that a redriven queue is created with.  The rest keeps something of its creation: the
\* raw delivery of a subscription, the key of a table, the trust policy of a role, the
\* role, runtime and handler of a function, the role of a state machine.
Lasting == {r \in Resources \ Redriven : Kind(r) \notin {"bucket", "topic"}}

ASSUME ProvisionAssumption ==
  MaxRepeats \in Nat /\ MaxFailures \in Nat /\ Earlier \subseteq Lasting

\* What a resource names when it is created.
Named(r) ==
  CASE r \in Redriven -> {<<"queue", "txn-audit-dlq">>}
    [] Program[r] = <<"subscription", "txn-curation-events-queue">> ->
         {<<"queue", "txn-curation-events-queue">>, <<"topic", "txn-curation-events">>}
    [] Kind(r) = "subscription" /\ Name(r) # "txn-curation-events-queue" ->
         {<<"queue", Name(r)>>, <<"topic", "txn-events">>}
    [] Program[r] = <<"function", "txn-preflight">> -> {<<"role", "txn-preflight-role">>}
    [] Program[r] = <<"function", "txn-record-status">> -> {<<"role", "txn-record-status-role">>}
    [] Kind(r) = "machine" -> {<<"role", "txn-sfn-execution-role">>}
    [] OTHER -> {}
Needs == [r \in Resources |-> {n \in Resources : Program[n] \in Named(r)}]

VARIABLES
  cloud,     \* absent, bare (a role without policy), old (with an earlier version's
             \* redrive, policy, code or definition), pending, updating or ready
  params,    \* whose parameters it was created with: nobody's, an earlier version's, this
  session,   \* each session: the call it is at, the resource, what its listing showed,
             \* whether it overlapped another, and how often it was repeated
  failures
account == <<cloud, params>>
vars == <<account, session, failures>>

Ended == {"idle", "raised", "refused", "busy", "done"}
Active(s) == session[s].pc \notin Ended
\* Mutant of Adjusted: an existing queue is left as it is.
AdjustedNoQueue(r) == Kind(r) \in {"role", "function", "machine"}
Adjusted(r) == r \in Redriven \/ Kind(r) \in {"role", "function", "machine"}
CreatedOnce == {"table", "role", "function"}
Settling(r) == cloud[r] \in {"pending", "updating"}

\* Mutant of FirstCall: tables are created without a look.
FirstCallBlind(n, seen) == IF Kind(n) \in {"topic", "table"} THEN "create" ELSE "look"
\* topics are created without a look; the machines are listed once, before the first
FirstCall(n, seen) ==
  IF Kind(n) = "topic" THEN "create"
  ELSE IF Kind(n) = "machine" /\ Kind(n - 1) = "machine"
       THEN IF n \in seen THEN "adjust" ELSE "create"
  ELSE "look"

\* An account nobody has used, or one set up by an earlier version of the repository,
\* which knew no redrive, and other policies, code and definitions, and created some
\* resources otherwise.
Init ==
  /\ \/ cloud = [r \in Resources |-> "absent"] /\ params = [r \in Resources |-> "nobody"]
     \/ /\ cloud = [r \in Resources |-> IF Adjusted(r) THEN "old" ELSE "ready"]
        /\ params = [r \in Resources |-> IF r \in Redriven \cup Earlier THEN "earlier" ELSE "this"]
  /\ session = [s \in Sessions |-> [pc |-> "idle", at |-> 1, seen |-> {}, alone |-> TRUE, again |-> 0]]
  /\ failures = 0
-----------------------------------------------------------------------------
At(s) == session[s].at
Goto(s, call) == session' = [session EXCEPT ![s].pc = call]
\* The exception ends the process of the session.
Quit(s, how) == session' = [session EXCEPT ![s].pc = how, ![s].at = 1, ![s].seen = {}]
\* The next resource, or the end.
NextResource(s, seen) ==
  LET n == session[s].at + 1 IN
  session' = [session EXCEPT ![s].at = n, ![s].seen = seen,
                ![s].pc = IF n > Len(Program) THEN "done" ELSE FirstCall(n, seen)]
Made(r) == IF Kind(r) = "role" THEN "bare" ELSE IF Kind(r) = "function" THEN "pending" ELSE "ready"
-----------------------------------------------------------------------------
\* An operator starts a session, or repeats one.
Start(s) ==
  /\ ~Active(s)
  /\ session[s].pc = "done" => session[s].again < MaxRepeats
  /\ session' = [t \in Sessions |->
       IF t = s THEN [pc |-> "look", at |-> 1, seen |-> {}, alone |-> \A u \in Sessions : ~Active(u),
                      again |-> IF session[s].pc = "done" THEN session[s].again + 1 ELSE session[s].again]
       ELSE [session[t] EXCEPT !.alone = @ /\ ~Active(t)]]
  /\ UNCHANGED <<account, failures>>

\* list_buckets, get_queue_url, list_subscriptions_by_topic, list_tables, list_roles,
\* list_functions, list_state_machines: of what is paged, the first page, whatever else
\* there is.
Look(s) ==
  LET r == At(s)
      seen == {q \in Resources : Kind(q) = Kind(r) /\ cloud[q] # "absent"
                                   /\ (Name(q) \notin Unlisted \/ Kind(q) \in {"bucket", "queue"})}
  IN
  /\ session[s].pc = "look"
  /\ IF r \in seen /\ ~Adjusted(r) THEN NextResource(s, {})
     ELSE session' = [session EXCEPT ![s].seen = IF Kind(r) = "machine" THEN seen ELSE {},
                                     ![s].pc = IF r \in seen THEN "adjust" ELSE "create"]
  /\ UNCHANGED <<account, failures>>

\* create_bucket, create_queue, create_topic, subscribe, create_table, create_role,
\* create_function, create_state_machine.  What exists is refused or, when it is as it
\* would be created and not of a kind created once, returned.
Refuses(r) ==
  /\ cloud[r] # "absent"
  /\ \/ Kind(r) \in CreatedOnce \/ cloud[r] = "old"
     \/ Kind(r) = "subscription" /\ params[r] = "earlier"
CreateEffect(r) ==
  IF cloud[r] = "absent"
  THEN cloud' = [cloud EXCEPT ![r] = Made(r)] /\ params' = [params EXCEPT ![r] = "this"]
  ELSE UNCHANGED account
Create(s) ==
  LET r == At(s) IN
  /\ session[s].pc = "create"
  /\ IF Refuses(r) THEN Quit(s, "refused") /\ UNCHANGED account
     ELSE /\ CreateEffect(r)
          /\ IF Kind(r) = "role" THEN Goto(s, "adjust")
             ELSE IF Kind(r) = "function" THEN Goto(s, "wait")
             ELSE NextResource(s, session[s].seen)
  /\ UNCHANGED failures

\* set_queue_attributes, put_role_policy, update_function_code, update_state_machine: each
\* replaces the redrive, the policy, the code or the definition, and leaves the trust policy
\* and the role, runtime and handler the resource was created with.
AdjustEffect(r) ==
  /\ cloud' = IF Kind(r) # "function" THEN [cloud EXCEPT ![r] = "ready"]
              ELSE IF Settling(r) THEN cloud ELSE [cloud EXCEPT ![r] = "updating"]
  /\ params' = IF Kind(r) = "queue" THEN [params EXCEPT ![r] = "this"] ELSE params
\* An update of a function that is still settling is refused: the session ends "busy".
Adjust(s) ==
  LET r == At(s) IN
  /\ session[s].pc = "adjust" /\ AdjustEffect(r)
  /\ IF Kind(r) # "function" THEN NextResource(s, session[s].seen)
     ELSE IF Settling(r) THEN Quit(s, "busy") ELSE Goto(s, "wait")
  /\ UNCHANGED failures

\* _wait_active looks at State alone, which an update leaves Active.
Wait(s) ==
  /\ session[s].pc = "wait" /\ cloud[At(s)] # "pending"
  /\ NextResource(s, {}) /\ UNCHANGED <<account, failures>>

\* A call raises, having taken effect or not, or _wait_active times out.
CallFails(s) ==
  /\ Active(s) /\ failures < MaxFailures /\ failures' = failures + 1
  /\ Quit(s, "raised")
  /\ \/ UNCHANGED account
     \/ session[s].pc = "create" /\ CreateEffect(At(s))
     \/ session[s].pc = "adjust" /\ AdjustEffect(At(s))

\* AWS: a function becomes Active, an update becomes effective.
Settle(r) ==
  /\ Settling(r) /\ cloud' = [cloud EXCEPT ![r] = "ready"]
  /\ UNCHANGED <<params, session, failures>>

Call(s) == Look(s) \/ Create(s) \/ Adjust(s) \/ Wait(s)
Next ==
  \/ \E s \in Sessions : Start(s) \/ Call(s) \/ CallFails(s)
  \/ \E r \in Functions : Settle(r)

\* Sessions go on, AWS finishes what it began, and an operator repeats a session that
\* ended with an exception.
Fairness ==
  /\ \A s \in Sessions : WF_vars(Call(s)) /\ WF_vars(session[s].pc # "done" /\ Start(s))
  /\ \A r \in Functions : WF_vars(Settle(r))
Spec == Init /\ [][Next]_vars /\ Fairness
-----------------------------------------------------------------------------
\* Whatever fails and however sessions overlap, nothing is ever created before what it
\* names: no subscription without its topic and queue, no redrive to a missing DLQ, no
\* function or state machine whose role has yet to get its policy.
NothingDangles ==
  \A r \in Resources : cloud[r] # "absent" =>
    \A n \in Needs[r] : cloud[n] \notin {"absent", "bare"}

\* A session that went through has made everything of this version effective, whoever
\* created the resources - earlier versions, failed sessions, or one that ran at the same
\* time: every redrive policy, role policy, code and definition is this version's (only the
\* new code of a function may take effect later), and so are the parameters each resource
\* was created with.  Excepted are those of a resource that an earlier version created
\* otherwise and that keeps them: a function its role and handler, a state machine its
\* role, a subscription its delivery, a role its trust policy, a table its key.
DoneIsReady ==
  \A s \in Sessions : session[s].pc = "done" => \A r \in Resources :
    /\ cloud[r] = "ready" \/ (Kind(r) = "function" /\ cloud[r] = "updating")
    /\ params[r] = "this" \/ (params[r] = "earlier" /\ r \in Lasting)

\* "Idempotent creation" (bootstrap.py:2): a session that overlaps no other and whose
\* calls do not fail is refused nothing, whatever failed sessions or earlier versions have
\* left.  It may only come too early for a function that is still settling.
Repeatable == \A s \in Sessions : session[s].pc = "refused" => ~session[s].alone

\* Repeating what failed leads to a complete set-up in the end, though two operators
\* repeat at once and refuse each other's creations.
EverySessionCompletes == \A s \in Sessions : Active(s) ~> session[s].pc = "done"
=============================================================================
