-------------------------- MODULE ProvisionProofs --------------------------
(***************************************************************************)
(* Proofs about setting up the AWS resources: nothing dangles, a session   *)
(* that went through leaves everything ready, and a set-up can be          *)
(* repeated, for any number of sessions, overlaps and failed calls.        *)
(***************************************************************************)
EXTENDS Provision, SequenceTheorems, TLAPS
-----------------------------------------------------------------------------
(* The program: the order of bootstrap.py and of run_daily_job. *)

Steps == {Bootstrap[i] : i \in 1 .. 17} \cup {Deploy[i] : i \in 1 .. 7}

LEMMA BootstrapSeq == Bootstrap \in Seq(Steps) /\ Len(Bootstrap) = 17
<1>1. Len(Bootstrap) = 17  BY DEF Bootstrap
<1>2. Bootstrap = [i \in 1 .. 17 |-> Bootstrap[i]]  BY DEF Bootstrap
<1>3. \A i \in 1 .. 17 : Bootstrap[i] \in Steps  BY DEF Steps
<1> QED  BY <1>1, <1>2, <1>3

LEMMA DeploySeq == Deploy \in Seq(Steps) /\ Len(Deploy) = 7
<1>1. Len(Deploy) = 7  BY DEF Deploy
<1>2. Deploy = [i \in 1 .. 7 |-> Deploy[i]]  BY DEF Deploy
<1>3. \A i \in 1 .. 7 : Deploy[i] \in Steps  BY DEF Steps
<1> QED  BY <1>1, <1>2, <1>3

LEMMA ProgramParts ==
  /\ Len(Program) = 24 /\ Resources = 1 .. 24
  /\ \A i \in 1 .. 17 : Program[i] = Bootstrap[i]
  /\ \A i \in 18 .. 24 : Program[i] = Deploy[i - 17]
<1>1. /\ Program \in Seq(Steps) /\ Len(Program) = 24
      /\ \A i \in 1 .. 24 : Program[i] = IF i <= 17 THEN Bootstrap[i] ELSE Deploy[i - 17]
  <2>1. Len(Bootstrap) = 17 /\ Len(Deploy) = 7  BY BootstrapSeq, DeploySeq
  <2>2. Program \in Seq(Steps)  BY BootstrapSeq, DeploySeq, ConcatProperties DEF Program
  <2>3. Len(Program) = Len(Bootstrap) + Len(Deploy)
    BY BootstrapSeq, DeploySeq, ConcatProperties DEF Program
  <2>4. \A i \in 1 .. Len(Bootstrap) + Len(Deploy) : Program[i] =
           IF i <= Len(Bootstrap) THEN Bootstrap[i] ELSE Deploy[i - Len(Bootstrap)]
    BY BootstrapSeq, DeploySeq, ConcatProperties DEF Program
  <2> QED  BY <2>1, <2>2, <2>3, <2>4
<1>2. Resources = 1 .. 24  BY <1>1 DEF Resources
<1> QED  BY <1>1, <1>2

LEMMA ProgramIs ==
  /\ Program[1] = <<"bucket", "txn-raw">>
  /\ Program[2] = <<"bucket", "txn-curated">>
  /\ Program[3] = <<"bucket", "txn-quarantine">>
  /\ Program[4] = <<"queue", "txn-audit-dlq">>
  /\ Program[5] = <<"queue", "txn-validation-queue">>
  /\ Program[6] = <<"queue", "txn-audit-queue">>
  /\ Program[7] = <<"topic", "txn-events">>
  /\ Program[8] = <<"subscription", "txn-validation-queue">>
  /\ Program[9] = <<"subscription", "txn-audit-queue">>
  /\ Program[10] = <<"topic", "txn-curation-events">>
  /\ Program[11] = <<"queue", "txn-curation-events-queue">>
  /\ Program[12] = <<"subscription", "txn-curation-events-queue">>
  /\ Program[13] = <<"table", "txn-idempotency">>
  /\ Program[14] = <<"table", "txn-gate-metrics">>
  /\ Program[15] = <<"table", "txn-curation-jobs">>
  /\ Program[16] = <<"table", "txn-outbox">>
  /\ Program[17] = <<"table", "txn-curated-keys">>
  /\ Program[18] = <<"role", "txn-preflight-role">>
  /\ Program[19] = <<"role", "txn-record-status-role">>
  /\ Program[20] = <<"role", "txn-sfn-execution-role">>
  /\ Program[21] = <<"function", "txn-preflight">>
  /\ Program[22] = <<"function", "txn-record-status">>
  /\ Program[23] = <<"machine", "txn-daily-preflight">>
  /\ Program[24] = <<"machine", "txn-daily-postflight">>
<1>1. /\ Bootstrap[1] = <<"bucket", "txn-raw">>
      /\ Bootstrap[2] = <<"bucket", "txn-curated">>
      /\ Bootstrap[3] = <<"bucket", "txn-quarantine">>
      /\ Bootstrap[4] = <<"queue", "txn-audit-dlq">>
      /\ Bootstrap[5] = <<"queue", "txn-validation-queue">>
      /\ Bootstrap[6] = <<"queue", "txn-audit-queue">>
      /\ Bootstrap[7] = <<"topic", "txn-events">>
      /\ Bootstrap[8] = <<"subscription", "txn-validation-queue">>
      /\ Bootstrap[9] = <<"subscription", "txn-audit-queue">>
      /\ Bootstrap[10] = <<"topic", "txn-curation-events">>
      /\ Bootstrap[11] = <<"queue", "txn-curation-events-queue">>
      /\ Bootstrap[12] = <<"subscription", "txn-curation-events-queue">>
  BY DEF Bootstrap
<1>2. /\ Bootstrap[13] = <<"table", "txn-idempotency">>
      /\ Bootstrap[14] = <<"table", "txn-gate-metrics">>
      /\ Bootstrap[15] = <<"table", "txn-curation-jobs">>
      /\ Bootstrap[16] = <<"table", "txn-outbox">>
      /\ Bootstrap[17] = <<"table", "txn-curated-keys">>
  BY DEF Bootstrap
<1>3. /\ Deploy[1] = <<"role", "txn-preflight-role">>
      /\ Deploy[2] = <<"role", "txn-record-status-role">>
      /\ Deploy[3] = <<"role", "txn-sfn-execution-role">>
      /\ Deploy[4] = <<"function", "txn-preflight">>
      /\ Deploy[5] = <<"function", "txn-record-status">>
      /\ Deploy[6] = <<"machine", "txn-daily-preflight">>
      /\ Deploy[7] = <<"machine", "txn-daily-postflight">>
  BY DEF Deploy
<1> QED  BY <1>1, <1>2, <1>3, ProgramParts

\* Where in the program the resources are that others name.
LEMMA Places ==
  \A n \in Resources :
    /\ Program[n] = <<"queue", "txn-audit-dlq">> => n = 4
    /\ Program[n] = <<"queue", "txn-validation-queue">> => n = 5
    /\ Program[n] = <<"queue", "txn-audit-queue">> => n = 6
    /\ Program[n] = <<"topic", "txn-events">> => n = 7
    /\ Program[n] = <<"topic", "txn-curation-events">> => n = 10
    /\ Program[n] = <<"queue", "txn-curation-events-queue">> => n = 11
    /\ Program[n] = <<"subscription", "txn-curation-events-queue">> => n = 12
    /\ Program[n] = <<"role", "txn-preflight-role">> => n = 18
    /\ Program[n] = <<"role", "txn-record-status-role">> => n = 19
    /\ Program[n] = <<"role", "txn-sfn-execution-role">> => n = 20
    /\ Program[n] = <<"function", "txn-preflight">> => n = 21
    /\ Program[n] = <<"function", "txn-record-status">> => n = 22
    /\ Kind(n) = "subscription" => n \in {8, 9, 12}
    /\ Kind(n) = "machine" <=> n \in {23, 24}
    /\ Kind(n) = "function" <=> n \in {21, 22}
    /\ Kind(n) = "role" <=> n \in {18, 19, 20}
    /\ Kind(n) = "topic" <=> n \in {7, 10}
    /\ Kind(n) = "bucket" <=> n \in {1, 2, 3}
    /\ Kind(n) = "queue" <=> n \in {4, 5, 6, 11}
  BY ProgramIs, ProgramParts DEF Kind

\* What a resource names comes before it.
LEMMA NeedsBefore ==
  ASSUME NEW r \in Resources, NEW n \in Needs[r]
  PROVE  n \in Resources /\ n < r
<1>1. n \in Resources /\ Program[n] \in Named(r)  BY DEF Needs
<1>2. CASE r \in Redriven
  <2>1. r \in {5, 6}  BY <1>2, Places DEF Redriven
  <2>2. Named(r) = {<<"queue", "txn-audit-dlq">>}
    BY <1>2, <2>1, ProgramIs DEF Named, Kind
  <2> QED  BY <1>1, <2>1, <2>2, Places
<1>3. CASE r = 12
  <2>1. Named(r) = {<<"queue", "txn-curation-events-queue">>, <<"topic", "txn-curation-events">>}
    BY <1>3, ProgramIs DEF Named, Kind, Redriven, Name
  <2> QED  BY <1>1, <1>3, <2>1, Places
<1>4. CASE r \in {8, 9}
  <2>1. Named(r) = {<<"queue", Name(r)>>, <<"topic", "txn-events">>}
    BY <1>4, ProgramIs DEF Named, Kind, Redriven, Name
  <2>2. Name(r) \in {"txn-validation-queue", "txn-audit-queue"}  BY <1>4, ProgramIs DEF Name
  <2>3. n \in {5, 6, 7}  BY <1>1, <2>1, <2>2, Places
  <2> QED  BY <1>1, <1>4, <2>3
<1>5. CASE r = 21
  <2>1. Named(r) = {<<"role", "txn-preflight-role">>}
    BY <1>5, ProgramIs DEF Named, Kind, Redriven, Name
  <2> QED  BY <1>1, <1>5, <2>1, Places
<1>6. CASE r = 22
  <2>1. Named(r) = {<<"role", "txn-record-status-role">>}
    BY <1>6, ProgramIs DEF Named, Kind, Redriven, Name
  <2> QED  BY <1>1, <1>6, <2>1, Places
<1>7. CASE r \in {23, 24}
  <2>1. Named(r) = {<<"role", "txn-sfn-execution-role">>}
    BY <1>7, ProgramIs DEF Named, Kind, Redriven, Name
  <2> QED  BY <1>1, <1>7, <2>1, Places
<1>8. CASE r \notin Redriven \cup {8, 9, 12, 21, 22, 23, 24}
  <2>1. Named(r) = {}  BY <1>8, Places DEF Named
  <2> QED  BY <1>1, <2>1
<1> QED  BY <1>2, <1>3, <1>4, <1>5, <1>6, <1>7, <1>8
-----------------------------------------------------------------------------
(* What the updates of a session do. *)

Calls == {"look", "create", "adjust", "wait"} \cup Ended
SessionState ==
  [pc : Calls, at : 1 .. 25, seen : SUBSET Resources, alone : BOOLEAN, again : Nat]
SessionsTyped == session \in [Sessions -> SessionState]

\* Nothing but the call of the session changes.
SameButCall(v, w) ==
  w.at = v.at /\ w.seen = v.seen /\ w.alone = v.alone /\ w.again = v.again

LEMMA GotoMoves ==
  ASSUME SessionsTyped, NEW s \in Sessions, NEW call \in Calls, Goto(s, call)
  PROVE  /\ SessionsTyped' /\ session'[s].pc = call /\ SameButCall(session[s], session'[s])
         /\ \A t \in Sessions : t # s => session'[t] = session[t]
  BY DEF SessionsTyped, Goto, SessionState, SameButCall

LEMMA QuitMoves ==
  ASSUME SessionsTyped, NEW s \in Sessions, NEW how \in Calls, Quit(s, how)
  PROVE  /\ SessionsTyped' /\ session'[s].pc = how /\ session'[s].at = 1 /\ session'[s].seen = {}
         /\ session'[s].alone = session[s].alone
         /\ \A t \in Sessions : t # s => session'[t] = session[t]
<1> DEFINE new == [session[s] EXCEPT !.pc = how, !.at = 1, !.seen = {}]
<1>1. session' = [session EXCEPT ![s] = new]  BY DEF Quit, SessionsTyped, SessionState
<1>2. 1 \in 1 .. 25 /\ {} \in SUBSET Resources  OBVIOUS
<1>3. /\ new \in SessionState /\ new.pc = how /\ new.at = 1 /\ new.seen = {}
      /\ new.alone = session[s].alone
  BY <1>2 DEF SessionsTyped, SessionState
<1> HIDE DEF new
<1> QED  BY <1>1, <1>3 DEF SessionsTyped

LEMMA NextResourceMoves ==
  ASSUME SessionsTyped, NEW s \in Sessions, NEW seen \in SUBSET Resources,
         session[s].at \in Resources, NextResource(s, seen)
  PROVE  /\ SessionsTyped' /\ session'[s].at = session[s].at + 1 /\ session'[s].seen = seen
         /\ session'[s].alone = session[s].alone
         /\ session'[s].pc = IF session[s].at = 24 THEN "done"
                             ELSE FirstCall(session[s].at + 1, seen)
         /\ \A t \in Sessions : t # s => session'[t] = session[t]
<1> DEFINE n == session[s].at + 1
           pc == IF n > Len(Program) THEN "done" ELSE FirstCall(n, seen)
           new == [session[s] EXCEPT !.at = n, !.seen = seen, !.pc = pc]
<1>1. n \in 1 .. 25 /\ (n > Len(Program) <=> session[s].at = 24)  BY ProgramParts
<1>2. pc \in Calls  BY DEF FirstCall, Calls, Ended
<1>3. session' = [session EXCEPT ![s] = new]  BY DEF NextResource, SessionsTyped, SessionState
<1> HIDE DEF pc
<1>4. /\ new \in SessionState /\ new.at = n /\ new.seen = seen /\ new.pc = pc
      /\ new.alone = session[s].alone
  BY <1>1, <1>2 DEF SessionsTyped, SessionState
<1> HIDE DEF new
<1> QED  BY <1>1, <1>3, <1>4 DEF pc, SessionsTyped

LEMMA LookMoves ==
  ASSUME SessionsTyped, NEW s \in Sessions, session[s].at \in Resources, Look(s)
  PROVE  LET r == session[s].at IN
         \E seen \in SUBSET Resources :
           /\ \A q \in seen : cloud[q] # "absent"
           /\ (Unlisted = {} => \A q \in Resources : Kind(q) = Kind(r) /\ cloud[q] # "absent" => q \in seen)
           /\ \/ r \in seen /\ ~Adjusted(r) /\ NextResource(s, {})
              \/ /\ r \in seen => Adjusted(r)
                 /\ SessionsTyped' /\ session'[s].at = r /\ session'[s].alone = session[s].alone
                 /\ session'[s].pc = IF r \in seen THEN "adjust" ELSE "create"
                 /\ session'[s].seen = IF Kind(r) = "machine" THEN seen ELSE {}
                 /\ \A t \in Sessions : t # s => session'[t] = session[t]
<1> DEFINE r == session[s].at
           seen == {q \in Resources : Kind(q) = Kind(r) /\ cloud[q] # "absent"
                                        /\ (Name(q) \notin Unlisted \/ Kind(q) \in {"bucket", "queue"})}
           pc == IF r \in seen THEN "adjust" ELSE "create"
           listed == IF Kind(r) = "machine" THEN seen ELSE {}
           new == [session[s] EXCEPT !.seen = listed, !.pc = pc]
<1>1. /\ seen \in SUBSET Resources /\ \A q \in seen : cloud[q] # "absent"
      /\ Unlisted = {} => \A q \in Resources : Kind(q) = Kind(r) /\ cloud[q] # "absent" => q \in seen
  OBVIOUS
<1>2. \/ r \in seen /\ ~Adjusted(r) /\ NextResource(s, {})
      \/ (r \in seen => Adjusted(r)) /\ session' = [session EXCEPT ![s] = new]
  BY DEF Look, At, SessionsTyped, SessionState
<1> HIDE DEF seen
<1>3. pc \in Calls /\ listed \in SUBSET Resources  BY <1>1 DEF Calls
<1> HIDE DEF pc, listed
<1>4. /\ new \in SessionState /\ new.at = r /\ new.seen = listed /\ new.pc = pc
      /\ new.alone = session[s].alone
  BY <1>3 DEF SessionsTyped, SessionState
<1> HIDE DEF new
<1>5. CASE r \in seen /\ ~Adjusted(r) /\ NextResource(s, {})  BY <1>1, <1>5
<1>6. CASE (r \in seen => Adjusted(r)) /\ session' = [session EXCEPT ![s] = new]
  BY <1>1, <1>4, <1>6 DEF SessionsTyped, pc, listed
<1> QED  BY <1>2, <1>5, <1>6

LEMMA StartMoves ==
  ASSUME SessionsTyped, NEW s \in Sessions, Start(s)
  PROVE  /\ SessionsTyped' /\ session'[s].pc = "look" /\ session'[s].at = 1
         /\ session'[s].seen = {} /\ (session'[s].alone <=> \A u \in Sessions : ~Active(u))
         /\ \A t \in Sessions : t # s =>
              /\ session'[t].pc = session[t].pc /\ session'[t].at = session[t].at
              /\ session'[t].seen = session[t].seen
              /\ (session'[t].alone <=> session[t].alone /\ ~Active(t))
<1> DEFINE again == IF session[s].pc = "done" THEN session[s].again + 1 ELSE session[s].again
           new == [pc |-> "look", at |-> 1, seen |-> {}, alone |-> \A u \in Sessions : ~Active(u),
                   again |-> again]
           other(t) == [session[t] EXCEPT !.alone = session[t].alone /\ ~Active(t)]
<1>1. again \in Nat  BY DEF SessionsTyped, SessionState
<1>2. "look" \in Calls /\ 1 \in 1 .. 25 /\ {} \in SUBSET Resources  BY DEF Calls
<1>3. (\A u \in Sessions : ~Active(u)) \in BOOLEAN  OBVIOUS
<1>4. session' = [t \in Sessions |-> IF t = s THEN new ELSE other(t)]  BY DEF Start
<1> HIDE DEF again
<1>5. new \in SessionState  BY <1>1, <1>2, <1>3 DEF SessionState
<1>6. \A t \in Sessions : /\ other(t) \in SessionState /\ other(t).pc = session[t].pc
                          /\ other(t).at = session[t].at /\ other(t).seen = session[t].seen
                          /\ other(t).alone = (session[t].alone /\ ~Active(t))
  BY DEF SessionsTyped, SessionState
<1>7. /\ new.pc = "look" /\ new.at = 1 /\ new.seen = {}
      /\ (new.alone <=> \A u \in Sessions : ~Active(u))
  OBVIOUS
<1> HIDE DEF new, other
<1> QED  BY <1>4, <1>5, <1>6, <1>7 DEF SessionsTyped
-----------------------------------------------------------------------------
(* What the calls do to the cloud. *)

CloudStates == {"absent", "bare", "old", "pending", "updating", "ready"}
CloudInv ==
  /\ cloud \in [Resources -> CloudStates]
  /\ params \in [Resources -> {"nobody", "earlier", "this"}]
  /\ \A r \in Resources :
       /\ cloud[r] = "bare" => Kind(r) = "role"
       /\ cloud[r] = "old" => Adjusted(r)
       /\ cloud[r] \in {"pending", "updating"} => Kind(r) = "function"
       /\ cloud[r] # "absent" => params[r] # "nobody"
       /\ params[r] = "earlier" => r \in Lasting \/ (r \in Redriven /\ cloud[r] = "old")

\* As this version of the repository wants it.
Good(r) == cloud[r] = "ready" \/ (Kind(r) = "function" /\ cloud[r] = "updating")
Live    == {"pending", "updating", "ready"}

\* What there is stays, and what is good stays good.
CloudGrows ==
  \A r \in Resources :
    /\ cloud[r] # "absent" => cloud'[r] # "absent"
    /\ cloud[r] \notin {"absent", "bare"} => cloud'[r] \notin {"absent", "bare"}
    /\ Good(r) => Good(r)'
    /\ Kind(r) = "function" /\ cloud[r] \in Live => cloud'[r] \in Live

LEMMA DanglesKept ==
  ASSUME CloudInv, NothingDangles, CloudGrows, NEW r \in Resources,
         \A q \in Resources : q # r => cloud'[q] = cloud[q],
         \/ cloud[r] # "absent"
         \/ \A q \in Resources : q < r => Good(q)
  PROVE  NothingDangles'
<1> SUFFICES ASSUME NEW q \in Resources, cloud'[q] # "absent", NEW n \in Needs[q]
             PROVE  cloud'[n] \notin {"absent", "bare"}
  BY DEF NothingDangles
<1>1. n \in Resources /\ n < q  BY NeedsBefore
<1>2. CASE cloud[q] # "absent"
  <2>1. cloud[n] \notin {"absent", "bare"}
    BY <1>2 DEF NothingDangles
  <2> QED  BY <1>1, <2>1 DEF CloudGrows, Good
<1>3. CASE cloud[q] = "absent"
  <2>1. q = r /\ Good(n)  BY <1>1, <1>3
  <2> QED  BY <1>1, <2>1 DEF CloudGrows, Good
<1> QED  BY <1>2, <1>3

LEMMA CreateEffectMoves ==
  ASSUME CloudInv, NothingDangles, NEW r \in Resources,
         \A q \in Resources : q < r => Good(q), CreateEffect(r)
  PROVE  /\ CloudInv' /\ NothingDangles' /\ CloudGrows
         /\ \A q \in Resources : q # r => cloud'[q] = cloud[q]
         /\ cloud'[r] # "absent"
         /\ Kind(r) = "function" /\ cloud[r] = "absent" => cloud'[r] = "pending"
         /\ Kind(r) \notin {"role", "function"} /\ cloud[r] # "old" => cloud'[r] = "ready"
<1>1. CASE cloud[r] # "absent"
  <2>1. cloud' = cloud /\ params' = params  BY <1>1 DEF CreateEffect, account
  <2>2. CloudGrows  BY <2>1 DEF CloudGrows, Good
  <2>3. NothingDangles'  BY <1>1, <2>1, <2>2, DanglesKept
  <2> QED  BY <1>1, <2>1, <2>2, <2>3 DEF CloudInv, CloudStates
<1>2. CASE cloud[r] = "absent"
  <2>1. cloud' = [cloud EXCEPT ![r] = Made(r)] /\ params' = [params EXCEPT ![r] = "this"]
    BY <1>2 DEF CreateEffect
  <2>2. /\ cloud'[r] = Made(r) /\ \A q \in Resources : q # r => cloud'[q] = cloud[q]
        /\ Made(r) \in CloudStates \ {"absent", "old", "updating"}
        /\ cloud' \in [Resources -> CloudStates]
        /\ params' \in [Resources -> {"nobody", "earlier", "this"}] /\ params'[r] = "this"
        /\ \A q \in Resources : q # r => params'[q] = params[q]
    BY <2>1 DEF CloudInv, Made, CloudStates
  <2>3. CloudGrows  BY <1>2, <2>2 DEF CloudGrows, Good, Live
  <2>4. NothingDangles'  BY <2>2, <2>3, DanglesKept
  <2>5. CloudInv'  BY <2>2 DEF CloudInv, Made
  <2> QED  BY <1>2, <2>2, <2>3, <2>4, <2>5 DEF Made
<1> QED  BY <1>1, <1>2

LEMMA AdjustEffectMoves ==
  ASSUME CloudInv, NothingDangles, NEW r \in Resources, cloud[r] # "absent", Adjusted(r),
         AdjustEffect(r)
  PROVE  /\ CloudInv' /\ NothingDangles' /\ CloudGrows
         /\ \A q \in Resources : q # r => cloud'[q] = cloud[q]
         /\ Kind(r) # "function" => cloud'[r] = "ready"
         /\ Kind(r) = "function" /\ ~Settling(r) => cloud'[r] = "updating"
<1>1. /\ cloud' \in [Resources -> CloudStates]
      /\ \A q \in Resources : q # r => cloud'[q] = cloud[q]
      /\ Kind(r) # "function" => cloud'[r] = "ready"
      /\ Kind(r) = "function" /\ Settling(r) => cloud'[r] = cloud[r]
      /\ Kind(r) = "function" /\ ~Settling(r) => cloud'[r] = "updating"
  BY DEF CloudInv, AdjustEffect, CloudStates
<1>p. /\ params' \in [Resources -> {"nobody", "earlier", "this"}]
      /\ \A q \in Resources : q # r => params'[q] = params[q]
      /\ params'[r] = IF Kind(r) = "queue" THEN "this" ELSE params[r]
  BY DEF CloudInv, AdjustEffect
<1>k. (r \in Redriven => Kind(r) = "queue") /\ Adjusted(r)
  BY Places DEF Redriven
<1>2. CloudInv'
  <2>1. ASSUME NEW q \in Resources
        PROVE  /\ cloud'[q] = "bare" => Kind(q) = "role"
               /\ cloud'[q] = "old" => Adjusted(q)
               /\ cloud'[q] \in {"pending", "updating"} => Kind(q) = "function"
               /\ cloud'[q] # "absent" => params'[q] # "nobody"
               /\ params'[q] = "earlier" => q \in Lasting \/ (q \in Redriven /\ cloud'[q] = "old")
    <3>1. CASE q # r  BY <1>1, <1>p, <3>1 DEF CloudInv
    <3>2. CASE q = r
      <4>1. CASE Kind(r) = "function"
        <5>1. r \notin Redriven  BY <1>k, <4>1
        <5> QED  BY <1>1, <1>p, <1>k, <3>2, <4>1, <5>1 DEF CloudInv, Settling
      <4>2. CASE Kind(r) # "function"  BY <1>1, <1>p, <1>k, <3>2, <4>2 DEF CloudInv
      <4> QED  BY <4>1, <4>2
    <3> QED  BY <3>1, <3>2
  <2> QED  BY <1>1, <1>p, <2>1 DEF CloudInv
<1>3. CloudGrows  BY <1>1 DEF CloudGrows, Good, Live, Settling
<1>4. NothingDangles'  BY <1>1, <1>3, DanglesKept
<1> QED  BY <1>1, <1>2, <1>3, <1>4

LEMMA SettleMoves ==
  ASSUME CloudInv, NothingDangles, NEW r \in Functions, Settle(r)
  PROVE  /\ CloudInv' /\ NothingDangles' /\ CloudGrows
         /\ \A q \in Resources : q # r => cloud'[q] = cloud[q]
<1>1. r \in Resources /\ Kind(r) = "function" /\ cloud[r] # "absent"
  BY DEF Functions, Settle, Settling
<1>2. /\ cloud' \in [Resources -> CloudStates] /\ cloud'[r] = "ready" /\ params' = params
      /\ \A q \in Resources : q # r => cloud'[q] = cloud[q]
  BY <1>1 DEF CloudInv, Settle, CloudStates
<1>k. r \notin Redriven  BY <1>1, Places DEF Redriven
<1>3. CloudInv'  BY <1>1, <1>2, <1>k DEF CloudInv
<1>4. CloudGrows  BY <1>1, <1>2 DEF CloudGrows, Good, Live
<1>5. NothingDangles'  BY <1>1, <1>2, <1>4, DanglesKept
<1> QED  BY <1>2, <1>3, <1>4, <1>5
-----------------------------------------------------------------------------
(* The sessions. *)

\* A session leaves everything behind it good, and knows what there is.
SessionInv(s) ==
  /\ Active(s) => session[s].at \in Resources
  /\ session[s].pc = "done" => session[s].at = 25
  /\ Active(s) \/ session[s].pc = "done" =>
       \A q \in Resources : q < session[s].at => Good(q)
  /\ \A q \in session[s].seen : cloud[q] # "absent"
  /\ session[s].pc = "adjust" => Adjusted(session[s].at) /\ cloud[session[s].at] # "absent"
  /\ session[s].pc = "wait" =>
       Kind(session[s].at) = "function" /\ cloud[session[s].at] \in Live

ProvisionInv ==
  SessionsTyped /\ CloudInv /\ NothingDangles /\ \A s \in Sessions : SessionInv(s)

\* What other sessions and AWS do does not disturb a session.
LEMMA SessionKept ==
  ASSUME NEW s \in Sessions, SessionsTyped, SessionInv(s), CloudGrows,
         session'[s].pc = session[s].pc, session'[s].at = session[s].at,
         session'[s].seen = session[s].seen
  PROVE  SessionInv(s)'
<1>1. session[s].seen \subseteq Resources /\ (Active(s)' <=> Active(s))
  BY DEF SessionsTyped, SessionState, Active
<1>2. session[s].pc \in {"adjust", "wait"} => Active(s)  BY DEF Active, Ended
<1> QED  BY <1>1, <1>2 DEF SessionInv, CloudGrows

\* The next resource: the one behind is good.
LEMMA NextResourceInv ==
  ASSUME ProvisionInv, NEW s \in Sessions, Active(s), NEW seen \in SUBSET Resources,
         NextResource(s, seen), CloudGrows, NEW r \in Resources, session[s].at = r, Good(r)',
         \A q \in seen : cloud'[q] # "absent"
  PROVE  SessionsTyped' /\ \A t \in Sessions : SessionInv(t)'
<1>1. session[s].at \in Resources /\ SessionsTyped  BY DEF ProvisionInv
<1>2. /\ SessionsTyped' /\ session'[s].at = session[s].at + 1 /\ session'[s].seen = seen
      /\ session'[s].pc = IF session[s].at = 24 THEN "done"
                          ELSE FirstCall(session[s].at + 1, seen)
      /\ \A t \in Sessions : t # s => session'[t] = session[t]
  BY <1>1, NextResourceMoves
<1>3. ASSUME NEW q \in Resources, q < session[s].at + 1 PROVE Good(q)'
  <2>1. q < session[s].at => Good(q)  BY DEF ProvisionInv, SessionInv
  <2>2. q \in Nat /\ session[s].at \in Nat  BY <1>1, ProgramParts
  <2>3. q < session[s].at \/ q = session[s].at  BY <1>3, <2>2
  <2> QED  BY <2>1, <2>3 DEF CloudGrows
<1>4. CASE session[s].at = 24
  <2>1. session'[s].pc = "done" /\ session'[s].at = 25  BY <1>2, <1>4
  <2> QED  BY <1>2, <1>3, <2>1, SessionKept DEF SessionInv, Active, Ended, ProvisionInv
<1>5. CASE session[s].at # 24
  <2> DEFINE n == session[s].at + 1
  <2>1. n \in Resources  BY <1>1, <1>5, ProgramParts
  <2>2. /\ FirstCall(n, seen) \in {"look", "create", "adjust"}
        /\ FirstCall(n, seen) = "adjust" => Kind(n) = "machine" /\ n \in seen
    BY DEF FirstCall
  <2>3. FirstCall(n, seen) = "adjust" => Adjusted(n) /\ cloud'[n] # "absent"
    BY <2>2 DEF Adjusted
  <2>4. SessionInv(s)'  BY <1>2, <1>3, <1>5, <2>1, <2>2, <2>3 DEF SessionInv, Active, Ended
  <2> QED  BY <1>1, <1>2, <2>4, SessionKept DEF ProvisionInv
<1> QED  BY <1>4, <1>5

LEMMA StartInv ==
  ASSUME ProvisionInv, NEW s \in Sessions, Start(s)
  PROVE  ProvisionInv'
<1>1. UNCHANGED <<cloud, params>> /\ SessionsTyped  BY DEF Start, ProvisionInv, account
<1>2. CloudInv' /\ NothingDangles' /\ CloudGrows
  BY <1>1 DEF ProvisionInv, CloudInv, NothingDangles, CloudGrows, Good
<1>3. /\ SessionsTyped' /\ session'[s].pc = "look" /\ session'[s].at = 1
      /\ session'[s].seen = {}
      /\ \A t \in Sessions : t # s =>
           /\ session'[t].pc = session[t].pc /\ session'[t].at = session[t].at
           /\ session'[t].seen = session[t].seen
  BY <1>1, StartMoves
<1>4. SessionInv(s)'  BY <1>3, ProgramParts DEF SessionInv, Active, Ended
<1> QED  BY <1>1, <1>2, <1>3, <1>4, SessionKept DEF ProvisionInv

LEMMA LookInv ==
  ASSUME ProvisionInv, NEW s \in Sessions, Look(s)
  PROVE  ProvisionInv'
<1>1. UNCHANGED <<cloud, params>> /\ Active(s) /\ SessionsTyped
  BY DEF Look, Active, Ended, ProvisionInv, account
<1>2. CloudInv' /\ NothingDangles' /\ CloudGrows
  BY <1>1 DEF ProvisionInv, CloudInv, NothingDangles, CloudGrows, Good
<1>3. PICK r \in Resources : r = session[s].at  BY <1>1 DEF ProvisionInv, SessionInv
<1>4. PICK seen \in SUBSET Resources :
        /\ \A q \in seen : cloud[q] # "absent"
        /\ \/ r \in seen /\ ~Adjusted(r) /\ NextResource(s, {})
           \/ /\ r \in seen => Adjusted(r)
              /\ SessionsTyped' /\ session'[s].at = r
              /\ session'[s].pc = IF r \in seen THEN "adjust" ELSE "create"
              /\ session'[s].seen = IF Kind(r) = "machine" THEN seen ELSE {}
              /\ \A t \in Sessions : t # s => session'[t] = session[t]
  BY <1>1, <1>3, LookMoves
<1>5. CASE r \in seen /\ ~Adjusted(r) /\ NextResource(s, {})
  <2>1. cloud[r] # "absent"  BY <1>4, <1>5
  <2>2. Good(r)'
    BY <1>1, <1>3, <1>5, <2>1 DEF ProvisionInv, CloudInv, CloudStates, Adjusted, Good
  <2> QED  BY <1>1, <1>2, <1>3, <1>5, <2>2, NextResourceInv DEF ProvisionInv
<1>6. CASE ~(r \in seen /\ ~Adjusted(r) /\ NextResource(s, {}))
  <2>1. SessionInv(s)'
    BY <1>1, <1>3, <1>4, <1>6 DEF SessionInv, Active, Ended, ProvisionInv, Good
  <2> QED  BY <1>1, <1>2, <1>4, <1>6, <2>1, SessionKept DEF ProvisionInv
<1> QED  BY <1>5, <1>6

\* Another call for the resource.
LEMMA GotoInv ==
  ASSUME ProvisionInv, NEW s \in Sessions, Active(s), NEW call \in Calls, Goto(s, call),
         CloudGrows, call # "done",
         call = "adjust" => Adjusted(session[s].at) /\ cloud'[session[s].at] # "absent",
         call = "wait" => Kind(session[s].at) = "function" /\ cloud'[session[s].at] \in Live
  PROVE  SessionsTyped' /\ \A t \in Sessions : SessionInv(t)'
<1>1. SessionsTyped /\ session[s].at \in Resources  BY DEF ProvisionInv, SessionInv
<1>2. /\ SessionsTyped' /\ session'[s].pc = call /\ SameButCall(session[s], session'[s])
      /\ \A t \in Sessions : t # s => session'[t] = session[t]
  BY <1>1, GotoMoves
<1>3. session[s].seen \subseteq Resources  BY <1>1 DEF SessionsTyped, SessionState
<1>4. SessionInv(s)'
  BY <1>1, <1>2, <1>3 DEF SessionInv, SameButCall, ProvisionInv, CloudGrows
<1> QED  BY <1>1, <1>2, <1>4, SessionKept DEF ProvisionInv

\* The end of the session before its time.
LEMMA QuitInv ==
  ASSUME ProvisionInv, NEW s \in Sessions, NEW how \in Ended \ {"done"}, Quit(s, how), CloudGrows
  PROVE  SessionsTyped' /\ \A t \in Sessions : SessionInv(t)'
<1>1. how \in Calls /\ SessionsTyped  BY DEF Calls, ProvisionInv
<1>2. /\ SessionsTyped' /\ session'[s].pc = how /\ session'[s].at = 1 /\ session'[s].seen = {}
      /\ \A t \in Sessions : t # s => session'[t] = session[t]
  BY <1>1, QuitMoves
<1>3. SessionInv(s)'  BY <1>2 DEF SessionInv, Active, Ended
<1> QED  BY <1>1, <1>2, <1>3, SessionKept DEF ProvisionInv

LEMMA CreateInv ==
  ASSUME ProvisionInv, NEW s \in Sessions, Create(s)
  PROVE  ProvisionInv'
<1>1. Active(s) /\ SessionsTyped  BY DEF Create, Active, Ended, ProvisionInv
<1>r. PICK r \in Resources : r = session[s].at  BY <1>1 DEF ProvisionInv, SessionInv
<1>2. /\ session[s].seen \in SUBSET Resources
      /\ \A q \in session[s].seen : cloud[q] # "absent"
      /\ \A q \in Resources : q < r => Good(q)
  BY <1>r, <1>1 DEF ProvisionInv, SessionInv, SessionsTyped, SessionState
<1>3. "adjust" \in Calls /\ "wait" \in Calls  BY DEF Calls
<1>4. CASE Quit(s, "refused") /\ UNCHANGED account
  <2>1. CloudInv' /\ NothingDangles' /\ CloudGrows
    BY <1>4 DEF ProvisionInv, CloudInv, NothingDangles, CloudGrows, Good, account
  <2> QED  BY <1>4, <2>1, QuitInv DEF ProvisionInv, Ended
<1>5. ASSUME CreateEffect(r), cloud[r] = "absent" \/ Kind(r) \notin CreatedOnce,
             cloud[r] # "old",
             IF Kind(r) = "role" THEN Goto(s, "adjust")
             ELSE IF Kind(r) = "function" THEN Goto(s, "wait")
             ELSE NextResource(s, session[s].seen)
      PROVE  ProvisionInv'
  <2>1. /\ CloudInv' /\ NothingDangles' /\ CloudGrows /\ cloud'[r] # "absent"
        /\ Kind(r) = "function" /\ cloud[r] = "absent" => cloud'[r] = "pending"
        /\ Kind(r) \notin {"role", "function"} => cloud'[r] = "ready"
    BY <1>2, <1>5, CreateEffectMoves DEF ProvisionInv
  <2>2. CASE Kind(r) = "role"
    BY <1>1, <1>3, <1>5, <2>1, <2>2, <1>r, GotoInv DEF ProvisionInv, Adjusted
  <2>3. CASE Kind(r) = "function"
    BY <1>1, <1>3, <1>5, <2>1, <2>3, <1>r, GotoInv DEF ProvisionInv, CreatedOnce, Live
  <2>4. CASE Kind(r) \notin {"role", "function"}
    <3>1. Good(r)'  BY <2>1, <2>4 DEF Good
    <3>2. \A q \in session[s].seen : cloud'[q] # "absent"  BY <1>2, <2>1 DEF CloudGrows
    <3>3. NextResource(s, session[s].seen)  BY <1>5, <2>4
    <3> QED  BY <1>1, <1>2, <2>1, <3>1, <3>2, <3>3, <1>r, NextResourceInv DEF ProvisionInv
  <2> QED  BY <2>2, <2>3, <2>4
<1> QED  BY <1>r, <1>4, <1>5 DEF Create, At, Refuses

LEMMA AdjustInv ==
  ASSUME ProvisionInv, NEW s \in Sessions, Adjust(s)
  PROVE  ProvisionInv'
<1>1. Active(s) /\ SessionsTyped /\ session[s].pc = "adjust"
  BY DEF Adjust, Active, Ended, ProvisionInv
<1>r. PICK r \in Resources : r = session[s].at  BY <1>1 DEF ProvisionInv, SessionInv
<1>2. /\ session[s].seen \in SUBSET Resources /\ cloud[r] # "absent"
      /\ \A q \in session[s].seen : cloud[q] # "absent"
  BY <1>r, <1>1 DEF ProvisionInv, SessionInv, SessionsTyped, SessionState
<1>3. "wait" \in Calls /\ Adjusted(r)
  BY <1>r, <1>1 DEF Calls, ProvisionInv, SessionInv
<1>4. /\ CloudInv' /\ NothingDangles' /\ CloudGrows
      /\ Kind(r) # "function" => cloud'[r] = "ready"
      /\ Kind(r) = "function" /\ ~Settling(r) => cloud'[r] = "updating"
  BY <1>r, <1>2, <1>3, AdjustEffectMoves DEF ProvisionInv, Adjust, At
<1>5. CASE Kind(r) # "function"
  <2>1. Good(r)'  BY <1>4, <1>5 DEF Good
  <2>2. \A q \in session[s].seen : cloud'[q] # "absent"  BY <1>2, <1>4 DEF CloudGrows
  <2>3. NextResource(s, session[s].seen)  BY <1>r, <1>5 DEF Adjust, At
  <2> QED  BY <1>1, <1>2, <1>4, <2>1, <2>2, <2>3, <1>r, NextResourceInv DEF ProvisionInv
<1>6. CASE Kind(r) = "function" /\ Settling(r)
  <2>1. Quit(s, "busy")  BY <1>r, <1>6 DEF Adjust, At
  <2> QED  BY <1>4, <2>1, QuitInv DEF ProvisionInv, Ended
<1>7. CASE Kind(r) = "function" /\ ~Settling(r)
  <2>1. Goto(s, "wait")  BY <1>r, <1>7 DEF Adjust, At
  <2> QED  BY <1>1, <1>3, <1>4, <1>r, <1>7, <2>1, GotoInv DEF ProvisionInv, Live
<1> QED  BY <1>5, <1>6, <1>7

LEMMA WaitInv ==
  ASSUME ProvisionInv, NEW s \in Sessions, Wait(s)
  PROVE  ProvisionInv'
<1>1. /\ Active(s) /\ UNCHANGED <<cloud, params>>
      /\ session[s].pc = "wait" /\ NextResource(s, {})
  BY DEF Wait, Active, Ended, account
<1>2. CloudInv' /\ NothingDangles' /\ CloudGrows
  BY <1>1 DEF ProvisionInv, CloudInv, NothingDangles, CloudGrows, Good
<1>r. PICK r \in Resources : r = session[s].at  BY <1>1 DEF ProvisionInv, SessionInv
<1>3. Good(r)'
  BY <1>r, <1>1 DEF ProvisionInv, SessionInv, Wait, At, Live, Good
<1> QED  BY <1>r, <1>1, <1>2, <1>3, NextResourceInv DEF ProvisionInv

LEMMA CallFailsInv ==
  ASSUME ProvisionInv, NEW s \in Sessions, CallFails(s)
  PROVE  ProvisionInv'
<1> DEFINE r == session[s].at
<1>1. Active(s) /\ Quit(s, "raised")  BY DEF CallFails
<1>2. /\ r \in Resources /\ \A q \in Resources : q < r => Good(q)
      /\ session[s].pc = "adjust" => cloud[r] # "absent" /\ Adjusted(r)
  BY <1>1 DEF ProvisionInv, SessionInv
<1>3. CloudInv' /\ NothingDangles' /\ CloudGrows
  <2>1. CASE UNCHANGED account
    BY <2>1 DEF ProvisionInv, CloudInv, NothingDangles, CloudGrows, Good, account
  <2>2. CASE session[s].pc = "create" /\ CreateEffect(r)
    BY <1>2, <2>2, CreateEffectMoves DEF ProvisionInv
  <2>3. CASE session[s].pc = "adjust" /\ AdjustEffect(r)
    BY <1>2, <2>3, AdjustEffectMoves DEF ProvisionInv
  <2> QED  BY <2>1, <2>2, <2>3 DEF CallFails, At
<1> QED  BY <1>1, <1>3, QuitInv DEF ProvisionInv, Ended

LEMMA ProvisionStep == ProvisionInv /\ [Next]_vars => ProvisionInv'
<1> SUFFICES ASSUME ProvisionInv, [Next]_vars PROVE ProvisionInv'  OBVIOUS
<1>1. ASSUME NEW r \in Functions, Settle(r) PROVE ProvisionInv'
  <2>1. CloudInv' /\ NothingDangles' /\ CloudGrows /\ UNCHANGED session
    BY <1>1, SettleMoves DEF ProvisionInv, Settle
  <2> QED  BY <2>1, SessionKept DEF ProvisionInv, SessionsTyped
<1>2. CASE UNCHANGED vars
  BY <1>2
  DEF ProvisionInv, SessionsTyped, CloudInv, NothingDangles, SessionInv, Active, Good, vars, account
<1> QED
  BY <1>1, <1>2, StartInv, LookInv, CreateInv, AdjustInv, WaitInv, CallFailsInv
  DEF Next, Call

LEMMA ProvisionInit == Init => ProvisionInv
<1> SUFFICES ASSUME Init PROVE ProvisionInv  OBVIOUS
<1>1. SessionsTyped
  BY DEF Init, SessionsTyped, SessionState, Calls, Ended
<1>2. CloudInv
  <2>1. Earlier \subseteq Lasting  BY ProvisionAssumption
  <2>2. \A r \in Redriven : Adjusted(r)  BY DEF Adjusted
  <2> QED  BY <2>1, <2>2 DEF Init, CloudInv, CloudStates
<1>3. NothingDangles
  <2>1. CASE cloud = [r \in Resources |-> "absent"]  BY <2>1 DEF NothingDangles
  <2>2. CASE cloud = [r \in Resources |-> IF Adjusted(r) THEN "old" ELSE "ready"]
    <3>1. \A n \in Resources : cloud[n] \notin {"absent", "bare"}  BY <2>2
    <3> QED  BY <3>1, NeedsBefore DEF NothingDangles
  <2> QED  BY <2>1, <2>2 DEF Init
<1>4. ASSUME NEW s \in Sessions PROVE SessionInv(s)
  BY DEF Init, SessionInv, Active, Ended
<1> QED  BY <1>1, <1>2, <1>3, <1>4 DEF ProvisionInv

LEMMA ProvisionInvariant == Spec => []ProvisionInv
  BY ProvisionInit, ProvisionStep, PTL DEF Spec

\* bootstrap.py and the deployment: whatever fails and however sessions overlap, nothing
\* is created before what it names, and no function before its role has its policy.
THEOREM NothingEverDangles == Spec => []NothingDangles
  BY ProvisionInvariant, PTL DEF ProvisionInv

\* A session that went through has made every redrive policy, role policy, code and
\* definition this version's, whoever created the resource and even when some of what
\* exists is beyond the first page of a listing; and no resource has other parameters than
\* this version creates it with, unless an earlier version created it and they last.
THEOREM DoneMeansReady == Spec => []DoneIsReady
<1>1. ProvisionInv => DoneIsReady
  <2> SUFFICES ASSUME ProvisionInv, NEW s \in Sessions, session[s].pc = "done",
                      NEW r \in Resources
               PROVE  /\ Good(r)
                      /\ params[r] = "this" \/ (params[r] = "earlier" /\ r \in Lasting)
    BY DEF DoneIsReady, Good
  <2>1. session[s].at = 25 /\ r < 25  BY ProgramParts DEF ProvisionInv, SessionInv
  <2>2. Good(r)  BY <2>1 DEF ProvisionInv, SessionInv
  <2>3. cloud[r] \notin {"absent", "old"}  BY <2>2 DEF Good
  <2> QED  BY <2>2, <2>3 DEF ProvisionInv, CloudInv
<1> QED  BY <1>1, ProvisionInvariant, PTL
-----------------------------------------------------------------------------
(* Repeating a set-up. *)

\* What a session that overlaps no other has found is so: what it creates is absent, or a
\* topic, and it knows whether the second state machine is there.
Fresh(s) ==
  session[s].alone =>
    /\ session[s].pc = "create" =>
         Kind(session[s].at) = "topic" \/ cloud[session[s].at] = "absent"
    /\ session[s].pc \in {"create", "adjust"} /\ session[s].at = 23 =>
         (cloud[24] # "absent" => 24 \in session[s].seen)
    /\ session[s].pc # "refused"

AloneInv ==
  \A s \in Sessions :
    /\ session[s].alone /\ Active(s) => \A u \in Sessions : u # s => ~Active(u)
    /\ Fresh(s)

\* A call of one session: no session it overlaps is alone.
LEMMA CallAlone ==
  ASSUME AloneInv, NEW s \in Sessions, Active(s), session'[s].alone = session[s].alone,
         \A t \in Sessions : t # s => session'[t] = session[t], Fresh(s)'
  PROVE  AloneInv'
<1> SUFFICES ASSUME NEW t \in Sessions
             PROVE  /\ (session'[t].alone /\ Active(t)' =>
                          \A u \in Sessions : u # t => ~Active(u)')
                    /\ Fresh(t)'
  BY DEF AloneInv
<1>1. CASE t = s  BY <1>1 DEF AloneInv, Active
<1>2. CASE t # s
  <2>1. session'[t] = session[t] /\ (Active(t)' <=> Active(t))  BY <1>2 DEF Active
  <2>2. session[t].alone => ~Active(t)  BY <1>2 DEF AloneInv
  <2> QED  BY <2>1, <2>2 DEF AloneInv, Fresh, Active, Ended
<1> QED  BY <1>1, <1>2

LEMMA NextResourceAlone ==
  ASSUME ProvisionInv, AloneInv, NEW s \in Sessions, Active(s), NEW seen \in SUBSET Resources,
         NextResource(s, seen),
         session[s].alone /\ session[s].at = 23 => (cloud'[24] # "absent" => 24 \in seen)
  PROVE  AloneInv'
<1>1. session[s].at \in Resources /\ SessionsTyped  BY DEF ProvisionInv, SessionInv
<1>2. /\ session'[s].at = session[s].at + 1 /\ session'[s].alone = session[s].alone
      /\ session'[s].pc = IF session[s].at = 24 THEN "done"
                          ELSE FirstCall(session[s].at + 1, seen)
      /\ \A t \in Sessions : t # s => session'[t] = session[t]
  BY <1>1, NextResourceMoves
<1>3. CASE session[s].at = 24
  <2>1. session'[s].pc = "done"  BY <1>2, <1>3
  <2>2. Fresh(s)'  BY <2>1 DEF Fresh
  <2> QED  BY <1>2, <2>2, CallAlone
<1>4. CASE session[s].at # 24
  <2> DEFINE n == session[s].at + 1
  <2>1. n \in Resources /\ n # 1 /\ n - 1 = session[s].at  BY <1>1, <1>4, ProgramParts
  <2>2. Kind(n) = "machine" /\ Kind(n - 1) = "machine" => n = 24
    BY <1>1, <2>1, Places
  <2>3. FirstCall(n, seen) = "create" => Kind(n) = "topic" \/ (n = 24 /\ 24 \notin seen)
    BY <2>2 DEF FirstCall
  <2>4. n = 23 => FirstCall(n, seen) = "look"  BY <1>1, <2>1, <2>2, Places DEF FirstCall
  <2>5. FirstCall(n, seen) \in {"look", "create", "adjust"}  BY DEF FirstCall
  <2>6. session'[s].pc = FirstCall(n, seen) /\ session'[s].at = n  BY <1>2, <1>4
  <2>7. n = 24 => session[s].at = 23  BY <1>1, ProgramParts
  <2> HIDE DEF n
  <2>8. Fresh(s)'  BY <1>2, <2>3, <2>4, <2>5, <2>6, <2>7 DEF Fresh
  <2> QED  BY <1>2, <2>8, CallAlone
<1> QED  BY <1>3, <1>4

\* Another call for the resource.
LEMMA GotoAlone ==
  ASSUME ProvisionInv, AloneInv, NEW s \in Sessions, Active(s), NEW call \in Calls,
         Goto(s, call), call \notin {"create", "refused"},
         call = "adjust" => session[s].at # 23
  PROVE  AloneInv'
<1>1. /\ session'[s].pc = call /\ SameButCall(session[s], session'[s])
      /\ \A t \in Sessions : t # s => session'[t] = session[t]
  BY GotoMoves DEF ProvisionInv
<1>2. Fresh(s)'  BY <1>1 DEF Fresh, SameButCall
<1> QED  BY <1>1, <1>2, CallAlone DEF SameButCall

\* The end of the session before its time: it is not refused anything when alone.
LEMMA QuitAlone ==
  ASSUME ProvisionInv, AloneInv, NEW s \in Sessions, Active(s), NEW how \in Ended \ {"done"},
         Quit(s, how), session[s].alone => how # "refused"
  PROVE  AloneInv'
<1>1. how \in Calls /\ SessionsTyped  BY DEF Calls, ProvisionInv
<1>2. /\ session'[s].pc = how /\ session'[s].alone = session[s].alone
      /\ \A t \in Sessions : t # s => session'[t] = session[t]
  BY <1>1, QuitMoves
<1>3. Fresh(s)'  BY <1>2 DEF Fresh, Ended
<1> QED  BY <1>2, <1>3, CallAlone

LEMMA StartAlone ==
  ASSUME ProvisionInv, AloneInv, NEW s \in Sessions, Start(s)
  PROVE  AloneInv'
<1>1. /\ session'[s].pc = "look" /\ (session'[s].alone <=> \A u \in Sessions : ~Active(u))
      /\ \A t \in Sessions : t # s =>
           /\ session'[t].pc = session[t].pc /\ session'[t].at = session[t].at
           /\ session'[t].seen = session[t].seen
           /\ (session'[t].alone <=> session[t].alone /\ ~Active(t))
  BY StartMoves DEF ProvisionInv
<1>2. ASSUME NEW t \in Sessions, t # s
      PROVE  Fresh(t)' /\ (session'[t].alone => ~Active(t)')
  BY <1>1, <1>2 DEF AloneInv, Fresh, Active, Ended
<1>3. Fresh(s)'  BY <1>1 DEF Fresh
<1>4. session'[s].alone => \A u \in Sessions : u # s => ~Active(u)'  BY <1>1 DEF Active
<1> QED  BY <1>2, <1>3, <1>4 DEF AloneInv

LEMMA LookAlone ==
  ASSUME Unlisted = {}, ProvisionInv, AloneInv, NEW s \in Sessions, Look(s)
  PROVE  AloneInv'
<1>1. UNCHANGED <<cloud, params>> /\ Active(s) /\ SessionsTyped
  BY DEF Look, Active, Ended, ProvisionInv, account
<1>2. PICK r \in Resources : r = session[s].at  BY <1>1 DEF ProvisionInv, SessionInv
<1>3. PICK seen \in SUBSET Resources :
        /\ \A q \in Resources : Kind(q) = Kind(r) /\ cloud[q] # "absent" => q \in seen
        /\ \/ r \in seen /\ ~Adjusted(r) /\ NextResource(s, {})
           \/ /\ session'[s].at = r /\ session'[s].alone = session[s].alone
              /\ session'[s].pc = IF r \in seen THEN "adjust" ELSE "create"
              /\ session'[s].seen = IF Kind(r) = "machine" THEN seen ELSE {}
              /\ \A t \in Sessions : t # s => session'[t] = session[t]
  BY <1>1, <1>2, LookMoves
<1>4. CASE r \in seen /\ ~Adjusted(r) /\ NextResource(s, {})
  <2>1. r # 23  BY <1>4, Places DEF Adjusted
  <2> QED  BY <1>1, <1>2, <1>4, <2>1, NextResourceAlone
<1>5. CASE ~(r \in seen /\ ~Adjusted(r) /\ NextResource(s, {}))
  <2>1. session'[s].pc = "create" => cloud[r] = "absent"  BY <1>3, <1>5
  <2>2. r = 23 => (cloud[24] # "absent" => 24 \in session'[s].seen)
    BY <1>3, <1>5, Places, ProgramParts
  <2>3. Fresh(s)'  BY <1>1, <1>3, <1>5, <2>1, <2>2 DEF Fresh
  <2> QED  BY <1>1, <1>3, <1>5, <2>3, CallAlone
<1> QED  BY <1>4, <1>5

LEMMA CreateAlone ==
  ASSUME ProvisionInv, AloneInv, NEW s \in Sessions, Create(s)
  PROVE  AloneInv'
<1>1. Active(s) /\ session[s].pc = "create"  BY DEF Create, Active, Ended
<1>2. PICK r \in Resources : r = session[s].at  BY <1>1 DEF ProvisionInv, SessionInv
<1>3. /\ session[s].seen \in SUBSET Resources
      /\ \A q \in Resources : q < r => Good(q)
      /\ session[s].alone => Kind(r) = "topic" \/ cloud[r] = "absent"
      /\ session[s].alone /\ r = 23 => (cloud[24] # "absent" => 24 \in session[s].seen)
  BY <1>1, <1>2 DEF ProvisionInv, SessionInv, SessionsTyped, SessionState, AloneInv, Fresh
<1>4. "adjust" \in Calls /\ "wait" \in Calls  BY DEF Calls
<1>5. CASE Refuses(r)
  <2>1. Quit(s, "refused")  BY <1>2, <1>5 DEF Create, At
  <2>2. Kind(r) # "topic" /\ cloud[r] # "absent"
    BY <1>5, Places DEF ProvisionInv, CloudInv, CreatedOnce, Redriven, Adjusted, Refuses
  <2> QED  BY <1>1, <1>3, <2>1, <2>2, QuitAlone DEF Ended
<1>6. CASE ~Refuses(r)
  <2>1. /\ CreateEffect(r)
        /\ IF Kind(r) = "role" THEN Goto(s, "adjust")
           ELSE IF Kind(r) = "function" THEN Goto(s, "wait")
           ELSE NextResource(s, session[s].seen)
    BY <1>2, <1>6 DEF Create, At
  <2>2. CASE Kind(r) \in {"role", "function"}
    <3>1. r # 23  BY <2>2, Places
    <3> QED  BY <1>1, <1>2, <1>4, <2>1, <2>2, <3>1, GotoAlone
  <2>3. CASE Kind(r) \notin {"role", "function"}
    <3>1. \A q \in Resources : q # r => cloud'[q] = cloud[q]
      BY <1>3, <2>1, CreateEffectMoves DEF ProvisionInv
    <3>2. r = 23 => cloud'[24] = cloud[24]  BY <3>1, ProgramParts
    <3> QED  BY <1>1, <1>2, <1>3, <2>1, <2>3, <3>2, NextResourceAlone
  <2> QED  BY <2>2, <2>3
<1> QED  BY <1>5, <1>6

LEMMA AdjustAlone ==
  ASSUME ProvisionInv, AloneInv, NEW s \in Sessions, Adjust(s)
  PROVE  AloneInv'
<1>1. Active(s) /\ session[s].pc = "adjust"  BY DEF Adjust, Active, Ended
<1>2. PICK r \in Resources : r = session[s].at  BY <1>1 DEF ProvisionInv, SessionInv
<1>3. /\ session[s].seen \in SUBSET Resources /\ cloud[r] # "absent"
      /\ session[s].alone /\ r = 23 => (cloud[24] # "absent" => 24 \in session[s].seen)
  BY <1>1, <1>2 DEF ProvisionInv, SessionInv, SessionsTyped, SessionState, AloneInv, Fresh
<1>4. "wait" \in Calls /\ Adjusted(r)
  BY <1>1, <1>2 DEF Calls, ProvisionInv, SessionInv
<1>5. CASE Kind(r) # "function"
  <2>1. \A q \in Resources : q # r => cloud'[q] = cloud[q]
    BY <1>2, <1>3, <1>4, AdjustEffectMoves DEF ProvisionInv, Adjust, At
  <2>2. r = 23 => cloud'[24] = cloud[24]  BY <2>1, ProgramParts
  <2>3. NextResource(s, session[s].seen)  BY <1>2, <1>5 DEF Adjust, At
  <2> QED  BY <1>1, <1>2, <1>3, <2>2, <2>3, NextResourceAlone
<1>6. CASE Kind(r) = "function"
  <2>1. Quit(s, "busy") \/ Goto(s, "wait")  BY <1>2, <1>6 DEF Adjust, At
  <2>2. CASE Quit(s, "busy")  BY <1>1, <2>2, QuitAlone DEF Ended
  <2>3. CASE Goto(s, "wait")  BY <1>1, <1>4, <2>3, GotoAlone
  <2> QED  BY <2>1, <2>2, <2>3
<1> QED  BY <1>5, <1>6

LEMMA WaitAlone ==
  ASSUME ProvisionInv, AloneInv, NEW s \in Sessions, Wait(s)
  PROVE  AloneInv'
<1>1. Active(s) /\ session[s].pc = "wait" /\ NextResource(s, {})
  BY DEF Wait, Active, Ended
<1>2. session[s].at \in Resources /\ Kind(session[s].at) = "function"
  BY <1>1 DEF ProvisionInv, SessionInv
<1>3. session[s].at # 23  BY <1>2, Places
<1> QED  BY <1>1, <1>3, NextResourceAlone

LEMMA CallFailsAlone ==
  ASSUME ProvisionInv, AloneInv, NEW s \in Sessions, CallFails(s)
  PROVE  AloneInv'
<1>1. Active(s) /\ Quit(s, "raised")  BY DEF CallFails
<1> QED  BY <1>1, QuitAlone DEF Ended

LEMMA SettleAlone ==
  ASSUME ProvisionInv, AloneInv, NEW r \in Functions, Settle(r)
  PROVE  AloneInv'
<1>1. /\ r \in Resources /\ Kind(r) = "function" /\ cloud[r] # "absent"
      /\ UNCHANGED session
  BY DEF Functions, Settle, Settling
<1>2. \A q \in Resources : q # r => cloud'[q] = cloud[q]
  BY SettleMoves DEF ProvisionInv
<1>3. cloud'[24] = cloud[24]  BY <1>1, <1>2, Places, ProgramParts
<1>4. ASSUME NEW s \in Sessions PROVE Fresh(s)'
  <2>1. session[s].pc = "create" => session[s].at \in Resources
    BY DEF ProvisionInv, SessionInv, Active, Ended
  <2> QED  BY <1>1, <1>2, <1>3, <2>1 DEF AloneInv, Fresh
<1> QED  BY <1>1, <1>4 DEF AloneInv, Active

LEMMA AloneStep ==
  ASSUME Unlisted = {}
  PROVE  ProvisionInv /\ AloneInv /\ [Next]_vars => AloneInv'
<1> SUFFICES ASSUME ProvisionInv, AloneInv, [Next]_vars PROVE AloneInv'  OBVIOUS
<1>1. CASE UNCHANGED vars  BY <1>1 DEF AloneInv, Fresh, Active, vars, account
<1> QED
  BY <1>1, StartAlone, LookAlone, CreateAlone, AdjustAlone, WaitAlone, CallFailsAlone,
     SettleAlone
  DEF Next, Call

LEMMA AloneInit == Init => AloneInv
<1> SUFFICES ASSUME Init, NEW s \in Sessions PROVE ~Active(s) /\ Fresh(s)
  BY DEF AloneInv
<1>1. session[s].pc = "idle"  BY DEF Init
<1> QED  BY <1>1 DEF Fresh, Active, Ended

\* "Idempotent creation" (bootstrap.py): where a listing shows all there is, a session that
\* overlaps no other and whose calls do not fail is refused nothing, whatever failed
\* sessions or earlier versions have left.
THEOREM CreationIdempotent ==
  ASSUME Unlisted = {}
  PROVE  Spec => []Repeatable
<1>1. AloneInv => Repeatable  BY DEF AloneInv, Fresh, Repeatable
<1>2. ProvisionInv /\ AloneInv /\ [Next]_vars => AloneInv'  BY AloneStep
<1> QED  BY <1>1, <1>2, AloneInit, ProvisionInvariant, PTL DEF Spec
=============================================================================
