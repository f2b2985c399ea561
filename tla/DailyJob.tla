------------------------------ MODULE DailyJob ------------------------------
(***************************************************************************)
(* The daily curation job and its outbox.  statemachine.py drives a job:   *)
(* pre-flight execution, curate.py as a subprocess, post-flight execution. *)
(* Step Functions runs the Lambdas of an execution (preflight.py and       *)
(* record_status.py), retrying failed ones, whether or not the driver is   *)
(* still there; a curate.py whose driver was killed goes on, too.          *)
(* record_status.py writes the completed row and a PENDING outbox row in   *)
(* one transaction; outbox_publisher.py, run at any time by an operator,   *)
(* publishes PENDING rows and marks them PUBLISHED.                        *)
(***************************************************************************)
EXTENDS Integers, FiniteSets, Sequences

CONSTANTS
  Jobs,         \* runs of statemachine.py, each with a fresh job_id
  Publishers,   \* runs of outbox_publisher.py that may overlap
  Order,        \* the jobs' rows in the order a Scan of txn-outbox reads them
  PageSize,     \* rows one Scan reads
  Objects,      \* objects that may come under txn-raw/valid/, a row each
  Key, Ts,      \* idempotency_key and ts of each; keys repeat in data that bypassed the gate
  Arrivals,     \* bound: sets of objects that come together
  ListLimit,    \* keys one list_objects_v2 returns (1000)
  MaxAttempts,  \* attempts Step Functions makes per task (1 + MaxAttempts of asl/)
  MaxMishaps    \* bound on calls that fail, processes that die and runs that overlap

ASSUME DailyJobAssumption ==
  /\ IsFiniteSet(Jobs) /\ Order \in Seq(Jobs) /\ \A j \in Jobs : \E i \in DOMAIN Order : Order[i] = j
  /\ PageSize \in Nat \ {0} /\ ListLimit \in Nat \ {0} /\ MaxAttempts \in Nat \ {0}
  /\ IsFiniteSet(Objects) /\ Arrivals \subseteq SUBSET Objects /\ Ts \in [Objects -> Nat]
  /\ MaxMishaps \in Nat

VARIABLES
  raw,        \* the objects under txn-raw/valid/
  curated,    \* txn-curated/txn_events/: the rows <<job, object>> in its files
  curation,   \* curation[j]: the curate.py of j, what it has read, and whether another
              \* one has deleted its temporary files
  started,    \* txn-curation-jobs: raw_object_count of j#started, or Absent
  completed,  \* curated_row_count of j#completed, or Absent
  outbox,     \* txn-outbox: status of j#CurationCompleted
  published,  \* published[j]: how often the event of j went to the SNS topic
  driver,     \* driver[j]: run_daily_job of j
  exec,       \* exec[j]: the current execution of j, the attempts of its task, and the
              \* objects that lay there when it counted them
  adrift,     \* writes of unanswered Lambda attempts that may yet be applied
  publisher,  \* the publishers
  settled,    \* history: the curation that emptied the dataset last has gone through
  failures, overlaps  \* history: calls failed or processes died; runs overlapped
tables  == <<started, completed, outbox>>
lake    == <<raw, curated, curation, settled>>
history == <<failures, overlaps>>
vars    == <<lake, tables, published, driver, exec, adrift, publisher, history>>

Absent == -1
Quiet  == [pc |-> "idle", pending |-> {}, cur |-> {}]

Init ==
  /\ raw = {} /\ curated = {} /\ settled = FALSE
  /\ curation = [j \in Jobs |-> [pc |-> "none", read |-> {}, disturbed |-> FALSE]]
  /\ started = [j \in Jobs |-> Absent] /\ completed = [j \in Jobs |-> Absent]
  /\ outbox = [j \in Jobs |-> "none"] /\ published = [j \in Jobs |-> 0]
  /\ driver = [j \in Jobs |-> "new"]
  /\ exec = [j \in Jobs |-> [state |-> "none", tries |-> 0, saw |-> {}]]
  /\ adrift = {} /\ publisher = [p \in Publishers |-> Quiet]
  /\ failures = 0 /\ overlaps = 0
-----------------------------------------------------------------------------
Bounded == failures + overlaps < MaxMishaps
Failure == Bounded /\ failures' = failures + 1 /\ UNCHANGED overlaps
\* A run starts, perhaps while one of the others is going on.
Beside(others) ==
  \/ others = {} /\ UNCHANGED history
  \/ others # {} /\ Bounded /\ overlaps' = overlaps + 1 /\ UNCHANGED failures

Drive(j, from, to) == driver[j] = from /\ driver' = [driver EXCEPT ![j] = to]
ExecGoes(j, state) == exec' = [exec EXCEPT ![j].state = state, ![j].tries = 0]

Tasks   == {"CheckDataReady", "RecordStarted", "RecordCompleted"}
Waiting == {"preflight", "postflight"}
Ended   == {"preflight_failed", "no_data_to_curate", "curate_failed", "completed",
            "postflight_failed", "raised"}

\* Jobs whose curate.py is about to replace the dataset, or doing so.
Curating == {j \in Jobs : curation[j].pc \in {"overwrite", "commit"}}
\* Whoever deletes the dataset, or ends its own write, deletes the temporary files of all.
Disturb(j) ==
  [i \in Jobs |-> IF i # j /\ curation[i].pc = "commit"
                  THEN [curation[i] EXCEPT !.disturbed = TRUE] ELSE curation[i]]

KeysOf(objects) == {Key[o] : o \in objects}
\* Window and filter: of each key one row, none of whose kind has a smaller ts.
Deduped(objects) ==
  {rows \in SUBSET objects :
     /\ \A o \in objects : \E r \in rows : Key[r] = Key[o] /\ Ts[r] <= Ts[o]
     /\ \A r, t \in rows : Key[r] = Key[t] => r = t}
\* KeyCount, and rows_out in the statistics curate.py prints
KeyCount(objects) == IF Cardinality(objects) > ListLimit THEN ListLimit ELSE Cardinality(objects)
RowsOut(j) == Cardinality(KeysOf(curation[j].read))
-----------------------------------------------------------------------------
\* Mutants of the definitions below: plausible bugs, none of them in the code.
\* the post-flight result is reported without a look at its status
PostflightEndsAny(j) ==
  /\ exec[j].state \in {"done", "FAILED"} /\ Drive(j, "postflight", "completed")
  /\ UNCHANGED <<lake, tables, published, exec, adrift, publisher, history>>
\* curate.py is given the keys the pre-flight has listed
CurateReadListed(j) ==
  /\ curation[j].pc = "read"
  /\ \E page \in SUBSET exec[j].saw :
       /\ Cardinality(page) = KeyCount(exec[j].saw)
       /\ curation' = [curation EXCEPT ![j].pc = "overwrite", ![j].read = page]
  /\ Beside(Curating)
  /\ UNCHANGED <<raw, curated, settled, tables, published, driver, exec, adrift, publisher>>
\* partitionOverwriteMode=dynamic: only hours that are written anew are deleted (an hour is
\* one value of Ts)
CurateDeleteDynamic(j) ==
  /\ curation[j].pc = "overwrite"
  /\ curation' = [Disturb(j) EXCEPT ![j].pc = "commit"]
  /\ \E rows \in Deduped(curation[j].read) :
       curated' = {row \in curated : \A r \in rows : Ts[r] # Ts[row[2]]}
  /\ settled' = FALSE
  /\ UNCHANGED <<raw, tables, published, driver, exec, adrift, publisher, history>>
\* two puts in place of the transaction, the second of which may never happen
RecordRowOnly(j) ==
  /\ completed' = [completed EXCEPT ![j] = RowsOut(j)]
  /\ \/ outbox' = [outbox EXCEPT ![j] = "PENDING"]
     \/ UNCHANGED outbox
  /\ UNCHANGED started
\* rows are marked before they are published
PublishEventMarksFirst(p) ==
  /\ publisher[p].pc = "publish"
  /\ \E j \in publisher[p].pending :
       /\ outbox' = [outbox EXCEPT ![j] = "PUBLISHED"]
       /\ publisher' = [publisher EXCEPT ![p] = [@ EXCEPT !.pc = "mark", !.cur = {j},
                                                          !.pending = @ \ {j}]]
  /\ UNCHANGED <<lake, started, completed, published, driver, exec, adrift, history>>
\* no FilterExpression
OnPageUnfiltered(j) == outbox[j] # "none"
-----------------------------------------------------------------------------
\* Consumers store objects, or somebody else does.
AddRaw ==
  /\ \E new \in Arrivals : ~(new \subseteq raw) /\ raw' = raw \cup new
  /\ UNCHANGED <<curated, curation, settled, tables, published, driver, exec, adrift, publisher,
                 history>>

\* run_execution: start_execution, from now on the driver polls.
StartExecution(j) ==
  /\ \/ Drive(j, "new", "preflight") /\ ExecGoes(j, "CheckDataReady")
     \/ /\ curation[j].pc = "done"
        /\ Drive(j, "curating", "postflight") /\ ExecGoes(j, "RecordCompleted")
  /\ UNCHANGED <<lake, tables, published, adrift, publisher, history>>

\* run_daily_job looks at the result of the pre-flight, and runs curate.py ...
PreflightEnds(j) ==
  /\ \/ /\ exec[j].state = "started" /\ Drive(j, "preflight", "curating")
        /\ curation' = [curation EXCEPT ![j].pc = "read"]
     \/ /\ \/ exec[j].state = "nodata" /\ Drive(j, "preflight", "no_data_to_curate")
           \/ exec[j].state = "FAILED" /\ Drive(j, "preflight", "preflight_failed")
        /\ UNCHANGED curation
  /\ UNCHANGED <<raw, curated, settled, tables, published, exec, adrift, publisher, history>>

\* ... of curate.py ...
CurateFailed(j) ==
  /\ curation[j].pc = "failed" /\ Drive(j, "curating", "curate_failed")
  /\ UNCHANGED <<lake, tables, published, exec, adrift, publisher, history>>

\* ... and of the post-flight.
PostflightEnds(j) ==
  /\ \/ exec[j].state = "done" /\ Drive(j, "postflight", "completed")
     \/ exec[j].state = "FAILED" /\ Drive(j, "postflight", "postflight_failed")
  /\ UNCHANGED <<lake, tables, published, exec, adrift, publisher, history>>
-----------------------------------------------------------------------------
\* curate: spark.read.json lists the objects once; counts and write see that list.
CurateRead(j) ==
  /\ curation[j].pc = "read"
  /\ curation' = [curation EXCEPT ![j].pc = "overwrite", ![j].read = raw]
  /\ Beside(Curating)
  /\ UNCHANGED <<raw, curated, settled, tables, published, driver, exec, adrift, publisher>>

\* mode("overwrite") removes what is there before it writes ...
CurateDelete(j) ==
  /\ curation[j].pc = "overwrite"
  /\ curation' = [Disturb(j) EXCEPT ![j].pc = "commit"]
  /\ curated' = {} /\ settled' = FALSE
  /\ UNCHANGED <<raw, tables, published, driver, exec, adrift, publisher, history>>

\* ... and the committer adds the new files, or what others have left of them.
CurateCommit(j) ==
  /\ curation[j].pc = "commit"
  /\ curation' = [Disturb(j) EXCEPT ![j].pc = "done", ![j].disturbed = FALSE]
  /\ \E rows \in Deduped(curation[j].read) :
       \E written \in IF curation[j].disturbed THEN SUBSET rows ELSE {rows} :
         curated' = curated \cup ({j} \X written)
  /\ settled' = ~curation[j].disturbed
  /\ UNCHANGED <<raw, tables, published, driver, exec, adrift, publisher, history>>

\* curate.py dies: perhaps half-way through the deletion or through the commit, and
\* perhaps with an exception, upon which Spark deletes the temporary files.
CurationDies(j) ==
  /\ \E left \in {curation, Disturb(j)} :
       /\ curation[j].pc # "commit" => left = curation
       /\ curation' = [left EXCEPT ![j] = [pc |-> "failed", read |-> {}, disturbed |-> FALSE]]
  /\ \/ curation[j].pc \in {"read", "overwrite"} /\ UNCHANGED <<curated, settled>>
     \/ curation[j].pc = "overwrite" /\ curated' \in SUBSET curated /\ settled' = FALSE
     \/ /\ curation[j].pc = "commit" /\ settled' = FALSE
        /\ \E rows \in Deduped(curation[j].read) : \E written \in SUBSET rows :
             curated' = curated \cup ({j} \X written)
CurateFails(j) ==
  /\ Failure /\ CurationDies(j)
  /\ UNCHANGED <<raw, tables, published, driver, exec, adrift, publisher>>

\* The driver is killed or ends with an exception: TimeoutError while the execution is
\* still running, start_execution failing with or without effect, an error of
\* describe_execution.  Neither Step Functions nor curate.py notices; only when the time
\* of curate.py is up it is killed first.
DriverStops(j) ==
  /\ Failure /\ driver[j] \notin Ended
  /\ \/ driver' = [driver EXCEPT ![j] = "raised"] /\ UNCHANGED <<lake, exec>>
     \/ Drive(j, "new", "raised") /\ ExecGoes(j, "CheckDataReady") /\ UNCHANGED lake
     \/ /\ curation[j].pc = "done"
        /\ Drive(j, "curating", "raised") /\ ExecGoes(j, "RecordCompleted") /\ UNCHANGED lake
     \/ Drive(j, "curating", "raised") /\ CurationDies(j) /\ UNCHANGED <<raw, exec>>
  /\ UNCHANGED <<tables, published, adrift, publisher>>
-----------------------------------------------------------------------------
\* preflight.py, IsDataReady and NoDataToCurate.
CheckDataReady(j) ==
  /\ exec[j].state = "CheckDataReady"
  /\ exec' = [exec EXCEPT ![j] = [state |-> IF KeyCount(raw) > 0 THEN "RecordStarted" ELSE "nodata",
                                  tries |-> 0, saw |-> raw]]
  /\ UNCHANGED <<lake, tables, published, driver, adrift, publisher, history>>

\* record_status.py: put_item of the started row ...
RecordRow(j) ==
  /\ started' = [started EXCEPT ![j] = KeyCount(exec[j].saw)]
  /\ UNCHANGED <<completed, outbox>>
\* ... or transact_write_items of the completed row and the PENDING outbox row.
RecordRowAndEvent(j) ==
  /\ completed' = [completed EXCEPT ![j] = RowsOut(j)]
  /\ outbox' = [outbox EXCEPT ![j] = "PENDING"]
  /\ UNCHANGED started

RecordStatus(j) ==
  /\ \/ exec[j].state = "RecordStarted" /\ RecordRow(j) /\ ExecGoes(j, "started")
     \/ exec[j].state = "RecordCompleted" /\ RecordRowAndEvent(j) /\ ExecGoes(j, "done")
  /\ UNCHANGED <<lake, published, driver, adrift, publisher, history>>

\* An attempt of a task fails or times out; what it asked of DynamoDB may be
\* applied at any time.  Retry, then Catch (or none): the execution fails.
TaskFails(j) ==
  /\ Failure /\ exec[j].state \in Tasks
  /\ exec' = [exec EXCEPT ![j].tries = @ + 1,
                          ![j].state = IF exec[j].tries + 1 < MaxAttempts THEN @ ELSE "FAILED"]
  /\ \/ UNCHANGED adrift
     \/ /\ exec[j].state # "CheckDataReady"
        /\ adrift' = adrift \cup {<<j, exec[j].state, exec[j].tries>>}
  /\ UNCHANGED <<lake, tables, published, driver, publisher>>

ApplyAdrift(w) ==
  /\ adrift' = adrift \ {w}
  /\ IF w[2] = "RecordStarted" THEN RecordRow(w[1]) ELSE RecordRowAndEvent(w[1])
  /\ UNCHANGED <<lake, published, driver, exec, publisher, history>>
-----------------------------------------------------------------------------
\* _pending_events: one Scan, which reads at most PageSize rows and then filters.
OnPage(j) == outbox[j] = "PENDING"
FirstPage ==
  LET rows == {i \in DOMAIN Order : outbox[Order[i]] # "none"}
  IN  {Order[i] : i \in {k \in rows : Cardinality({h \in rows : h <= k}) <= PageSize}}
Scan(p) ==
  /\ publisher[p].pc = "idle"
  /\ LET found == {j \in FirstPage : OnPage(j)}
     IN  /\ found # {}
         /\ publisher' = [publisher EXCEPT ![p].pc = "publish", ![p].pending = found]
  /\ Beside({q \in Publishers : publisher[q].pc # "idle"})
  /\ UNCHANGED <<lake, tables, published, driver, exec, adrift>>

\* publish_pending: sns.publish, then update_item, for one row after the other.
PublishEvent(p) ==
  /\ publisher[p].pc = "publish"
  /\ \E j \in publisher[p].pending :
       /\ published' = [published EXCEPT ![j] = @ + 1]
       /\ publisher' = [publisher EXCEPT ![p] = [pc |-> "mark", cur |-> {j},
                                                 pending |-> publisher[p].pending \ {j}]]
  /\ UNCHANGED <<lake, tables, driver, exec, adrift, history>>
Mark(p) ==
  /\ publisher[p].pc = "mark"
  /\ outbox' = [j \in Jobs |-> IF j \in publisher[p].cur THEN "PUBLISHED" ELSE outbox[j]]
  /\ publisher' = [publisher EXCEPT
       ![p].pc = IF publisher[p].pending = {} THEN "idle" ELSE "publish", ![p].cur = {}]
  /\ UNCHANGED <<lake, started, completed, published, driver, exec, adrift, history>>

\* A call raises, having taken effect or not, or the publisher is killed.
PublisherStops(p) ==
  /\ Failure /\ publisher[p].pc # "idle" /\ publisher' = [publisher EXCEPT ![p] = Quiet]
  /\ \/ UNCHANGED <<published, outbox>>
     \/ /\ publisher[p].pc = "publish" /\ UNCHANGED outbox
        /\ \E j \in publisher[p].pending : published' = [published EXCEPT ![j] = @ + 1]
     \/ /\ publisher[p].pc = "mark" /\ UNCHANGED published
        /\ outbox' = [j \in Jobs |-> IF j \in publisher[p].cur THEN "PUBLISHED" ELSE outbox[j]]
  /\ UNCHANGED <<lake, started, completed, driver, exec, adrift>>
-----------------------------------------------------------------------------
Drives(j) ==
  \/ StartExecution(j) \/ PreflightEnds(j) \/ CurateFailed(j) \/ PostflightEnds(j)
  \/ CurateRead(j) \/ CurateDelete(j) \/ CurateCommit(j)
Executes(j)  == CheckDataReady(j) \/ RecordStatus(j)
Publishes(p) == Scan(p) \/ PublishEvent(p) \/ Mark(p)

Next ==
  \/ AddRaw
  \/ \E j \in Jobs : Drives(j) \/ Executes(j) \/ DriverStops(j) \/ CurateFails(j) \/ TaskFails(j)
  \/ \E w \in adrift : ApplyAdrift(w)
  \/ \E p \in Publishers : Publishes(p) \/ PublisherStops(p)
Spec == Init /\ [][Next]_vars

\* Somebody runs the publisher again and again; nothing else has to make progress.
Fairness == \A p \in Publishers : WF_vars(Publishes(p))
FairSpec == Spec /\ Fairness
-----------------------------------------------------------------------------
Counts       == 0 .. Cardinality(Objects)
DriverStates == {"new", "curating"} \cup Waiting \cup Ended
ExecStates   == {"none", "started", "nodata", "done", "FAILED"} \cup Tasks
CurateStates == {"none", "read", "overwrite", "commit", "done", "failed"}

\* Every variable stays in its type, and no task is attempted more than MaxAttempts
\* times.
TypeOK ==
  /\ raw \subseteq Objects /\ curated \subseteq Jobs \X Objects /\ settled \in BOOLEAN
  /\ curation \in [Jobs -> [pc : CurateStates, read : SUBSET Objects, disturbed : BOOLEAN]]
  /\ started \in [Jobs -> Counts \cup {Absent}] /\ completed \in [Jobs -> Counts \cup {Absent}]
  /\ outbox \in [Jobs -> {"none", "PENDING", "PUBLISHED"}] /\ published \in [Jobs -> Nat]
  /\ driver \in [Jobs -> DriverStates]
  /\ exec \in [Jobs -> [state : ExecStates, tries : 0 .. MaxAttempts, saw : SUBSET Objects]]
  /\ adrift \subseteq Jobs \X Tasks \X (0 .. MaxAttempts)
  /\ publisher \in [Publishers -> [pc : {"idle", "publish", "mark"},
                                   pending : SUBSET Jobs, cur : SUBSET Jobs]]
  /\ \A j \in Jobs : exec[j].state \in Tasks => exec[j].tries < MaxAttempts
  /\ failures \in Nat /\ overlaps \in Nat /\ failures + overlaps <= MaxMishaps

\* The event never runs ahead of the fact, nor the status ahead of the event: what
\* is on the topic is recorded as completed, and a row is PUBLISHED only when its
\* event is on the topic, whatever dies, is retried or applied late.
EventsFollowFacts ==
  \A j \in Jobs : /\ published[j] > 0 => completed[j] # Absent
                  /\ outbox[j] = "PUBLISHED" => published[j] > 0

\* The report of run_daily_job agrees with the tables, through the retries of Step
\* Functions and writes applied late: a job reported completed has both its rows
\* and its event, and one reported to have ended earlier has no completed row.
ReportIsTrue ==
  \A j \in Jobs :
    /\ driver[j] = "completed" =>
         started[j] # Absent /\ completed[j] # Absent /\ outbox[j] # "none"
    /\ driver[j] \in {"preflight_failed", "no_data_to_curate", "curate_failed"} =>
         completed[j] = Absent
    /\ driver[j] = "no_data_to_curate" => started[j] = Absent

\* Curation loses no rows ("sin perder filas", docs/specs/spec-curation-batch.md) and keeps
\* one per key, that of the first ts: once the curation that emptied the dataset last has
\* gone through, whatever lay there when the pre-flight of any curated job counted has its
\* row, though others failed half-way before, lost their drivers or saw less.  Only runs of
\* curate.py that overlap can undo each other.
NoRowsLost ==
  settled /\ overlaps = 0 =>
    /\ \A j \in Jobs : curation[j].pc = "done" => \A o \in exec[j].saw :
         \E row \in curated : Key[row[2]] = Key[o] /\ Ts[row[2]] <= Ts[o]
    /\ \A row, other \in curated : Key[row[2]] = Key[other[2]] => row = other

\* _warehouse_con (api.py): the view covers the files that match the glob.  When there
\* are none it is a stub without the column ingest_hour.
StubView == curated = {}
\* GET /metrics/sla: the rows of the view; over the stub the query raises.
SlaRows == IF StubView THEN Absent ELSE Cardinality(curated)

\* In the same circumstances the API answers: it reports no fewer rows than any completed
\* job has told the event's readers, and no more than there are transactions.
SlaIsTrue ==
  settled /\ overlaps = 0 =>
    /\ SlaRows <= Cardinality(KeysOf(raw))
    /\ \A j \in Jobs : completed[j] # Absent => SlaRows >= completed[j]

\* Events are published twice only because something failed or two publishers ran
\* at once.
OnceUnlessMishap == failures + overlaps = 0 => \A j \in Jobs : published[j] <= 1

\* No completed job goes unannounced: its event reaches the topic in the end,
\* through crashes of the publisher and of everything else.
EventNotLost == \A j \in Jobs : completed[j] # Absent ~> published[j] > 0
=============================================================================
