# A TLA+ model of the transaction integrity pipeline

The repository takes payment events from producers, lets an *idempotency gate* decide which of
them are seen for the first time, stores those exactly once in S3, and curates them in daily or
incremental batches whose completion is announced through an outbox. This directory holds the TLA+
modules that model it, the TLC configurations that check them on small instances, and the TLAPS
proofs, for every value of the constants, of every safety property those configurations check.

Paths below are relative to the repository. `main.go` is `src/ingestion/gate/main.go`.
`PROJECT.json` maps each definition to the lines it models.

## 1. The system

| Component | State it keeps | Operations | Talks to |
|---|---|---|---|
| gate, `POST /accept` (`main.go:162`) | table `txn-idempotency` (in DynamoDB) | bind, cache lookup, conditional `PutItem`, cache add, two atomic adds, response | DynamoDB, cache, counters |
| gate, recent-keys cache (`main.go:96`) | linked list and map under a mutex | `Contains`, `Add` with eviction | |
| gate, metrics (`main.go:52`) | two atomic counters; item in `txn-gate-metrics` | add, swap, `UpdateItem`, restore after an error | DynamoDB |
| gate, `POST /accept/batch` (`main.go:261`) | the same table and counters | `BatchGetItem`, classify, `BatchWriteItem` in chunks of 25, adds, response | DynamoDB, counters |
| `ingestion/data_gen.py`, `utils/synth.py` | | write a shuffled file of events and retries | publisher |
| `ingestion/publisher.py` | position in the file | one `sns.publish` per line | SNS -> SQS |
| `ingestion/consumer.py` | the batch of messages in hand | receive, `process_message`, delete, stop when idle | SQS, gate, validator |
| `models/validator.py` | schema registry object; `txn-raw`, `txn-quarantine` | `ensure_schema_registry`, `validate_event`, put | S3 |
| `orchestration/statemachine.py` | a run of the daily job | deployment, then two executions and `curate.py` between them | IAM, Lambda, Step Functions, subprocess |
| Step Functions and Lambdas (`asl/`, `orchestration/lambdas/`) | execution state; `txn-curation-jobs`, `txn-outbox` | tasks with Retry and Catch, `preflight`, `record_status` | S3, DynamoDB |
| `orchestration/outbox_publisher.py` | scanned rows | scan, publish, mark | DynamoDB, SNS |
| `transformation/curate.py` | `txn-curated/txn_events/` | read all, deduplicate, overwrite | S3 |
| `transformation/curate_incremental.py`, rows from `scripts/scale_bench.py` | Bloom filter (in process), `txn-curated-keys`, one dataset per batch | create the table, filter partitions, register keys, write, add to the filter | DynamoDB, S3 |
| `serving/api.py`, `utils/warehouse.py` | none | `get_txn`, `dedup_metrics`, `sla_metrics` | S3, DynamoDB |
| `scripts/bootstrap.py`, `scripts/iam_setup.py`, deployment in `statemachine.py` | the AWS account | look up, create or adjust each resource | all of AWS |
| not modelled | see section 7 | | |

What makes it hard, and what would make it correct:

* **Gate.** Go runs one goroutine per request. Requests with one key race through the cache to one
  conditional write; a `PutItem` may be lost, repeated by the SDK, or applied after its caller gave
  up; the process may die and come back with an empty cache. Correct: one acceptance per key, by
  the request whose row is stored; the cache never refuses what the table does not hold; a key is
  not refused to everybody; every call ends.
* **Counters.** `flushMetrics` swaps two counters in two steps while handlers add to them, and adds
  them back after an error. Correct: nothing is left out, and nothing is counted twice but for an
  ADD that was applied without an answer.
* **Batches.** `BatchGetItem` and an unconditional `BatchWriteItem` are apart, and leave keys
  unprocessed under throttling. The code documents the race; correct is then: *only* calls that
  overlap can both accept, and no key is lost to the race.
* **Ingestion.** SQS delivers again after a timeout; consumers die between the gate's answer and
  the put; the queue has a dead-letter queue. Correct: at most one object per key, never
  overwritten; nothing undecided is deleted; every message settles.
* **Daily job.** Step Functions retries a Lambda whose first attempt may still be applied, and
  goes on when the driver has died; the publisher dies between publish and mark. Correct: events
  never run ahead of facts, none is lost, reports agree with the tables, and a curation that goes
  through leaves every row, once per key.
* **Incremental curation.** A Bloom filter that starts empty with each run stands before a table
  and datasets that persist, and runs may overlap. Correct: rows stay in their own batch's dataset,
  every row is registered, a dataset is one run's, the replayed rows are caught, and a first run
  loses nothing.
* **Serving.** Readers look at two buckets, two counters or a set of files while writers are
  between two steps. Correct: what the pipeline is done with is found; the reported rate is exact
  at rest; the reported row count is never below a completed job's.
* **Set-up.** Sessions fail half-way, are repeated, overlap, and find what earlier versions made.
  Correct: nothing is created before what it names; a finished session has made every policy, code
  and definition this version's, and has left nothing half-made; repeating a session is refused
  nothing; every session completes in the end.

The `hazards` list of `PROJECT.json` has each of these at its line.

## 2. Modules

| Module | Part | Extends | Checked by | Theorems |
|---|---|---|---|---|
| `LruCache` | operators of the cache | | | `LruProofs` (lemmas) |
| `RecentKeys` | the cache alone | `LruCache` | `MCRecentKeys` | `RecentKeysProofs` |
| `AcceptOnce` | the abstract promise of `/accept` | | `MCGate`, by `INSTANCE` in `Gate` | `Refinement` in `GateProofs` |
| `Gate` | `/accept`, flusher, process | `LruCache` | `MCGate` | `GateProofs` |
| `GateBatch` | `/accept/batch` composed with `/accept` | `Gate` | `MCGateBatch` | `GateBatchProofs` |
| `Ingest` | generator, publisher, SQS, consumers, validator, S3, a reader | | `MCIngest` | `IngestProofs` |
| `DailyJob` | driver, executions, `curate.py`, outbox | | `MCDailyJob` | `DailyJobProofs` |
| `CurateIncremental` | `curate_incremental.py` | | `MCCurateIncremental` | `CurateProofs` |
| `Provision` | `bootstrap.py`, `iam_setup.py`, deployment | | `MCProvision` | `ProvisionProofs` |

`RecentKeysProofs` and `GateProofs` use the lemmas of `LruProofs`, and `GateBatchProofs` those of
`GateProofs`.

**`LruCache`** has the methods of `lruCache` as operators on a record of the list (`ll`) and the
key set of the map (`items`). Every method holds the mutex from first to last line, so each is
atomic. List and map are kept apart so that they could disagree. **`RecentKeys`** drives them in
every order and compares the list with a clock that knows nothing of it.

**`Gate`** is `/accept`, the flusher and the process. `phase[r]` is where the handler of request
`r` is; each action is one step that others can come between: `Receive` (`Contains`), `PutItem`,
`LoseAttempt` (an attempt nobody answered: the SDK repeats it, or the handler answers 500),
`ApplyAdrift` (DynamoDB applies it after all), `AddToCache`, `CountDuplicate`, `CountRequest`,
`Respond`. `SwapTotal` ... `RestoreDups` are the steps of `flushMetrics`. `Crash` loses everything
that is not in DynamoDB. A request is stored under its own identity, which stands for its
`txn_id`. `DedupMetrics` is what `GET /metrics/dedup` makes of the stored counters.

**`AcceptOnce`** says what `/accept` promises and nothing else: a key is claimed once, for ever;
only its claimant is told "accepted"; "duplicate" is only said of a claimed key. `Gate` maps
`owner` to the table and `reply` to what the phases have told the caller (`ImplementsAcceptOnce`).

**`GateBatch`** extends `Gate`: the batch handlers share its table and counters, not its cache
(`main.go` consults the cache only in `/accept`). The keys of a `BatchGetItem` and the items of a
`BatchWriteItem` take effect one by one, since DynamoDB promises no atomicity for either. Throttled
keys and items are left out without a trace, as the handler ignores `UnprocessedKeys` and
`UnprocessedItems`. `earlier` records which calls had been answered when a call arrived.
A put of a batch that failed or died may be applied at any later time (`PutWritten`) and carries no
condition, so it may replace a row that was accepted meanwhile; `OnlyOverlapsReplace` says how far
that goes.

**`Ingest`** takes the gate as `AcceptOnce`'s promise: the first `Post` of a key claims it, and may
be told 409 or nothing when the gate's own call went unanswered. `Origin` says which messages of
the generated file are retries of which (`KeyOf`), and `Publish` takes any unsent message, since
the file is shuffled. A consumer goes through the remote calls of `process_message` one at a time;
each may fail before or after it took effect, and a failure leaves the message in the queue
(`GiveUp`, the `except` of `run`). `Expire`, `Redrive` are SQS; `Upgrade` is an operator raising the
schema version; `Delete` with an old receipt may or may not delete. `GetRaw` and `GetQuarantined`
are the two reads of the API's `get_txn`, beside everything else.

**`DailyJob`** has one driver, one current execution and one `curate.py` per job. Execution and
curation go on without their driver: `DriverStops` covers `TimeoutError`, exceptions and kills, and
only the driver whose 180 seconds for the subprocess are up kills it. `TaskFails` is an attempt that
failed for Step Functions; its write may stay `adrift` and be applied at any time by `ApplyAdrift`.
`RecordRowAndEvent` is the one transaction of `record_status.py`. Objects have an `idempotency_key`
(`Key`) and a `ts`, since `curate.py` deduplicates data that bypassed the gate: `Deduped` is its
window, of each key one row with the smallest `ts`, any of them when there are several.
`mode("overwrite")` is two steps, `CurateDelete` and `CurateCommit`; a curation that overlaps another
may commit what the other has left of its temporary files (`Disturb`), and `CurationDies` may leave
any part of the deletion or of the commit. `curated` is the set of rows in the files, each with the
job that wrote it, so that `SlaRows` is what `GET /metrics/sla` reads between and after these steps
(`StubView`: no file matches). `settled` records that the curation which emptied the dataset last has
gone through, `overlaps` and `failures` that runs overlapped or something failed. `Scan` reads one
page and filters afterwards, as `outbox_publisher.py` does.

**`CurateIncremental`** has a run per operator, with a filter of its own, over one table and one
dataset per batch. `ListTables` and `CreateTable` are two calls. `StartBatch` replays some of the
sample handed over by the batch before (`Replays`), empties the batch's dataset
(`mode("overwrite")`) and asks the filter about each key; `MightContain` compares the bits of a key
(`Positions`) with those set, so that false positives come from the bits and from nothing else. Each
key that may be known goes through `Lookup`, each new one through `Register`, and keys of a batch
interleave, since partitions are filtered in parallel. `Commit` adds the files, or what another
writer of the dataset has left of them (`Disturb`: Spark deletes the dataset, or the temporary
directory all its writers share). `Stop` ends a run anywhere, `Start` begins the next one over what
was left. `origin` fixes which rows of a batch share a key (`synthetic_events_df`, whose seeds are
fixed).

**`Provision`** walks a session through `Program`, the resources in the order of `bootstrap.py` and
the deployment in `statemachine.py`. Each is looked up (`Look`), created (`Create`) or adjusted
(`Adjust`); `Wait` is `_wait_active`. A listing that is paged shows nothing of
`Unlisted`; buckets and queues are looked up in ways that see them all. What exists is refused if its
kind can be created only once, or if it differs from what is asked for. `Init` also has accounts that
an earlier version of the repository set up. Two things may differ there and are kept apart. `cloud`
says whether redrive, policy, code or definition are of an earlier version (`"old"`), which
`set_queue_attributes`, `put_role_policy`, `update_function_code` and `update_state_machine` repair.
`params` says with whose parameters a resource was created, and those calls leave them: a function
keeps its role, runtime and handler, a state machine its role, a role its trust policy, and nothing
at all is set again on a subscription or a table. `Lasting` are the resources that keep something;
the constant `Earlier` says which of them the earlier version created otherwise. A queue's
`set_queue_attributes` does set all that `create_queue` sets. A refused creation ends a session
`"refused"`, a refused update of a function that is still settling `"busy"`.

Each module has a section of *mutants*, operators that change one definition the way a plausible
bug would. They are not used by the specification; they show which bug each property would catch.

## 3. What is checked

| Run | Module | Distinct states | Question | Result |
|---|---|---|---|---|
| `recent_keys` | MCRecentKeys | 219, up to symmetry | do list and map agree, is exactly the least recently used key evicted? | holds |
| `gate_faults` | MCGate | 330 650, up to symmetry | does `/accept` keep its promise through lost, repeated and late writes, eviction and a crash; does it implement `AcceptOnce`? | holds |
| `gate_live` | MCGate | 39 380 | does every call end, are all counts written exactly, but for unacknowledged ADDs, is the reported rate exact at rest? | holds |
| `gate_batch` | MCGateBatch | 1.46 million | what does `/accept/batch` promise beside `/accept`? | holds |
| `ingest` | MCIngest | 1.66 million, up to symmetry | at most one object per key, nothing undecided acknowledged, what is done is found? | holds |
| `ingest_live` | MCIngest | 44 621 | does every message settle, every key get stored? | holds |
| `daily_job` | MCDailyJob | 280 648 | do reports, events, tables and the SLA view agree, is no event and no row lost? | holds |
| `curate_incremental` | MCCurateIncremental | 2.33 million, up to symmetry | rows in their own batch, registered and of one run; replays caught; nothing lost in a first run? | holds |
| `provision` | MCProvision | 180 920 | does nothing dangle, does every session complete, and what has it then made this version's? | holds |
| `gate_repeat` | MCGate | | is a request that is told 409 always a repeat? | violated |
| `ingest_crash` | MCIngest | | does a crashing consumer lose no data? | violated |
| `curate_rerun` | MCCurateIncremental | | has every key a row after a run that went through? | violated |

### Bounds, and why they are enough

* `recent_keys`: five keys, capacity three, eight uses. The cache fills, evicts every key it held,
  and takes one of them back. Keys are symmetric.
* `gate_faults`: three requests, two of them for one key, capacity one. Two concurrent claimants of
  one key and a third request that evicts it cover winner, loser, hit, miss and eviction; two
  attempts cover "repeated" and "given up"; one crash covers empty cache and reset callers. The
  properties are also proved for all values (section 5), so the bounds serve only to
  find mistakes early. The metrics table is reliable here: the accounts are the next run's.
* `gate_live`: the same with a request that does not bind, a failing metrics table and one applied
  ADD without an answer. No crash: a crash loses counts by design (`main.go:58`).
* `gate_batch`: one `/accept` call, a batch of three events that carries one key twice, a batch of
  one, chunks of one item. So there are repeats inside a body, several chunks with other handlers
  between them, partly written batches, and races between any two of the three calls.
* `ingest`: an event and its retry, two consumers and a reader, two deliveries each, crashes
  without a bound, early timeouts and every call failing, schema versions 1 and 2 (events of
  version 1 are stored before an upgrade and quarantined after it).
* `ingest_live`: one consumer, an event, its retry and an event that does not bind, with the same
  failures except that no message times out while it is worked on; a failure of the publisher ends
  the file.
* `daily_job`: two jobs that run one after the other or overlap, one publisher, two attempts per
  task, and two mishaps in all (`MaxMishaps`), each a failing call, a dying process or an overlap of
  curations. Two suffice for a task to fail for good, for a driver to die while a write is adrift, or
  for a curation to fail half-way and the next one to be disturbed. Three objects come in two lots,
  before, between and during the jobs; two of them have one key, and the one with the later `ts` may
  come first, so that the window has rows to choose from and the row it keeps changes. The listing
  limit of two is reached, and passed. The page holds the whole outbox; what happens beyond the
  first page is observation (b) of section 6. The invariants are also proved for all values.
* `curate_incremental`: two operators, two runs between them, so that a run is repeated by the same
  operator, by the other, or overlaps the other's at any point; two batches of two rows, with every
  choice of retries in a batch; a sample of one key, which the second batch replays. The bits of the
  two keys of the first batch together cover those of a key of the second: a false positive that
  only happens when both were added. The five invariants are
  also proved for all values (section 5).
* `provision`: two sessions at once or one after the other, one repetition of a finished one, one
  failing call, on a fresh account and on one an earlier version set up, in which one subscription,
  table, role, function and state machine were created with other parameters. Every listing fits one
  page (`Unlisted` empty); what happens otherwise is observation (e) of section 6. The invariants
  are also proved for any number of sessions, repetitions and failures.

`CHECK_DEADLOCK FALSE` is set where everything may be done: all jobs ended, all runs used up, all
sessions finished (`daily_job`, `curate_incremental`, `curate_rerun`, `provision`). The gate and the
ingestion never stop (the flusher ticks, consumers restart), and deadlock is checked in their runs,
as it is for the cache.

### Fairness

* `Gate`: weak fairness of each handler and of the flusher. The Go runtime schedules runnable
  goroutines, the SDK bounds attempts and time of each call, and a ticker calls `flushMetrics` for
  as long as the process lives. `ReliableFlush` (strong fairness of `UpdateItem`) says that the
  metrics table does not fail for ever; only `MetricsConverge` needs it.
* `Ingest`: weak fairness of a consumer's steps; SQS makes messages visible again and redrives
  them; an operator starts stopped consumers, as the RUNBOOK has them do. Strong fairness of
  `Receive`: a consumer that polls again and again gets a message that is visible again and again.
  Failures are never fair.
* `DailyJob`: weak fairness of the publishers, as an operator or a schedule runs
  `outbox_publisher.py` again and again. `EventNotLost` needs nothing else: drivers, curations and
  executions may stop anywhere, and writes adrift may be lost.
* `Provision`: weak fairness of each session's next call and of AWS settling a function, and an
  operator repeats a session that ended with an exception, as `make` users do. Failing calls are
  never fair.

`RecentKeys`, `GateBatch` and `CurateIncremental` need no fairness: their properties are invariants
and action properties.

### What the properties say

The comment before each property says it in words and names the code it is about. The ones to read
first: `ImplementsAcceptOnce`, `SomeoneWins`, `NothingUndercounted`/`NothingOvercounted` (Gate),
`OnlyOverlapsRace` and `EveryKeyAccepted` (GateBatch), `ExactlyOneObject` and `ClaimedIsHandled`
(Ingest), `ReportIsTrue`, `EventNotLost` and `SlaIsTrue` (DailyJob), `CaughtIsReplayed` and
`FirstRunComplete` (CurateIncremental), `DoneIsReady` and `EverySessionCompletes` (Provision).

Several of them have a precondition on a history variable, because without it the code does not
keep them and does not claim to: `SomeoneWins` needs that no `PutItem` went unanswered (finding 1),
`ClaimedIsHandled` that no call failed (finding 2), `OnlyOverlapsRace` that DynamoDB did not
throttle (`main.go:257-259` documents that it does not retry), `NoRowsLost` and `SlaIsTrue` that no
two runs overlapped and that the latest curation to begin its overwrite has gone through,
`OnceUnlessMishap` that nothing failed or overlapped, `OneWriter` that no two runs overlap,
`Repeatable` that sessions do not. In each run states with and without the mishap are both reached.

## 4. Findings

1. **A first-time request can be told 409** (`gate_repeat`). `main.go:3-4` says 409 means
   "duplicate, already processed". If DynamoDB applies a `PutItem` whose answer is lost, the SDK
   repeats it and the condition fails against the request's own row. Its caller is told that
   someone else had processed it.
2. **A consumer that crashes can lose a transaction** (`ingest_crash`). `docs/RUNBOOK.md:196` says
   it cannot. Between the gate's 200 and the S3 put the key is claimed and not stored; the
   redelivered message is answered 409, counted as a duplicate and deleted.
3. **A re-run of the incremental curation can drop rows** (`curate_rerun`). The docstring says
   "at-least-once for the curated layer" (`curate_incremental.py:46`). A second run has a new Bloom
   filter and the old table: a false positive sends a key to the table, which knows it from the
   first run; the key is dropped and the dataset is overwritten without it.

## 5. What is proved

All proofs are checked by TLAPS, from the specification of the module and the assumptions on its
constants: for any finite set of events, any cache capacity and number of attempts and crashes
(`GateAssumption`, `CapacityAssumption`), any finite set of batches of any content, whose events are
not those of single requests, and any chunk size (`BatchAssumption`), any number of consumers, any
finite set of messages (`IngestAssumption`), any finite sets of jobs and objects, any number of
publishers, attempts and mishaps and any page and listing limit (`DailyJobAssumption`), any number of operators, batches, rows and runs and any filter
(`CurateAssumption`), any number of sessions, repetitions and failures, any `Unlisted` names
and any `Earlier` resources of a lasting kind (`ProvisionAssumption`). One theorem has a hypothesis of its own, `CreationIdempotent` (below).

Every invariant and every action property of the passing runs of section 3 is the subject of a
theorem. Most are not inductive; what follows names the inductive invariant behind each and says why
it is needed. Each was checked with TLC on an instance of section 3 before it was proved.

* **`LruProofs`**: what `Lookup` and `Add` return. The cache stays a cache; a lookup changes no
  membership; an add brings in at most the key it was given. A cache whose list and map agree
  (`Matched`) stays so. `MoveToFrontList` and `AddNewList` say where every key of the list goes:
  the key in hand comes first and the others follow in the order they had (`Fronted`), but for the
  last, which `Add` drops from a full list.
* **`RecentKeysProofs`**: `CacheTypeCorrect`, `CacheItemsMatch` and `CacheKeepsRecent`, from
  `RecentInv`, their conjunction. None is inductive alone: that the evicted key is the least recently
  used needs the list to be in order, and that no key is in the list twice needs the map to say so
  before `Add` puts one in front.
* **`GateProofs`**
  * `TypeCorrect`: `TypeOK`.
  * `CacheStaysWhole`: what `RecentKeysProofs` shows of the cache alone holds of the one inside the
    gate, whatever handlers and crashes do: list and map agree, and the capacity is kept.
  * `ClaimsInvariant`: `Claims`, the inductive invariant. `AtMostOneAccepted` is not inductive: it
    says nothing of a handler that has won and not yet answered. `Claims` says that from the moment
    `PutItem` returned the winner's row is its own, that whoever is about to be refused has a row
    to be refused for, and that the cache holds only keys with a row. As no step changes a row
    that exists, each step keeps it, `ApplyAdrift` and `Crash` included.
  * From it `ExactlyOnce`, `AcceptedIsStored`, `CacheIsSound`, `RefusalsAreClaimed`. Two accepted
    requests with one key would both be the row's owner.
  * `RowsImmutable`: the action property, action by action.
  * `NoKeyIsLost`: `SomeoneWins`, from `RowsHaveWinners`: while nothing was lost, every row belongs
    to a request that has won.
  * `Refinement`: `Spec => ImplementsAcceptOnce`. Most steps are a stutter of `AcceptOnce`;
    `PutItem` and `ApplyAdrift` are `Claim`; `Respond` is `Accept` or `Refuse`, enabled because of
    `Claims`; errors and `Crash` are `Fail`.
  * `NoUndercount` and `NoOvercount`, from `Accounts`, which adds what the flusher holds at each of
    its steps. Without it a flusher at rest could hold old counts, and a later restore would add
    them twice. `HandlerCounts` says that a handler step adds one request to the counted ones exactly
    when it adds one to the counter.
  * `RateIsExact`: from `Accounts` at rest, where both of its bounds meet.
* **`GateBatchProofs`**: the composition of both endpoints, with `AllSpec`. `Claims` does not hold
  here, since a batch may replace a row, so the invariants are others.
  * `BatchTypeCorrect`: the types; what `GateProofs` shows of the types under the steps of `/accept`
    is used again.
  * `ReplacedByOverlap`: the action property `OnlyOverlapsReplace`. Puts in hand and puts applied
    late need different facts. For the first, `HistoryInv` (below) says that what was accepted before
    the batch arrived is none of its new keys; for the second, `LatePuts` says that a put still to be
    applied belongs to a batch that failed or died after its read, so that the same holds of it.
  * `BatchRowsWritten`, from `RowsInv`: which keys of a batch still have no row of their own
    (`Outstanding`) at each point of the two loops of chunks and items (`BatchShape`, `BatchRows`),
    and that cache and refusals of `/accept` still have rows behind them (`RequestRows`).
  * `OverlapIsTheOnlyRace`, from `HistoryInv`: what a call answered before `x` arrived accepted is
    barred for `x` (`Barred`): it will find the row, in its read or in its `PutItem`. The property
    itself says nothing of a call that has not read yet.
  * `SomeCallAccepts`, from `CalmInv`: when nothing failed, behind every row there is a call that
    has accepted its key or will (`Claimant`). That is why the documented race costs a second
    acceptance and never a lost key.
  * `BatchBooks`, from `CountsInv`: the books, and what the flusher holds at each step. A batch
    counts all its duplicates in one addition; `Classify` has to have told them apart by then.
* **`IngestProofs`**
  * `TypeCorrect`, from `TypeInv`: a consumer at work has a message in hand.
  * `OneObject`, `AckAfterClaim`, `ObjectsAreFinal`, from `Chain`. `ExactlyOneObject` alone is not
    inductive: that nobody else stores the key follows from its having been claimed by one `Post`,
    so `Chain` says that keys in hand are claimed, in one consumer's hand, and not stored, and that
    a consumer about to delete holds a claimed key.
  * `ClaimsAreHandled`, from `Handled`: while no call failed, each step that takes a claimed key
    out of a consumer's hand stores it.
  * `FoundOnceAcked`: the reader's `AckedIsFound`, from the two above: what was settled when the
    first bucket was read is stored, not in `txn-raw`, hence and for ever in `txn-quarantine`.
  * `OnlyRefusedDie`, from `Orderly`: until something goes wrong a bindable message is received
    once, by the one consumer that holds it with its latest receipt until it deletes it; so none
    is ever visible again, let alone dead.
* **`DailyJobProofs`**
  * `TypeCorrect`, from `TypeInv`: `CheckDataReady` writes nothing, so no write of it is adrift.
  * `EventsFollow` and `ReportCorrect`, from `DailyInv`. A report is about tables that three parties
    write, so `DailyInv` says of each job how far driver, curation and execution are from each
    other (`InStep`, `BetweenFlights`), which writes may still arrive late and what they would write
    (`StartedInv`, `CompletedInv`: a late attempt writes the row that is there or the row that is to
    come), that objects are only added between pre-flight and curation (`RowsInv`), and of the
    publishers that what they hold is in the table and what they mark has been published
    (`PublisherInv`, `EventInv`). The last is needed because a retried transaction makes a published
    row `PENDING` again.
  * `PublishedOnce`, `NothingLost` and `SlaCorrect`, from `DailyInv` and `Undisturbed`. Until the
    first mishap a published event is in the hand of the publisher that marks it (`OncePending`).
    Until the first overlap one curation at a time has the dataset, and once it has gone through,
    there is a row for whatever any curation that went through had read, and one per key
    (`OneCuration`): the dataset shrinks only in the hands of a curation that has read all there
    was, so one that dies half-way does no harm that the next does not repair.
* **`CurateProofs`**
  * `TypeCorrect`, from `TypeInv`.
  * `OnlyOwnBatch` and `RegisteredFirst`, from `Sound`: while DynamoDB does not throttle, what a
    run replays is in the table and in its filter, what it takes for new is of its own batch, what
    it still has to look up is one or the other. The filter errs on one side only (`MightContain`
    after `AddAll`), and that is the side `Sound` needs.
  * `NoMixedDatasets`, from `Alone`: while runs do not overlap, one is active and the dataset it
    filters for is empty.
  * `NothingLostAtFirst` and `ReplaysAreCaught`, from `First`: in the first run the table holds keys
    of earlier batches and those it registered itself, so no key of its own is dropped.
* **`ProvisionProofs`**
  * `NeedsBefore`: in the order of `bootstrap.py` and `run_daily_job` each resource comes after all it
    names, from the two lists and `Named`.
  * `NothingEverDangles` and `DoneMeansReady`, from `ProvisionInv`: a session leaves every resource
    behind it effective (`Good`) and, but for what an earlier version's creation fixed, with this
    version's parameters; and that stays so, whatever other sessions and AWS do (`CloudGrows`). They
    hold for any `Unlisted` and any `Earlier`: names that are not listed stop a session, they do not
    make it skip.
  * `CreationIdempotent`, under `Unlisted = {}`, from `AloneInv`: what a session that overlaps no
    other has looked up is still so when it acts on it (`Fresh`). The hypothesis is needed: a table
    that is not on the first page is created again and refused (observation (e)).

Theorems whose properties no run lists, since no run would add to them: `AcceptedIsStored`,
`RefusalsAreClaimed`, `RowsImmutable` and `ObjectsAreFinal`, which say more than the run's properties,
`CacheStaysWhole`, and the types of the modules whose runs check only deeper properties
(`CacheTypeCorrect`, `BatchTypeCorrect`, `TypeCorrect` of `CurateProofs` and `DailyJobProofs`).

Only model-checked: the liveness properties, which rest on fairness and so on ENABLED, out of the
prover's reach. They are `EveryRequestEnds` and `MetricsConverge` (Gate), `EveryMessageSettles` and
`EveryKeyStored` (Ingest), `EventNotLost` (DailyJob) and `EverySessionCompletes` (Provision). The
three findings are counterexamples of TLC and need no proof.

## 6. Observations without a run

* (a) `main.go:369` defers a last flush, but `router.Run` returns only into `log.Fatal` and a signal
  kills the process, so it never runs: a stopped gate drops its last counts. In the model there is
  no action for it; `Crash` covers every end of the process.
* (b) `outbox_publisher.py:37` makes one `Scan` call, which reads at most 1 MB *before* it filters;
  `PUBLISHED` rows are never removed. Once they fill the first page, `PENDING` rows behind it are
  never seen, though the docstring (lines 18-20) says nothing breaks when rows accumulate until the
  publisher runs again. With `PageSize = 1` in
  `MCDailyJob.cfg` TLC refutes `EventNotLost`.
* (c) `main.go:61-62` says a crash costs at most the counts of one flush interval. After failed
  flushes the process holds the counts of several.
* (d) `preflight.py:21` counts one page of `list_objects_v2`: `raw_object_count` stops at 1000.
  The objects beyond it are curated all the same, as `curate.py` lists them itself: `NoRowsLost`
  speaks of all that lay there when the page was counted.
* (e) Every listing of the set-up reads one page (`list_tables`, `bootstrap.py:83`;
  `list_subscriptions_by_topic`, line 69; `list_functions`, `statemachine.py:67`; `list_roles`,
  `iam_setup.py:49`). A table, role or function beyond it is created again and refused, each time. (Buckets and
  queues are looked up without pages, lines 25 and 44.)
  With a name in `Unlisted` TLC refutes `Repeatable` and `EverySessionCompletes`, whereas `bootstrap.py:2` says
  "Idempotent creation".
* (f) `_wait_active` (`statemachine.py:83`) looks at `State`, not at `LastUpdateStatus`: a session
  that comes while an update is in progress is refused the next one (it ends `"busy"`), and one that
  just updated a function does not wait for the new code (`DoneIsReady` allows for that).
* (g) The set-up repairs what exists only in part. A subscription that exists is left as it is
  (`bootstrap.py:69-72`); one made without raw delivery would stay so, and every message of it would
  fail to bind. A table keeps its key (`bootstrap.py:84`). `update_function_code`
  (`statemachine.py:69`) leaves a function the role, runtime and handler it was created with,
  `update_state_machine` (`statemachine.py:101`) passes no role, and `ensure_role` does not touch the
  trust policy of a role that exists. `DoneIsReady` says what a finished session answers for and
  excepts these. A set-up that changed one of them would have to be started on a new account.
* (h) `ensure_schema_registry` (`validator.py:29`) takes every `ClientError` of `head_object` for
  absence and writes version 1 over a newer one, whereas `docs/data-dictionary.md:31-32` says the
  registry is created on first use if absent. Events of the newer version are quarantined from then
  on. `HeadRegistry` has this behaviour; the properties hold with it.
* (i) The two counters of a flush come from two swaps: between `POST`s the ratio of
  `GET /metrics/dedup` mixes requests of one flush with duplicates of another and may exceed 1 for a
  while. `RateIsExactAtRest` says it does not last.
* (j) While `curate.py` is between delete and commit, after one that died there, and before the
  first, `GET /metrics/sla` queries a stub view without the column `ingest_hour` and raises. Two
  curations at once may leave the rows of both, or lose some to each other's clean-up; `NoRowsLost`
  and `SlaIsTrue` except them.
* (k) `get_txn` reads any error of S3 as absence (`api.py:48`): a client may be answered 404 for a
  stored transaction. `AckedIsFound` excepts failed calls.
* (l) The CLI of `validator.py` calls the same handler for the lines of a file without asking the
  gate, and may overwrite objects that the gate's winner stored.
* (m) Row 0 of `synthetic_events_df` keeps its own key even when drawn as a retry; `RetryOrigins`
  follows from that.

## 7. Not modelled

* `utils/quality.py`: sequential scoring of measured numbers, called by the end-to-end test only.
* `utils/vectors.py`, `utils/llm/`: no part of the pipeline calls them.
* `scripts/aws_inspect.py`, `scripts/bench.py`, the measurements of `scripts/scale_bench.py`:
  read-only listings and timings of a running system.
* `sql/`: a query and reference DDL. The CLI of `validator.py` (observation (l)).
* Inside modelled parts: the shape of events beyond their key, version and amount; the hash
  functions of the Bloom filter, whose outcome is the constant `Positions`; Spark itself, whose
  committer is modelled by its effect on files and temporary files: `CurateDelete`, `CurateCommit`
  and `Disturb` in `DailyJob`, `Commit` and `Disturb` in `CurateIncremental`.

## 8. Plan

Done: the order was cache, gate, abstract gate, counters, proofs, batches, ingestion, daily job,
incremental curation, so that the exactly-once promise came first; then overlapping runs of the
incremental curation, the readers of the serving API, set-up and deployment, the generated file,
and the proofs of `Ingest` and `CurateIncremental`; then those of `RecentKeys`, `GateBatch`,
`DailyJob` and `Provision`.

Next, extending the model:

1. Two overlapping publishers in the `daily_job` run. `DailyJob` has them, and the theorems cover
   them; the instance is too large for a quick run.
2. The counts at risk after failed flushes (observation (c)), with a history of ticks.
3. The scoring of `quality.py` as operators against a reference definition.

Then, proving more:

1. An abstract specification of the outbox (a fact, then its event, at least once), and that
   `DailyJob` implements it. `DailyInv` has what its steps need.
2. The same for the ingestion chain (a key is undecided, claimed, stored once), which `Ingest`
   implements by `Chain`.

## 9. Running it

```
tlc -workers 2 -config MCGateFaults.cfg MCGate     # any row of section 3
tlapm GateProofs.tla                               # any module of section 5
```
