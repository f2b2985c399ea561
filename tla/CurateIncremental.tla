------------------------- MODULE CurateIncremental -------------------------
(***************************************************************************)
(* Incremental curation (curate_incremental.py): batches of synthetic rows *)
(* (scale_bench.py) are checked, key by key, against an in-process Bloom   *)
(* filter and then the table txn-curated-keys; new keys are registered and *)
(* their rows written to the batch's own dataset.  A run starts with an    *)
(* empty filter; a run that failed, or simply the next one, starts again   *)
(* with batch 0, and finds table and datasets as earlier ones left them.   *)
(* Two operators may run it at once, each with a filter of their own.      *)
(*                                                                         *)
(* Spark filters the partitions of a batch in parallel; as a key belongs   *)
(* to one partition, its steps below interleave freely with other keys'.   *)
(***************************************************************************)
EXTENDS Naturals, FiniteSets

CONSTANTS
  Operators,    \* who run the job
  Batches,      \* n_batches
  BatchRows,    \* n_rows, of each batch
  ReplayShare,  \* 5000: rows of a batch for each replayed one
  SampleSize,   \* 50: keys handed to the next batch
  Positions,    \* the bits of each key in the filter
  Throttled,    \* may DynamoDB leave keys unread and items unwritten?
  MaxRuns       \* bound on runs

Ids  == 0 .. Batches - 1
Keys == Ids \X (0 .. BatchRows - 1)   \* b{batch_id}-orig-{row}

ASSUME CurateAssumption ==
  /\ Batches \in Nat /\ BatchRows \in Nat \ {0} /\ ReplayShare \in Nat \ {0} /\ SampleSize \in Nat
  /\ Positions \in [Keys -> (SUBSET Nat) \ {{}}]
  /\ Throttled \in BOOLEAN /\ MaxRuns \in Nat \ {0}

VARIABLES
  origin,    \* origin[i]: the row whose key row i of every batch carries (fixed seeds)
  run,       \* each operator's run: see RunState
  table,     \* does txn-curated-keys exist?
  store,     \* the keys in it
  data,      \* txn-curated/incremental/: the rows <<operator, key>> in batch=b/
  starts, throttled, overlapped  \* a bound and history: how many runs were started,
                                 \* did DynamoDB throttle, did runs overlap
history == <<starts, throttled, overlapped>>
vars    == <<origin, run, table, store, data, history>>

Idle == [pc |-> "idle", batch |-> 0, bits |-> {}, sample |-> {}, fate |-> [k \in Keys |-> "none"],
         disturbed |-> FALSE]
Active(o) == run[o].pc \notin {"idle", "stopped", "done"}

\* synthetic_events_df: a retry takes the key of a row before it, row 0 its own.
RetryOrigins == {f \in [0 .. BatchRows - 1 -> 0 .. BatchRows - 1] : \A i \in DOMAIN f : f[i] <= i}

Init ==
  /\ origin \in RetryOrigins
  /\ run = [o \in Operators |-> Idle]
  /\ table \in BOOLEAN /\ store = {} /\ data = [b \in Ids |-> {}]
  /\ starts = 0 /\ throttled = FALSE /\ overlapped = FALSE
-----------------------------------------------------------------------------
Fate(o)    == run[o].fate
NewKeys(o) == {k \in Keys : Fate(o)[k] = "registered"}
BatchOf(k) == k[1]
\* What is left of a batch once Window has kept one row of each key.
Input(b) == {<<b, origin[i]>> : i \in 0 .. BatchRows - 1}

\* Mutant of AddAll: a capped sample of the new keys.
AddAllCapped(bits, keys) == IF keys = {} THEN bits ELSE bits \cup Positions[CHOOSE k \in keys : TRUE]

\* BloomFilter
AddAll(bits, keys)    == bits \cup UNION {Positions[k] : k \in keys}
MightContain(bits, k) == Positions[k] \subseteq bits

Least(a, b) == IF a < b THEN a ELSE b
Replays(sample) ==
  LET n == IF BatchRows < ReplayShare THEN 1 ELSE BatchRows \div ReplayShare
  IN  {R \in SUBSET sample :
         Cardinality(R) = Least(n, Least(SampleSize, Cardinality(sample)))}
-----------------------------------------------------------------------------
Become(o, pc) == run' = [run EXCEPT ![o].pc = pc]
Settle(o, k, fate) == run' = [run EXCEPT ![o].fate[k] = fate]
\* Spark's writer deletes a dataset, or the temporary files of all its writers.
Disturb(o, b) ==
  [p \in Operators |-> IF p # o /\ run[p].pc = "filter" /\ run[p].batch = b
                       THEN [run[p] EXCEPT !.disturbed = TRUE] ELSE run[p]]
Filtered(o) == run[o].pc = "filter" /\ \A k \in Keys : Fate(o)[k] \notin {"maybe", "new"}
Write(o, keys) == data' = [data EXCEPT ![run[o].batch] = @ \cup {<<o, k>> : k \in keys}]
-----------------------------------------------------------------------------
\* Mutants of the definitions below: plausible bugs, none of them in the code.
\* mode("append")
StartBatchAppends(o) ==
  LET b == run[o].batch IN
  /\ run[o].pc = "next" /\ b < Batches
  /\ run' = [run EXCEPT ![o].pc = "filter",
               ![o].fate = [k \in Keys |-> IF k \in Input(b) THEN "new" ELSE "none"]]
  /\ UNCHANGED <<origin, table, store, data, history>>
\* a "maybe" from the filter is taken for a duplicate
LookupNot(o, k) ==
  /\ run[o].pc = "filter" /\ Fate(o)[k] = "maybe" /\ Settle(o, k, "dropped")
  /\ UNCHANGED <<origin, table, store, data, history>>
\* rows are written before their keys are registered
CommitEarly(o) ==
  /\ run[o].pc = "filter" /\ \A k \in Keys : Fate(o)[k] # "maybe"
  /\ Become(o, "bloom") /\ Write(o, {k \in Keys : Fate(o)[k] \in {"new", "registered"}})
  /\ UNCHANGED <<origin, table, store, history>>
\* without cache() the keys are collected from a second evaluation, which finds
\* those the first one registered in the table
AddToBloomReevaluated(o) ==
  /\ run[o].pc = "bloom"
  /\ run' = [run EXCEPT ![o] = [Idle EXCEPT !.pc = "next", !.batch = run[o].batch + 1,
               !.bits = AddAll(run[o].bits, NewKeys(o) \ store), !.sample = NewKeys(o)]]
  /\ UNCHANGED <<origin, table, store, data, history>>
-----------------------------------------------------------------------------
\* An operator runs the job, with a new filter.
Start(o) ==
  /\ ~Active(o) /\ starts < MaxRuns /\ starts' = starts + 1
  /\ run' = [run EXCEPT ![o] = [Idle EXCEPT !.pc = "list"]]
  /\ overlapped' = (overlapped \/ \E p \in Operators : Active(p))
  /\ UNCHANGED <<origin, table, store, data, throttled>>

\* ensure_curated_keys_table.  Creating what another run created meanwhile raises.
ListTables(o) ==
  /\ run[o].pc = "list" /\ Become(o, IF table THEN "next" ELSE "create")
  /\ UNCHANGED <<origin, table, store, data, history>>
CreateTable(o) ==
  /\ run[o].pc = "create" /\ Become(o, IF table THEN "stopped" ELSE "next") /\ table' = TRUE
  /\ UNCHANGED <<origin, store, data, history>>

\* process_batch: the batch's own keys and some replayed from the batch before.
\* mode("overwrite") empties the dataset, then the job filters and writes.  What
\* each partition does first, it does with the filter's snapshot: keys it cannot
\* contain are new.
StartBatch(o) ==
  LET b == run[o].batch IN
  /\ run[o].pc = "next" /\ b < Batches
  /\ \E replays \in Replays(run[o].sample) :
       run' = [Disturb(o, b) EXCEPT ![o].pc = "filter", ![o].disturbed = FALSE,
                 ![o].fate = [k \in Keys |->
                   IF k \notin Input(b) \cup replays THEN "none"
                   ELSE IF MightContain(run[o].bits, k) THEN "maybe" ELSE "new"]]
  /\ data' = [data EXCEPT ![b] = {}]
  /\ UNCHANGED <<origin, table, store, history>>

\* _filter_partition: BatchGetItem for what the filter could not rule out.  What the
\* call leaves unprocessed counts as absent ...
Lookup(o, k) ==
  /\ run[o].pc = "filter" /\ Fate(o)[k] = "maybe"
  /\ \/ Settle(o, k, IF k \in store THEN "dropped" ELSE "new") /\ UNCHANGED throttled
     \/ Throttled /\ throttled' = TRUE /\ Settle(o, k, "new")
  /\ UNCHANGED <<origin, table, store, data, starts, overlapped>>

\* ... then BatchWriteItem for the new keys.
Register(o, k) ==
  /\ run[o].pc = "filter" /\ Fate(o)[k] = "new" /\ Settle(o, k, "registered")
  /\ \/ store' = store \cup {k} /\ UNCHANGED throttled
     \/ Throttled /\ throttled' = TRUE /\ UNCHANGED store
  /\ UNCHANGED <<origin, table, data, starts, overlapped>>

\* All partitions are filtered: the committer adds the files of the new rows, or,
\* when another run of the batch deleted temporary files, what is left of them.
Commit(o) ==
  LET b == run[o].batch IN
  /\ Filtered(o)
  /\ run' = [Disturb(o, b) EXCEPT ![o].pc = "bloom"]
  /\ \E written \in (IF run[o].disturbed THEN SUBSET NewKeys(o) ELSE {NewKeys(o)}) :
       Write(o, written)
  /\ UNCHANGED <<origin, table, store, history>>

\* The new keys, cached, are collected and added to the filter; some are replayed
\* into the next batch.
AddToBloom(o) ==
  /\ run[o].pc = "bloom"
  /\ run' = [run EXCEPT ![o] = [Idle EXCEPT !.pc = "next", !.batch = run[o].batch + 1,
                                  !.bits = AddAll(run[o].bits, NewKeys(o)), !.sample = NewKeys(o)]]
  /\ UNCHANGED <<origin, table, store, data, history>>

Finish(o) ==
  /\ run[o].pc = "next" /\ run[o].batch = Batches
  /\ run' = [run EXCEPT ![o] = [Idle EXCEPT !.pc = "done"]]
  /\ UNCHANGED <<origin, table, store, data, history>>

\* A call or the process fails, perhaps while files are moved: the Spark job, and the
\* run, end.
Stop(o) ==
  /\ Active(o) /\ run' = [run EXCEPT ![o] = [Idle EXCEPT !.pc = "stopped"]]
  /\ \E written \in SUBSET (IF Filtered(o) THEN NewKeys(o) ELSE {}) : Write(o, written)
  /\ UNCHANGED <<origin, table, store, history>>

Next ==
  \E o \in Operators :
    \/ Start(o) \/ ListTables(o) \/ CreateTable(o) \/ StartBatch(o)
    \/ \E k \in Keys : Lookup(o, k) \/ Register(o, k)
    \/ Commit(o) \/ AddToBloom(o) \/ Finish(o) \/ Stop(o)
Spec == Init /\ [][Next]_vars
-----------------------------------------------------------------------------
Bits     == UNION {Positions[k] : k \in Keys}
Phases   == {"idle", "list", "create", "next", "filter", "bloom", "done", "stopped"}
Fates    == {"none", "maybe", "new", "registered", "dropped"}
RunState == [pc : Phases, batch : 0 .. Batches, bits : SUBSET Bits, sample : SUBSET Keys,
             fate : [Keys -> Fates], disturbed : BOOLEAN]

\* Every variable stays in its type.
TypeOK ==
  /\ origin \in RetryOrigins /\ run \in [Operators -> RunState] /\ table \in BOOLEAN
  /\ store \subseteq Keys /\ data \in [Ids -> SUBSET (Operators \X Keys)]
  /\ starts \in 0 .. MaxRuns /\ throttled \in BOOLEAN /\ overlapped \in BOOLEAN

\* Unless DynamoDB throttled, a key has rows in the dataset of its own batch only,
\* though keys of one batch come again in the next, the filter errs, runs fail
\* half-way and are repeated over what they left, or overlap.
RowsInOwnBatch ==
  ~throttled => \A b \in Ids : \A row \in data[b] : BatchOf(row[2]) = b

\* Unless runs overlapped, a dataset never holds the rows of two operators' runs,
\* whichever of them failed and wherever: with RowsInOwnBatch, the two never give a
\* key a row each.
OneWriter ==
  ~overlapped => \A b \in Ids : \A row, other \in data[b] : row[1] = other[1]

\* Unless DynamoDB throttled, every row written has its key in the table, which is
\* what keeps a later batch from writing it again.
WrittenIsRegistered == ~throttled => \A b \in Ids : \A row \in data[b] : row[2] \in store

\* "A predictable count you can verify by construction" (curate_incremental.py:230): the
\* cross-batch duplicates the first run reports are the rows it replayed, however the
\* filter errs, unless DynamoDB throttled.
CaughtIsReplayed ==
  starts = 1 /\ ~throttled => \A o \in Operators : run[o].pc = "bloom" =>
    {k \in Keys : Fate(o)[k] = "dropped"} =
      {k \in Keys : Fate(o)[k] # "none"} \ Input(run[o].batch)

\* The first run loses nothing: when it is past a batch every key of the batch has a
\* row, whatever the filter and a throttled table answer.
FirstRunComplete ==
  starts = 1 => \A o \in Operators : \A b \in Ids :
    b < run[o].batch => Input(b) \subseteq {row[2] : row \in data[b]}
-----------------------------------------------------------------------------
\* What the module's docstring says of the curated layer, "at-least-once": after a
\* run that went through, every key of its batches has a row.
AtLeastOnce ==
  \A o \in Operators : run[o].pc = "done" =>
    \A b \in Ids : \A k \in Input(b) : \E c \in Ids : \E row \in data[c] : row[2] = k
=============================================================================
