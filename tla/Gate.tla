-------------------------------- MODULE Gate --------------------------------
(***************************************************************************)
(* The idempotency gate (src/ingestion/gate/main.go): concurrent POST      *)
(* /accept handlers over one DynamoDB table, the recent-keys cache and the *)
(* two atomic counters, the goroutine that flushes the counters, and the   *)
(* process itself, which may crash and restart.                            *)
(*                                                                         *)
(* Each handler step is one atomic operation of the code: a cache call     *)
(* (under its mutex), an atomic add, a DynamoDB call taking effect, or the *)
(* response.  Handlers and the flusher interleave between any two steps.   *)
(***************************************************************************)
EXTENDS LruCache, FiniteSets

CONSTANTS
  Events,        \* every txnEvent sent to the gate, by any endpoint
  Requests,      \* the events that are POSTed to /accept
  Malformed,     \* those whose JSON does not bind
  KeyOf,         \* the idempotency_key of each event
  NoEvent,       \* the writer of a row that does not exist
  LossyNetwork,  \* may calls to txn-idempotency go unanswered?
  LossyMetrics,  \* may calls to txn-gate-metrics go unanswered?
  MaxAttempts,   \* attempts the AWS SDK makes per PutItem
  MaxCrashes,    \* bound on crashes of the process
  MaxAckLosses   \* bound on UpdateItems applied but not acknowledged

ASSUME GateAssumption ==
  /\ IsFiniteSet(Events) /\ Requests \subseteq Events /\ Malformed \subseteq Events
  /\ KeyOf \in [Events -> Keys] /\ NoEvent \notin Events
  /\ LossyNetwork \in BOOLEAN /\ LossyMetrics \in BOOLEAN
  /\ MaxAttempts \in Nat \ {0} /\ MaxCrashes \in Nat /\ MaxAckLosses \in Nat

VARIABLES
  phase,      \* phase[r]: where the handler of request r is
  tries,      \* tries[r]: PutItem attempts of r that went unanswered
  table,      \* txn-idempotency: table[k] is the event whose row is stored
  adrift,     \* requests with an unanswered attempt DynamoDB may yet apply
  cache,      \* recentKeys
  total,      \* totalRequests
  dups,       \* duplicateRejections
  flush,      \* the flusher: its step and the counts it has swapped out
  stored,     \* txn-gate-metrics: the counters item
  crashes, ackLosses

handlerVars == <<phase, tries>>
storeVars   == <<table, adrift, cache>>
countVars   == <<total, dups>>
flushVars   == <<flush, stored, ackLosses>>
vars == <<handlerVars, storeVars, countVars, flushVars, crashes>>
-----------------------------------------------------------------------------
\* A handler moves on.
Goto(r, from, to) == phase[r] = from /\ phase' = [phase EXCEPT ![r] = to]
-----------------------------------------------------------------------------
\* Mutants of the definitions below: plausible bugs, none of them in the code.

\* the key is cached when the request arrives, before its row exists
ReceiveCachesEarly(r) ==
  /\ r \notin Malformed
  /\ Goto(r, "sent", IF Cached(cache, KeyOf[r]) THEN "countDup" ELSE "put")
  /\ cache' = Add(cache, KeyOf[r])
  /\ UNCHANGED <<tries, table, adrift, countVars, flushVars, crashes>>
\* no ConditionExpression
PutItemUnconditional(r) ==
  /\ Goto(r, "put", "won") /\ table' = [table EXCEPT ![KeyOf[r]] = r]
  /\ UNCHANGED <<tries, adrift, cache, countVars, flushVars, crashes>>
ApplyAdriftUnconditional(r) ==
  /\ r \in adrift
  /\ table' = [table EXCEPT ![KeyOf[r]] = r] /\ adrift' = adrift \ {r}
  /\ UNCHANGED <<handlerVars, cache, countVars, flushVars, crashes>>
\* the handler of a refused request returns before it answers
AddToCacheAccepted(r) ==
  /\ Goto(r, "won", "countAccept")
  /\ cache' = Add(cache, KeyOf[r])
  /\ UNCHANGED <<tries, table, adrift, countVars, flushVars, crashes>>
\* LoadInt64 in place of SwapInt64
SwapTotalLoads ==
  /\ flush.pc = "idle"
  /\ flush' = [flush EXCEPT !.pc = "swapDups", !.total = total]
  /\ UNCHANGED <<handlerVars, storeVars, countVars, stored, ackLosses, crashes>>
\* || in place of && in the early return
SwapDupsReturnsEarly ==
  /\ flush.pc = "swapDups"
  /\ flush' = [flush EXCEPT !.pc = IF flush.total = 0 \/ dups = 0 THEN "idle" ELSE "update",
                            !.dups = dups]
  /\ dups' = 0
  /\ UNCHANGED <<handlerVars, storeVars, total, stored, ackLosses, crashes>>
\* the duplicates are reset by subtracting the total
SwapDupsSubtracts ==
  /\ flush.pc = "swapDups"
  /\ flush' = [flush EXCEPT !.pc = IF flush.total = 0 /\ dups = 0 THEN "idle" ELSE "update",
                            !.dups = dups]
  /\ dups' = dups - flush.total
  /\ UNCHANGED <<handlerVars, storeVars, total, stored, ackLosses, crashes>>
\* StoreInt64 in place of AddInt64 after a failed flush
RestoreTotalStores ==
  /\ flush.pc = "restoreTotal"
  /\ flush' = [flush EXCEPT !.pc = "restoreDups", !.total = 0]
  /\ total' = flush.total
  /\ UNCHANGED <<handlerVars, storeVars, dups, stored, ackLosses, crashes>>
-----------------------------------------------------------------------------
Won   == {"won", "countAccept", "sayAccepted", "accepted"}
Lost  == {"lost", "countDup", "countTotal", "sayDuplicate", "duplicate"}
Ended == {"rejected", "accepted", "duplicate", "failed", "reset"}
Phases == {"sent", "put"} \cup Won \cup Lost \cup Ended

InFlight == {r \in Requests : phase[r] \notin Ended \cup {"sent"}}

Idle == [pc |-> "idle", total |-> 0, dups |-> 0]

Init ==
  /\ phase = [r \in Requests |-> "sent"] /\ tries = [r \in Requests |-> 0]
  /\ table = [k \in Keys |-> NoEvent] /\ adrift = {} /\ cache = EmptyCache
  /\ total = 0 /\ dups = 0
  /\ flush = Idle /\ stored = [total |-> 0, dups |-> 0]
  /\ crashes = 0 /\ ackLosses = 0
-----------------------------------------------------------------------------
\* acceptHandler.  ShouldBindJSON fails: 400, and nothing else happens.
Reject(r) ==
  /\ r \in Malformed /\ Goto(r, "sent", "rejected")
  /\ UNCHANGED <<tries, storeVars, countVars, flushVars, crashes>>

\* recentKeys.Contains: a hit is answered without DynamoDB.
Receive(r) ==
  /\ r \notin Malformed
  /\ Goto(r, "sent", IF Cached(cache, KeyOf[r]) THEN "countDup" ELSE "put")
  /\ cache' = Lookup(cache, KeyOf[r])
  /\ UNCHANGED <<tries, table, adrift, countVars, flushVars, crashes>>

\* PutItem with attribute_not_exists(idempotency_key), applied and answered.
PutItem(r) ==
  /\ IF table[KeyOf[r]] = NoEvent
     THEN Goto(r, "put", "won") /\ table' = [table EXCEPT ![KeyOf[r]] = r]
     ELSE Goto(r, "put", "lost") /\ UNCHANGED table
  /\ UNCHANGED <<tries, adrift, cache, countVars, flushVars, crashes>>

\* An attempt goes unanswered; the SDK tries again, or gives up (attempts
\* spent, or the request's context cancelled) and the handler answers 500.
LoseAttempt(r) ==
  /\ LossyNetwork
  /\ \/ tries[r] + 1 < MaxAttempts /\ Goto(r, "put", "put")
     \/ Goto(r, "put", "failed")
  /\ tries' = [tries EXCEPT ![r] = @ + 1]
  /\ adrift' = adrift \cup {r}
  /\ UNCHANGED <<table, cache, countVars, flushVars, crashes>>

\* DynamoDB applies an attempt whose answer nobody received.
ApplyAdrift(r) ==
  /\ r \in adrift /\ table[KeyOf[r]] = NoEvent
  /\ table' = [table EXCEPT ![KeyOf[r]] = r]
  /\ adrift' = adrift \ {r}
  /\ UNCHANGED <<handlerVars, cache, countVars, flushVars, crashes>>

\* recentKeys.Add, after a successful and after a refused PutItem.
AddToCache(r) ==
  /\ Goto(r, "won", "countAccept") \/ Goto(r, "lost", "countDup")
  /\ cache' = Add(cache, KeyOf[r])
  /\ UNCHANGED <<tries, table, adrift, countVars, flushVars, crashes>>

\* atomic.AddInt64(&duplicateRejections, 1), before the total.
CountDuplicate(r) ==
  /\ Goto(r, "countDup", "countTotal") /\ dups' = dups + 1
  /\ UNCHANGED <<tries, storeVars, total, flushVars, crashes>>

\* atomic.AddInt64(&totalRequests, 1), on either path.
CountRequest(r) ==
  /\ Goto(r, "countAccept", "sayAccepted") \/ Goto(r, "countTotal", "sayDuplicate")
  /\ total' = total + 1
  /\ UNCHANGED <<tries, storeVars, dups, flushVars, crashes>>

\* c.JSON: 200 accepted, or 409 duplicate.
Respond(r) ==
  /\ Goto(r, "sayAccepted", "accepted") \/ Goto(r, "sayDuplicate", "duplicate")
  /\ UNCHANGED <<tries, storeVars, countVars, flushVars, crashes>>

Handle(r) ==
  \/ Reject(r) \/ Receive(r) \/ PutItem(r) \/ LoseAttempt(r) \/ AddToCache(r)
  \/ CountDuplicate(r) \/ CountRequest(r) \/ Respond(r)
Handler == \E r \in Requests : Handle(r) \/ ApplyAdrift(r)
-----------------------------------------------------------------------------
\* flushMetrics, called by one goroutine on every tick.  The two swaps are
\* two atomic operations, the total first.
SwapTotal ==
  /\ flush.pc = "idle"
  /\ flush' = [flush EXCEPT !.pc = "swapDups", !.total = total]
  /\ total' = 0
  /\ UNCHANGED <<handlerVars, storeVars, dups, stored, ackLosses, crashes>>

\* Nothing to write when both are zero.
SwapDups ==
  /\ flush.pc = "swapDups"
  /\ flush' = [flush EXCEPT !.pc = IF flush.total = 0 /\ dups = 0 THEN "idle" ELSE "update",
                            !.dups = dups]
  /\ dups' = 0
  /\ UNCHANGED <<handlerVars, storeVars, total, stored, ackLosses, crashes>>

ADD == stored' = [total |-> stored.total + flush.total, dups |-> stored.dups + flush.dups]

UpdateItem ==
  /\ flush.pc = "update" /\ flush' = Idle /\ ADD
  /\ UNCHANGED <<handlerVars, storeVars, countVars, ackLosses, crashes>>

\* The ADD is applied but its answer is lost: the SDK repeats the call, or
\* flushMetrics sees an error.
UpdateUnacknowledged ==
  /\ flush.pc = "update" /\ LossyMetrics /\ ackLosses < MaxAckLosses
  /\ \E next \in {"update", "restoreTotal"} : flush' = [flush EXCEPT !.pc = next]
  /\ ADD
  /\ ackLosses' = ackLosses + 1
  /\ UNCHANGED <<handlerVars, storeVars, countVars, crashes>>

UpdateFailed ==
  /\ flush.pc = "update" /\ LossyMetrics
  /\ flush' = [flush EXCEPT !.pc = "restoreTotal"]
  /\ UNCHANGED <<handlerVars, storeVars, countVars, stored, ackLosses, crashes>>

\* On an error the counts are added back, the total first.
RestoreTotal ==
  /\ flush.pc = "restoreTotal"
  /\ flush' = [flush EXCEPT !.pc = "restoreDups", !.total = 0]
  /\ total' = total + flush.total
  /\ UNCHANGED <<handlerVars, storeVars, dups, stored, ackLosses, crashes>>

RestoreDups ==
  /\ flush.pc = "restoreDups" /\ flush' = Idle
  /\ dups' = dups + flush.dups
  /\ UNCHANGED <<handlerVars, storeVars, total, stored, ackLosses, crashes>>

Flusher ==
  \/ SwapTotal \/ SwapDups \/ UpdateItem \/ UpdateUnacknowledged \/ UpdateFailed
  \/ RestoreTotal \/ RestoreDups
-----------------------------------------------------------------------------
\* The process dies and is started again (main): every handler's caller sees
\* its connection reset, the cache and the counters are gone, and calls that
\* were on their way to DynamoDB may or may not be applied.  The deferred final
\* flush of main does not run: router.Run returns only into log.Fatal.
Crash ==
  /\ crashes < MaxCrashes /\ crashes' = crashes + 1
  /\ phase' = [r \in Requests |-> IF r \in InFlight THEN "reset" ELSE phase[r]]
  /\ adrift' = adrift \cup {r \in Requests : phase[r] = "put"}
  /\ cache' = EmptyCache /\ total' = 0 /\ dups' = 0 /\ flush' = Idle
  /\ \/ flush.pc = "update" /\ ADD
     \/ UNCHANGED stored
  /\ UNCHANGED <<tries, table, ackLosses>>

Next == Handler \/ Flusher \/ Crash
Spec == Init /\ [][Next]_vars
-----------------------------------------------------------------------------
\* The runtime schedules every runnable goroutine and the SDK bounds every
\* call, so a handler that can take a step takes one, unless the process dies;
\* the ticker keeps the flusher going.  ReliableFlush adds that the metrics
\* table does not fail for ever.
Fairness ==
  /\ \A r \in Requests : WF_vars(Handle(r))
  /\ WF_vars(Flusher)
ReliableFlush == SF_vars(UpdateItem)
FairSpec == Spec /\ Fairness /\ ReliableFlush
-----------------------------------------------------------------------------
Counts == [total : Nat, dups : Nat]

\* Every variable stays in its type.
TypeOK ==
  /\ phase \in [Requests -> Phases] /\ tries \in [Requests -> Nat]
  /\ table \in [Keys -> Events \cup {NoEvent}] /\ adrift \in SUBSET Requests
  /\ cache \in Caches
  /\ total \in Nat /\ dups \in Nat
  /\ flush \in [pc : {"idle", "swapDups", "update", "restoreTotal", "restoreDups"},
                total : Nat, dups : Nat]
  /\ stored \in Counts
  /\ crashes \in 0 .. MaxCrashes /\ ackLosses \in 0 .. MaxAckLosses

\* The exactly-once promise of /accept: of all requests that carry one key, in
\* whatever order their handlers run, whatever is lost, retried or applied late
\* and however often the gate restarts, at most one is answered "accepted".
AtMostOneAccepted ==
  \A r, s \in Requests :
    phase[r] = "accepted" /\ phase[s] = "accepted" /\ KeyOf[r] = KeyOf[s] => r = s

\* A request is answered "accepted" only while the row of its key is the one it
\* wrote itself ("the single source of truth", main.go).
AcceptedOwnsRow == \A r \in Requests : phase[r] = "accepted" => table[KeyOf[r]] = r

\* The cache only accelerates the duplicate path: whatever it holds, through
\* evictions and restarts, has a row in the table.
CacheSound == \A k \in cache.items : table[k] # NoEvent

\* No request is refused as a duplicate of a key that nobody claimed.
RefusedOnlyIfClaimed == \A r \in Requests : phase[r] \in Lost => table[KeyOf[r]] # NoEvent

\* The inductive strengthening of the four invariants above: a request that has
\* won owns its row from the moment PutItem returned, not only once answered.
Claims ==
  /\ \A r \in Requests : phase[r] \in Won => table[KeyOf[r]] = r
  /\ RefusedOnlyIfClaimed
  /\ CacheSound

\* A row, once written, is never changed or removed by /accept.
RowsNeverChange == [][\A k \in Keys : table[k] # NoEvent => table'[k] = table[k]]_vars

\* As long as no PutItem went unanswered and the gate did not crash, a refused
\* request has a winner: some request with its key holds the row and is
\* answered, or about to be answered, "accepted".  A key is never refused to
\* everyone.
Undisturbed == crashes = 0 /\ \A r \in Requests : tries[r] = 0
SomeoneWins ==
  Undisturbed => \A r \in Requests : phase[r] \in Lost =>
    \E s \in Requests : KeyOf[s] = KeyOf[r] /\ phase[s] \in Won

\* Its inductive strengthening: every row belongs to a request that has won.
RowsHaveWinners ==
  Undisturbed =>
    /\ adrift = {}
    /\ \A k \in Keys : table[k] # NoEvent =>
         table[k] \in Requests /\ KeyOf[table[k]] = k /\ phase[table[k]] \in Won
-----------------------------------------------------------------------------
Counted  == {r \in Requests : phase[r] \in {"sayAccepted", "accepted", "sayDuplicate", "duplicate"}}
CountedDup == {r \in Requests : phase[r] \in {"countTotal", "sayDuplicate", "duplicate"}}

\* While the process lives no counted request drops out of the accounts: not
\* between the two swaps, and not when a failed flush adds its counts back
\* while handlers go on counting.
NothingUndercounted ==
  crashes = 0 =>
    /\ stored.total + flush.total + total >= Cardinality(Counted)
    /\ stored.dups + flush.dups + dups >= Cardinality(CountedDup)

\* As long as every applied ADD was acknowledged, nothing is counted twice
\* either: the only overcount is the one flushMetrics documents.
NothingOvercounted ==
  crashes = 0 /\ ackLosses = 0 =>
    /\ stored.total + flush.total + total <= Cardinality(Counted)
    /\ stored.dups + flush.dups + dups <= Cardinality(CountedDup)

\* The inductive strengthening of the two: what the flusher holds at each step.
Accounts ==
  /\ flush.pc = "idle" => flush.total = 0 /\ flush.dups = 0
  /\ flush.pc = "swapDups" => flush.dups = 0
  /\ flush.pc = "restoreDups" => flush.total = 0
  /\ NothingUndercounted /\ NothingOvercounted

\* GET /metrics/dedup (api.py): the stored counters and their quotient, to four digits.
DedupMetrics(counts) ==
  [total_requests |-> counts.total, duplicate_rejections |-> counts.dups,
   duplicate_rate |-> IF counts.total = 0 THEN 0
                      ELSE (20000 * counts.dups + counts.total) \div (2 * counts.total)]

\* Once the requests have ended and their counts are flushed, the rate the API reports
\* is the share of duplicates among the requests answered 200 or 409, through failed
\* flushes too; before that the two counters of a flush need not belong together.
\* Crashes and unacknowledged writes are excepted.
RateIsExactAtRest ==
  /\ crashes = 0 /\ ackLosses = 0 /\ \A r \in Requests : phase[r] \in Ended
  /\ flush.pc = "idle" /\ total = 0 /\ dups = 0
  => DedupMetrics(stored) = DedupMetrics([total |-> Cardinality({r \in Requests : phase[r] \in {"accepted", "duplicate"}}),
                                          dups  |-> Cardinality({r \in Requests : phase[r] = "duplicate"})])

\* Every request is answered, or its caller is told of a failure.
EveryRequestEnds == \A r \in Requests : <>(phase[r] \in Ended)

\* While the process lives, every count reaches the metrics table for good,
\* through failed and repeated flushes: no tick leaves one behind.
MetricsConverge ==
  <>[](/\ stored.total >= Cardinality(Counted)
       /\ stored.dups >= Cardinality(CountedDup))

-----------------------------------------------------------------------------
\* What main.go:4 says of a 409, "duplicate, already processed": the request
\* that is refused is not the one that claimed the key.
RefusedIsARepeat == \A r \in Requests : phase[r] = "duplicate" => table[KeyOf[r]] # r
-----------------------------------------------------------------------------
\* The gate keeps the promise of the abstract specification.
Reply(p) == CASE p \in {"accepted", "duplicate"} -> p
              [] p \in {"rejected", "failed", "reset"} -> "error"
              [] OTHER -> "none"
A == INSTANCE AcceptOnce WITH NoRequest <- NoEvent, owner <- table,
                              reply <- [r \in Requests |-> Reply(phase[r])]
ImplementsAcceptOnce == A!Spec
=============================================================================
