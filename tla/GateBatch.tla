------------------------------ MODULE GateBatch ------------------------------
(***************************************************************************)
(* The whole gate: POST /accept (module Gate) beside POST /accept/batch,   *)
(* which reads which keys exist and then writes the rest without a         *)
(* condition.  The two share the table and the counters, not the cache.    *)
(*                                                                         *)
(* A batch call of DynamoDB is not atomic: its keys are read, and its      *)
(* items put, one by one, with other handlers in between.                  *)
(***************************************************************************)
EXTENDS Gate, Sequences

CONSTANTS
  Batches,     \* calls of /accept/batch
  Items,       \* Items[b]: the events in the body of b, in order
  WriteChunk,  \* items per BatchWriteItem (25)
  Throttled    \* may DynamoDB leave keys unread and items unwritten?

ASSUME BatchAssumption ==
  /\ IsFiniteSet(Batches) /\ Batches \cap Requests = {}
  /\ Items \in [Batches -> Seq(Events \ Requests)]
  /\ WriteChunk \in Nat \ {0} /\ Throttled \in BOOLEAN

VARIABLES
  batch,      \* batch[b]: the handler of b (see BatchInit)
  written,    \* events whose unanswered put DynamoDB may yet apply
  throttled,  \* history: DynamoDB has left a key unread or an item unwritten
  earlier     \* history: earlier[x] are the calls answered before x arrived
batchVars == <<batch, written, throttled>>
allVars   == <<vars, batchVars, earlier>>
-----------------------------------------------------------------------------
Positions(b) == DOMAIN Items[b]
KeyAt(b, i)  == KeyOf[Items[b][i]]
KeysIn(b)    == {KeyAt(b, i) : i \in Positions(b)}
-----------------------------------------------------------------------------
\* results and newEvents: an event is new when its key was not found in the
\* table and no earlier event of the same body carries it (seenInThisRequest).
Fresh(b) == {i \in Positions(b) :
               /\ KeyAt(b, i) \notin batch[b].existing
               /\ \A j \in Positions(b) : j < i => KeyAt(b, j) # KeyAt(b, i)}

\* The next WriteChunk new events in order.
Chunk(b) == {i \in batch[b].unwritten :
               Cardinality({j \in batch[b].unwritten : j <= i}) <= WriteChunk}

BatchEnded == {"rejected", "answered", "failed", "reset"}

\* pc: sent, read (BatchGetItem), write (between chunks), writing (a
\* BatchWriteItem is under way), countDup, reply, or ended.
BatchInit ==
  /\ batch = [b \in Batches |-> [pc |-> "sent", unread |-> {}, existing |-> {},
                                 unwritten |-> {}, pending |-> {}]]
  /\ written = {} /\ throttled = FALSE
-----------------------------------------------------------------------------
\* Mutants of the definitions below: plausible bugs, none of them in the code.
\* the response is looked up under the wrong table name: nothing is ever found
BatchReadFindsNothing(b) ==
  /\ batch[b].pc = "read"
  /\ \E k \in batch[b].unread : batch' = [batch EXCEPT ![b].unread = @ \ {k}]
  /\ UNCHANGED <<vars, written, throttled>>
\* the keys that are absent are taken for the existing ones
BatchReadInverted(b) ==
  /\ batch[b].pc = "read"
  /\ \E k \in batch[b].unread :
       batch' = [batch EXCEPT ![b].unread = @ \ {k},
                              ![b].existing = IF table[k] = NoEvent THEN @ \cup {k} ELSE @]
  /\ UNCHANGED <<vars, written, throttled>>
\* a body without new events is answered without being counted
ClassifyForgetsRepeats(b) ==
  /\ batch[b].pc = "read" /\ batch[b].unread = {}
  /\ batch' = [batch EXCEPT ![b].pc = IF Fresh(b) = {} THEN "reply" ELSE "write",
                            ![b].unwritten = Fresh(b)]
  /\ UNCHANGED <<vars, written, throttled>>
\* a failed BatchGetItem is logged and the handler goes on with what it has read
BatchReadLostGoesOn(b) ==
  /\ LossyNetwork /\ batch[b].pc = "read" /\ batch[b].unread # {}
  /\ batch' = [batch EXCEPT ![b].unread = {}]
  /\ UNCHANGED <<vars, written, throttled>>
\* only the first chunk is written
BatchWrittenOnce(b) ==
  /\ batch[b].pc = "writing" /\ batch[b].pending = {}
  /\ batch' = [batch EXCEPT ![b].pc = "write", ![b].unwritten = {}]
  /\ UNCHANGED <<vars, written, throttled>>
-----------------------------------------------------------------------------
\* acceptBatchHandler.  One event that does not bind refuses the whole body; an
\* empty body is answered at once; the keys to query are those of the body.
BatchReceive(b) ==
  /\ batch[b].pc = "sent"
  /\ batch' = [batch EXCEPT
       ![b].pc = IF \E i \in Positions(b) : Items[b][i] \in Malformed THEN "rejected"
                 ELSE IF Items[b] = << >> THEN "answered" ELSE "read",
       ![b].unread = KeysIn(b)]
  /\ UNCHANGED <<vars, written, throttled>>

\* BatchGetItem reads one of the keys.  A throttled call returns it among the
\* UnprocessedKeys, which the handler does not look at.
BatchRead(b) ==
  /\ batch[b].pc = "read"
  /\ \E k \in batch[b].unread :
       \/ /\ batch' = [batch EXCEPT ![b].unread = @ \ {k},
                                    ![b].existing = IF table[k] # NoEvent THEN @ \cup {k} ELSE @]
          /\ UNCHANGED throttled
       \/ /\ Throttled /\ throttled' = TRUE
          /\ batch' = [batch EXCEPT ![b].unread = @ \ {k}]
  /\ UNCHANGED <<vars, written>>

\* Every key has been read: the events are classified.
Classify(b) ==
  /\ batch[b].pc = "read" /\ batch[b].unread = {}
  /\ batch' = [batch EXCEPT ![b].pc = "write", ![b].unwritten = Fresh(b)]
  /\ UNCHANGED <<vars, written, throttled>>

BatchWriteItem(b) ==
  /\ batch[b].pc = "write" /\ batch[b].unwritten # {}
  /\ batch' = [batch EXCEPT ![b].pc = "writing", ![b].pending = Chunk(b)]
  /\ UNCHANGED <<vars, written, throttled>>

\* One PutRequest of the chunk takes effect, whatever the table holds; twice when
\* the SDK repeats the call.
BatchPut(b) ==
  /\ batch[b].pc = "writing"
  /\ \E i \in IF LossyNetwork THEN Chunk(b) ELSE batch[b].pending :
       /\ table' = [table EXCEPT ![KeyAt(b, i)] = Items[b][i]]
       /\ batch' = [batch EXCEPT ![b].pending = @ \ {i}]
  /\ UNCHANGED <<handlerVars, adrift, cache, countVars, flushVars, crashes, written, throttled>>

ChunkEvents(b) == {Items[b][i] : i \in Chunk(b)}

\* The call returns.  What it did not put are UnprocessedItems, which the handler
\* does not look at.
BatchWritten(b) ==
  /\ batch[b].pc = "writing"
  /\ \/ batch[b].pending = {} /\ UNCHANGED throttled
     \/ batch[b].pending # {} /\ Throttled /\ throttled' = TRUE
  /\ batch' = [batch EXCEPT ![b].pc = "write", ![b].pending = {},
                            ![b].unwritten = @ \ Chunk(b)]
  /\ UNCHANGED <<vars, written>>

\* The call goes unanswered however often the SDK repeats it: 500.  Any of its puts
\* may be applied later.
BatchWriteLost(b) ==
  /\ LossyNetwork /\ batch[b].pc = "writing"
  /\ batch' = [batch EXCEPT ![b].pc = "failed", ![b].pending = {}]
  /\ written' = written \cup ChunkEvents(b)
  /\ UNCHANGED <<vars, throttled>>

\* BatchGetItem fails: 500.
BatchReadLost(b) ==
  /\ LossyNetwork /\ batch[b].pc = "read" /\ batch[b].unread # {}
  /\ batch' = [batch EXCEPT ![b].pc = "failed"]
  /\ UNCHANGED <<vars, written, throttled>>

\* All chunks are written: the counters, the total first, then the response.
BatchCountTotal(b) ==
  /\ batch[b].pc = "write" /\ batch[b].unwritten = {}
  /\ batch' = [batch EXCEPT ![b].pc = "countDup"]
  /\ total' = total + Len(Items[b])
  /\ UNCHANGED <<handlerVars, storeVars, dups, flushVars, crashes, written, throttled>>
BatchCountDups(b) ==
  /\ batch[b].pc = "countDup"
  /\ batch' = [batch EXCEPT ![b].pc = "reply"]
  /\ dups' = dups + (Len(Items[b]) - Cardinality(Fresh(b)))
  /\ UNCHANGED <<handlerVars, storeVars, total, flushVars, crashes, written, throttled>>
BatchRespond(b) ==
  /\ batch[b].pc = "reply"
  /\ batch' = [batch EXCEPT ![b].pc = "answered"]
  /\ UNCHANGED <<vars, written, throttled>>

BatchHandle(b) ==
  \/ BatchReceive(b) \/ BatchRead(b) \/ Classify(b) \/ BatchWriteItem(b) \/ BatchPut(b)
  \/ BatchWritten(b) \/ BatchWriteLost(b) \/ BatchReadLost(b)
  \/ BatchCountTotal(b) \/ BatchCountDups(b) \/ BatchRespond(b)

\* DynamoDB applies a put whose answer nobody received: without a condition.
PutWritten(e) ==
  /\ e \in written /\ written' = written \ {e}
  /\ table' = [table EXCEPT ![KeyOf[e]] = e]
  /\ UNCHANGED <<handlerVars, adrift, cache, countVars, flushVars, crashes, batch, throttled>>

\* A crash ends the batch handlers with the rest of the process.
CrashAll ==
  /\ Crash
  /\ batch' = [b \in Batches |->
       IF batch[b].pc \in BatchEnded \cup {"sent"} THEN batch[b]
       ELSE [batch[b] EXCEPT !.pc = "reset", !.pending = {}]]
  /\ written' = written \cup UNION {ChunkEvents(b) : b \in {c \in Batches : batch[c].pc = "writing"}}
  /\ UNCHANGED throttled

\* Answered calls, for the history; a call that has just arrived remembers them.
Answered == {r \in Requests : phase[r] = "accepted"} \cup {b \in Batches : batch[b].pc = "answered"}
Remember ==
  earlier' = [x \in Requests \cup Batches |->
    IF \/ x \in Requests /\ phase[x] = "sent" /\ phase'[x] # "sent"
       \/ x \in Batches /\ batch[x].pc = "sent" /\ batch'[x].pc # "sent"
    THEN Answered ELSE earlier[x]]

AllInit == Init /\ BatchInit /\ earlier = [x \in Requests \cup Batches |-> {}]
AllNext ==
  /\ \/ (Handler \/ Flusher) /\ UNCHANGED batchVars
     \/ \E b \in Batches : BatchHandle(b)
     \/ \E e \in written : PutWritten(e)
     \/ CrashAll
  /\ Remember
AllSpec == AllInit /\ [][AllNext]_allVars
-----------------------------------------------------------------------------
BatchState(b) ==
  [pc : BatchEnded \cup {"sent", "read", "write", "writing", "countDup", "reply"},
   unread : SUBSET KeysIn(b), existing : SUBSET KeysIn(b),
   unwritten : SUBSET Positions(b), pending : SUBSET Positions(b)]

\* Every variable of the composition stays in its type.
BatchTypeOK ==
  /\ TypeOK
  /\ DOMAIN batch = Batches /\ \A b \in Batches : batch[b] \in BatchState(b)
  /\ written \subseteq Events \ Requests /\ throttled \in BOOLEAN
  /\ earlier \in [Requests \cup Batches -> SUBSET (Requests \cup Batches)]

\* The keys an answered batch reports as accepted.
BatchAccepted(b) == IF batch[b].pc = "answered" THEN {KeyAt(b, i) : i \in Fresh(b)} ELSE {}

\* The keys any call was told "accepted" for.
AcceptedBy(x) == IF x \in Batches THEN BatchAccepted(x)
                 ELSE IF phase[x] = "accepted" THEN {KeyOf[x]} ELSE {}

\* The race window is the only window (main.go:243-250): unless DynamoDB throttled,
\* a key is accepted by two calls only if both were under way at once.  A call
\* that arrives after another was answered never accepts its keys again.
OnlyOverlapsRace ==
  ~throttled => \A x \in Requests \cup Batches : \A y \in earlier[x] :
                  AcceptedBy(x) \cap AcceptedBy(y) = {}

\* Unless DynamoDB throttled, a key reported as accepted in a batch has a row: no
\* chunk, and no item of a chunk, is left out before the response is sent.
BatchAcceptedHasRow ==
  ~throttled => \A b \in Batches : \A k \in BatchAccepted(b) : table[k] # NoEvent

\* The same window bounds what a batch's unconditional puts destroy: unless DynamoDB
\* throttled, a row is only ever replaced by an event of a batch that was under way
\* when the key was accepted.  What a call accepted before the batch arrived keeps its
\* row, whichever put of the batch it meets: a repeated one, one of a batch that
\* then fails with 500, or one applied after the process that sent it has died.
OnlyOverlapsReplace ==
  [][~throttled => \A k \in Keys : table[k] # NoEvent /\ table'[k] # table[k] =>
       \E b \in Batches : /\ \E i \in Positions(b) : Items[b][i] = table'[k]
                          /\ \A y \in earlier[b] : k \notin AcceptedBy(y)]_allVars

\* test_accept_batch_race_window_is_real: whatever the race, somebody is told
\* "accepted".  Without failed calls, throttling and crashes, once every call has
\* ended, each key that was sent and answered has been accepted by some call.
Calm == Undisturbed /\ ~throttled /\ \A b \in Batches : batch[b].pc # "failed"
AnsweredFor(x) ==
  IF x \in Batches THEN (IF batch[x].pc = "answered" THEN KeysIn(x) ELSE {})
  ELSE (IF phase[x] \in {"accepted", "duplicate"} THEN {KeyOf[x]} ELSE {})
EveryKeyAccepted ==
  (/\ Calm
   /\ \A r \in Requests : phase[r] \in Ended
   /\ \A b \in Batches : batch[b].pc \in BatchEnded)
  => \A x \in Requests \cup Batches : \A k \in AnsweredFor(x) :
       \E y \in Requests \cup Batches : k \in AcceptedBy(y)

\* While the process lives and every ADD is acknowledged the counters take a batch
\* as so many requests, and everything in it that was not new as a duplicate, also
\* when batches, single requests and flushes mix.
Told(b)    == IF batch[b].pc \in {"countDup", "reply", "answered"} THEN Positions(b) ELSE {}
ToldDup(b) == IF batch[b].pc \in {"reply", "answered"} THEN Positions(b) \ Fresh(b) ELSE {}
BatchesCounted ==
  LET told == UNION {{b} \X Told(b) : b \in Batches}
      tdup == UNION {{b} \X ToldDup(b) : b \in Batches}
  IN  crashes = 0 /\ ackLosses = 0 =>
        /\ stored.total + flush.total + total = Cardinality(Counted) + Cardinality(told)
        /\ stored.dups + flush.dups + dups = Cardinality(CountedDup) + Cardinality(tdup)
=============================================================================
