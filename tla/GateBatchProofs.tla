--------------------------- MODULE GateBatchProofs ---------------------------
(***************************************************************************)
(* What the two endpoints of the gate guarantee together: for every number *)
(* of requests and of batches, every content of the batches, every order   *)
(* of their steps, and every loss, throttling and crash.                   *)
(***************************************************************************)
EXTENDS GateBatch, GateProofs, WellFoundedInduction
-----------------------------------------------------------------------------
(* The inductive invariants. *)

\* A batch past Classify, that neither failed nor died.
Classified == {"write", "writing", "countDup", "reply", "answered"}

\* What the handler of batch b holds at each of its steps.
BatchShape(b) ==
  /\ batch[b].pc = "sent" => batch[b].existing = {} /\ batch[b].unwritten = {}
  /\ batch[b].pc \in Classified => batch[b].unread = {} /\ batch[b].unwritten \subseteq Fresh(b)
  /\ batch[b].pc \in {"countDup", "reply", "answered"} => batch[b].unwritten = {}
  /\ batch[b].pending \subseteq batch[b].unwritten
  /\ batch[b].pc # "writing" => batch[b].pending = {}

\* What the table is known to hold: the rows behind the cache, behind the
\* answers of /accept, and behind what a batch has read or written.
RequestRows ==
  /\ CacheSound /\ RefusedOnlyIfClaimed
  /\ \A r \in Requests : phase[r] \in Won => table[KeyOf[r]] # NoEvent
Outstanding(b) ==
  IF batch[b].pc = "writing" THEN (batch[b].unwritten \ Chunk(b)) \cup batch[b].pending
  ELSE batch[b].unwritten
BatchRows(b) ==
  /\ \A k \in batch[b].existing : table[k] # NoEvent
  /\ ~throttled /\ batch[b].pc \in Classified =>
       \A i \in Fresh(b) \ Outstanding(b) : table[KeyAt(b, i)] # NoEvent

RowsInv == RequestRows /\ \A b \in Batches : BatchShape(b) /\ BatchRows(b)

\* A call remembers only answered calls, and cannot win what they accepted: a
\* request has not, and a batch finds the key, or has found it.
Barred(x, k) ==
  /\ x \in Requests => ~(phase[x] \in Won /\ KeyOf[x] = k)
  /\ x \in Batches /\ batch[x].pc # "sent" /\ k \in KeysIn(x) =>
       k \in batch[x].unread \cup batch[x].existing
HistoryInv ==
  \A x \in Requests \cup Batches : \A y \in earlier[x] :
    /\ y \in Answered
    /\ ~throttled => \A k \in AcceptedBy(y) : Barred(x, k)

\* A put that may be applied late was sent by a batch that failed or died after it
\* had read its keys, and is one of an event that was new to it.
LatePuts ==
  \A e \in written : \E b \in Batches :
    /\ batch[b].pc \in {"failed", "reset"} /\ batch[b].unread = {}
    /\ \E i \in Fresh(b) : Items[b][i] = e

\* Call x has been given key k, and will accept it or has.
Claimant(x, k) ==
  \/ x \in Requests /\ KeyOf[x] = k /\ phase[x] \in Won
  \/ x \in Batches /\ batch[x].pc \in Classified /\ \E i \in Fresh(x) : KeyAt(x, i) = k
CalmInv ==
  Calm =>
    /\ adrift = {} /\ written = {}
    /\ \A k \in Keys : table[k] # NoEvent => \E x \in Requests \cup Batches : Claimant(x, k)

\* What the flusher holds at each step, and the books.
FlushShape ==
  /\ flush.pc = "idle" => flush.total = 0 /\ flush.dups = 0
  /\ flush.pc = "swapDups" => flush.dups = 0
  /\ flush.pc = "restoreDups" => flush.total = 0
CountsInv == FlushShape /\ BatchesCounted
-----------------------------------------------------------------------------
(* Types. *)

LEMMA ItemFacts ==
  ASSUME NEW b \in Batches
  PROVE  /\ Items[b] \in Seq(Events \ Requests) /\ Len(Items[b]) \in Nat
         /\ Positions(b) = 1 .. Len(Items[b]) /\ Positions(b) \subseteq Nat
         /\ \A i \in Positions(b) :
              /\ Items[b][i] \in Events \ Requests /\ Items[b][i] # NoEvent
              /\ KeyAt(b, i) \in KeysIn(b) /\ KeyAt(b, i) = KeyOf[Items[b][i]]
         /\ KeysIn(b) \subseteq Keys /\ Fresh(b) \subseteq Positions(b)
         /\ Chunk(b) \subseteq batch[b].unwritten
<1>1. Items[b] \in Seq(Events \ Requests)  BY BatchAssumption
<1>2. /\ Len(Items[b]) \in Nat /\ Positions(b) = 1 .. Len(Items[b])
      /\ \A i \in Positions(b) : Items[b][i] \in Events \ Requests
  BY <1>1 DEF Positions
<1>3. Positions(b) \subseteq Nat  BY <1>2
<1>4. \A i \in Positions(b) : KeyAt(b, i) \in Keys /\ KeyAt(b, i) = KeyOf[Items[b][i]]
  BY <1>2, GateAssumption DEF KeyAt
<1>5. \A i \in Positions(b) : KeyAt(b, i) \in KeysIn(b)  BY DEF KeysIn
<1>6. KeysIn(b) \subseteq Keys  BY <1>4 DEF KeysIn
<1>7. \A i \in Positions(b) : Items[b][i] # NoEvent  BY <1>2, GateAssumption
<1> QED  BY <1>1, <1>2, <1>3, <1>4, <1>5, <1>6, <1>7 DEF Fresh, Chunk

\* A step of one batch handler keeps its state in its type and leaves the other
\* batches, and everything of the gate but the table and the counters, alone.
LEMMA BatchMove ==
  ASSUME BatchTypeOK, NEW b \in Batches, BatchHandle(b)
  PROVE  /\ DOMAIN batch' = Batches /\ \A c \in Batches \ {b} : batch'[c] = batch[c]
         /\ batch'[b] \in BatchState(b)
         /\ UNCHANGED <<handlerVars, adrift, cache, flushVars, crashes>>
<1> DEFINE B == batch[b]
<1>1. DOMAIN batch = Batches  BY DEF BatchTypeOK
<1>2. /\ B = [pc |-> B.pc, unread |-> B.unread, existing |-> B.existing,
              unwritten |-> B.unwritten, pending |-> B.pending]
      /\ B.pc \in BatchEnded \cup {"sent", "read", "write", "writing", "countDup", "reply"}
      /\ B.unread \subseteq KeysIn(b) /\ B.existing \subseteq KeysIn(b)
      /\ B.unwritten \subseteq Positions(b) /\ B.pending \subseteq Positions(b)
  BY DEF BatchTypeOK, BatchState
<1>3. /\ Fresh(b) \subseteq Positions(b) /\ Chunk(b) \subseteq Positions(b)
  BY <1>2, ItemFacts
<1> USE <1>1, <1>2 DEF BatchState, vars, storeVars, countVars, BatchEnded
<1> HIDE DEF handlerVars, flushVars
<1>4. CASE BatchReceive(b)    BY <1>4 DEF BatchReceive
<1>5. CASE BatchRead(b)       BY <1>5 DEF BatchRead
<1>6. CASE Classify(b)        BY <1>3, <1>6 DEF Classify
<1>7. CASE BatchWriteItem(b)  BY <1>3, <1>7 DEF BatchWriteItem
<1>8. CASE BatchPut(b)        BY <1>8 DEF BatchPut
<1>9. CASE BatchWritten(b)    BY <1>9 DEF BatchWritten
<1>10. CASE BatchWriteLost(b) BY <1>10 DEF BatchWriteLost
<1>11. CASE BatchReadLost(b)  BY <1>11 DEF BatchReadLost
<1>12. CASE BatchCountTotal(b) BY <1>12 DEF BatchCountTotal
<1>13. CASE BatchCountDups(b) BY <1>13 DEF BatchCountDups
<1>14. CASE BatchRespond(b)   BY <1>14 DEF BatchRespond
<1> QED  BY <1>4, <1>5, <1>6, <1>7, <1>8, <1>9, <1>10, <1>11, <1>12, <1>13, <1>14 DEF BatchHandle

\* What a step of a batch handler may do to the table and to the history variables.
LEMMA BatchEffects ==
  ASSUME BatchTypeOK, NEW b \in Batches, BatchHandle(b)
  PROVE  /\ \/ UNCHANGED table
            \/ /\ batch[b].pc = "writing"
               /\ \E i \in Chunk(b) \cup batch[b].pending :
                    table' = [table EXCEPT ![KeyAt(b, i)] = Items[b][i]]
         /\ total' \in Nat /\ dups' \in Nat
         /\ UNCHANGED throttled \/ throttled' = TRUE
         /\ \/ UNCHANGED written
            \/ BatchWriteLost(b) /\ batch'[b].pc = "failed" /\ written' = written \cup ChunkEvents(b)
<1> USE DEF vars, storeVars, countVars
<1> HIDE DEF handlerVars, flushVars
<1>1. total \in Nat /\ dups \in Nat /\ throttled \in BOOLEAN /\ DOMAIN batch = Batches
  BY DEF BatchTypeOK, TypeOK
<1>4. CASE BatchReceive(b)    BY <1>1, <1>4 DEF BatchReceive
<1>5. CASE BatchRead(b)
  <2>1. UNCHANGED throttled \/ throttled' = TRUE  BY <1>5 DEF BatchRead
  <2>2. UNCHANGED <<table, total, dups, written>>  BY <1>5 DEF BatchRead
  <2> QED  BY <1>1, <2>1, <2>2
<1>6. CASE Classify(b)        BY <1>1, <1>6 DEF Classify
<1>7. CASE BatchWriteItem(b)  BY <1>1, <1>7 DEF BatchWriteItem
<1>8. CASE BatchPut(b)
  BY <1>1, <1>8 DEF BatchPut
<1>9. CASE BatchWritten(b)    BY <1>1, <1>9 DEF BatchWritten
<1>10. CASE BatchWriteLost(b) BY <1>1, <1>10 DEF BatchWriteLost
<1>11. CASE BatchReadLost(b)  BY <1>1, <1>11 DEF BatchReadLost
<1>12. CASE BatchCountTotal(b) BY <1>1, <1>12, ItemFacts DEF BatchCountTotal
<1>13. CASE BatchCountDups(b)
  <2>1. Len(Items[b]) - Cardinality(Fresh(b)) \in Nat
    <3>1. IsFiniteSet(Positions(b)) /\ Cardinality(Positions(b)) = Len(Items[b])
      <4>1. Len(Items[b]) \in Nat /\ Positions(b) = 1 .. Len(Items[b])  BY ItemFacts
      <4> QED  BY <4>1, FS_Interval
    <3>2. Fresh(b) \subseteq Positions(b)  BY ItemFacts
    <3>3. Cardinality(Fresh(b)) \in Nat /\ Cardinality(Fresh(b)) <= Cardinality(Positions(b))
      BY <3>1, <3>2, FS_Subset, FS_CardinalityType
    <3> QED  BY <3>1, <3>3, ItemFacts
  <2> QED  BY <1>1, <1>13, <2>1 DEF BatchCountDups
<1>14. CASE BatchRespond(b)   BY <1>1, <1>14 DEF BatchRespond
<1> QED  BY <1>4, <1>5, <1>6, <1>7, <1>8, <1>9, <1>10, <1>11, <1>12, <1>13, <1>14 DEF BatchHandle

\* The steps of the composition: of the gate alone, of one batch, or of both.
LEMMA StepCases ==
  ASSUME [AllNext]_allVars
  PROVE  \/ [Next]_vars /\ UNCHANGED batchVars
         \/ \E b \in Batches : BatchHandle(b)
         \/ \E e \in written : PutWritten(e)
         \/ CrashAll
BY DEF AllNext, allVars, Next

\* A crash of the whole process is a crash of the gate, and ends the batches.
LEMMA CrashFacts ==
  ASSUME BatchTypeOK, CrashAll
  PROVE  /\ Crash /\ UNCHANGED <<table, throttled>> /\ DOMAIN batch' = Batches
         /\ crashes' = crashes + 1
         /\ \A b \in Batches :
              \/ batch'[b] = batch[b] /\ batch[b].pc \in BatchEnded \cup {"sent"}
              \/ /\ batch'[b] = [batch[b] EXCEPT !.pc = "reset", !.pending = {}]
                 /\ batch[b].pc \notin BatchEnded \cup {"sent"}
         /\ written' \subseteq Events \ Requests
<1>1. Crash /\ table' = table /\ crashes' = crashes + 1 /\ throttled' = throttled
  BY DEF CrashAll, Crash
<1>2. batch' = [b \in Batches |->
        IF batch[b].pc \in BatchEnded \cup {"sent"} THEN batch[b]
        ELSE [batch[b] EXCEPT !.pc = "reset", !.pending = {}]]
  BY DEF CrashAll
<1>3. written' \subseteq Events \ Requests
  <2>1. ASSUME NEW b \in Batches PROVE ChunkEvents(b) \subseteq Events \ Requests
    <3>1. Chunk(b) \subseteq Positions(b)  BY ItemFacts DEF BatchTypeOK, BatchState
    <3> QED  BY <3>1, ItemFacts DEF ChunkEvents
  <2>2. written \subseteq Events \ Requests  BY DEF BatchTypeOK
  <2> DEFINE W == {b \in Batches : batch[b].pc = "writing"}
  <2>3. written' = written \cup UNION {ChunkEvents(b) : b \in W}  BY DEF CrashAll
  <2> QED  BY <2>1, <2>2, <2>3
<1> QED  BY <1>1, <1>2, <1>3

\* Applying a stray put writes a row.
LEMMA PutFacts ==
  ASSUME BatchTypeOK, NEW e \in written, PutWritten(e)
  PROVE  /\ e \in Events /\ e # NoEvent /\ KeyOf[e] \in Keys
         /\ table' = [table EXCEPT ![KeyOf[e]] = e] /\ written' = written \ {e}
         /\ UNCHANGED <<handlerVars, adrift, cache, countVars, flushVars, crashes, batch, throttled>>
<1>1. e \in Events /\ e # NoEvent /\ KeyOf[e] \in Keys  BY GateAssumption DEF BatchTypeOK
<1> QED  BY <1>1 DEF PutWritten

\* No step of any call takes a row away, or leaves its types.
LEMMA BatchTypeStep ==
  ASSUME BatchTypeOK, [AllNext]_allVars
  PROVE  BatchTypeOK' /\ \A k \in Keys : table[k] # NoEvent => table'[k] # NoEvent
<1>1. /\ TypeOK /\ DOMAIN batch = Batches /\ \A b \in Batches : batch[b] \in BatchState(b)
      /\ written \subseteq Events \ Requests /\ throttled \in BOOLEAN
      /\ earlier \in [Requests \cup Batches -> SUBSET (Requests \cup Batches)]
  BY DEF BatchTypeOK
<1>2. earlier' \in [Requests \cup Batches -> SUBSET (Requests \cup Batches)]
  <2>1. CASE UNCHANGED allVars  BY <1>1, <2>1 DEF allVars
  <2>2. CASE Remember
    <3>1. Answered \subseteq Requests \cup Batches  BY DEF Answered
    <3> QED  BY <1>1, <2>2, <3>1 DEF Remember
  <2> QED  BY <2>1, <2>2 DEF AllNext
<1>3. CASE [Next]_vars /\ UNCHANGED batchVars
  <2>1. TypeOK'  BY <1>1, <1>3, TypeStep
  <2>2. \A k \in Keys : table[k] # NoEvent => table'[k] = table[k]  BY <1>1, <1>3, RowsStep
  <2>3. UNCHANGED <<batch, written, throttled>>  BY <1>3 DEF batchVars
  <2>4. BatchTypeOK'  BY <1>1, <1>2, <2>1, <2>3 DEF BatchTypeOK, BatchState
  <2> QED  BY <2>2, <2>4
<1>4. ASSUME NEW b \in Batches, BatchHandle(b)
      PROVE  BatchTypeOK' /\ \A k \in Keys : table[k] # NoEvent => table'[k] # NoEvent
  <2>1. /\ DOMAIN batch' = Batches /\ \A c \in Batches \ {b} : batch'[c] = batch[c]
        /\ batch'[b] \in BatchState(b)
        /\ UNCHANGED <<handlerVars, adrift, cache, flushVars, crashes>>
    BY <1>4, BatchMove
  <2>2. /\ \/ UNCHANGED table
           \/ \E i \in Positions(b) : table' = [table EXCEPT ![KeyAt(b, i)] = Items[b][i]]
        /\ total' \in Nat /\ dups' \in Nat /\ throttled' \in BOOLEAN
    <3>1. Chunk(b) \cup batch[b].pending \subseteq Positions(b)
      BY <1>1, ItemFacts DEF BatchState
    <3> QED  BY <1>1, <1>4, <3>1, BatchEffects
  <2>3. table' \in [Keys -> Events \cup {NoEvent}]
        /\ \A k \in Keys : table[k] # NoEvent => table'[k] # NoEvent
    <3>1. table \in [Keys -> Events \cup {NoEvent}]  BY <1>1 DEF TypeOK
    <3>2. \A i \in Positions(b) : KeyAt(b, i) \in Keys /\ Items[b][i] \in Events
                                  /\ Items[b][i] # NoEvent
      BY ItemFacts
    <3> QED  BY <2>2, <3>1, <3>2
  <2>4. TypeOK'
    BY <1>1, <2>1, <2>2, <2>3 DEF TypeOK, handlerVars, flushVars
  <2>5. written' \subseteq Events \ Requests
    <3>1. ChunkEvents(b) \subseteq Events \ Requests
      <4>1. Chunk(b) \subseteq Positions(b)  BY <1>1, ItemFacts DEF BatchState
      <4> QED  BY <4>1, ItemFacts DEF ChunkEvents
    <3> QED  BY <1>1, <1>4, <3>1, BatchEffects
  <2>6. \A c \in Batches : batch'[c] \in BatchState(c)  BY <1>1, <2>1
  <2> QED  BY <1>2, <2>1, <2>2, <2>3, <2>4, <2>5, <2>6 DEF BatchTypeOK, BatchState
<1>5. ASSUME NEW e \in written, PutWritten(e)
      PROVE  BatchTypeOK' /\ \A k \in Keys : table[k] # NoEvent => table'[k] # NoEvent
  <2>1. /\ e \in Events /\ e # NoEvent /\ KeyOf[e] \in Keys
        /\ table' = [table EXCEPT ![KeyOf[e]] = e] /\ written' = written \ {e}
        /\ UNCHANGED <<handlerVars, adrift, cache, countVars, flushVars, crashes, batch, throttled>>
    BY <1>5, PutFacts
  <2>2. table' \in [Keys -> Events \cup {NoEvent}]
        /\ \A k \in Keys : table[k] # NoEvent => table'[k] # NoEvent
    BY <1>1, <2>1 DEF TypeOK
  <2>3. TypeOK'  BY <1>1, <2>1, <2>2 DEF TypeOK, handlerVars, countVars, flushVars
  <2>4. \A c \in Batches : batch'[c] \in BatchState(c)  BY <1>1, <2>1
  <2>5. DOMAIN batch' = Batches /\ written' \subseteq Events \ Requests /\ throttled' \in BOOLEAN
    BY <1>1, <2>1
  <2> QED  BY <1>2, <2>2, <2>3, <2>4, <2>5 DEF BatchTypeOK, BatchState
<1>6. CASE CrashAll
  <2>1. /\ Crash /\ UNCHANGED <<table, throttled>> /\ DOMAIN batch' = Batches
        /\ written' \subseteq Events \ Requests
    BY <1>6, CrashFacts
  <2>2. TypeOK'  BY <1>1, <2>1, TypeStep DEF Next
  <2>3. ASSUME NEW b \in Batches PROVE batch'[b] \in BatchState(b)
    <3>1. \/ batch'[b] = batch[b]
          \/ batch'[b] = [batch[b] EXCEPT !.pc = "reset", !.pending = {}]
      BY <1>6, CrashFacts
    <3> QED  BY <1>1, <3>1 DEF BatchState, BatchEnded
  <2> QED  BY <1>1, <1>2, <2>1, <2>2, <2>3 DEF BatchTypeOK, BatchState
<1> QED  BY <1>3, <1>4, <1>5, <1>6, StepCases

LEMMA BatchTypeInit == AllInit => BatchTypeOK
<1> SUFFICES ASSUME AllInit PROVE BatchTypeOK
  OBVIOUS
<1>1. TypeOK  BY TypeInit DEF AllInit
<1>2. DOMAIN batch = Batches /\ \A b \in Batches : batch[b] \in BatchState(b)
  BY DEF AllInit, BatchInit, BatchState
<1>3. written = {} /\ throttled = FALSE /\ earlier = [x \in Requests \cup Batches |-> {}]
  BY DEF AllInit, BatchInit
<1> QED  BY <1>1, <1>2, <1>3 DEF BatchTypeOK

\* The variables of the whole gate, both endpoints together, stay in their types.
THEOREM BatchTypeCorrect == AllSpec => []BatchTypeOK
BY BatchTypeInit, BatchTypeStep, PTL DEF AllSpec
-----------------------------------------------------------------------------
(* The rows behind the answers. *)

\* A step of the gate itself answers, refuses and caches only keys with a row.
LEMMA RequestRowsStep ==
  ASSUME TypeOK, RequestRows, [Next]_vars
  PROVE  RequestRows'
<1> USE GateAssumption DEF TypeOK, Phases, Won, Lost, Ended, RequestRows, RefusedOnlyIfClaimed, CacheSound
<1> USE DEF handlerVars, storeVars, countVars, flushVars, Goto
<1>0. \A r \in Requests : KeyOf[r] \in Keys /\ r # NoEvent
  OBVIOUS
<1>k. \A k \in Keys : table[k] # NoEvent => table'[k] # NoEvent
  BY RowsStep
<1>i. cache.items \subseteq Keys  BY DEF Caches
<1>1. ASSUME NEW r \in Requests, Handle(r) PROVE RequestRows'
  <2>k. KeyOf[r] \in Keys  BY <1>0
  <2>1. CASE Reject(r)         BY <2>1 DEF Reject
  <2>2. CASE Receive(r)
    <3>1. cache'.items = cache.items /\ table' = table
      BY <2>k, <2>2, LookupType DEF Receive
    <3>2. \A s \in Requests : s # r => phase'[s] = phase[s]
      BY <2>2 DEF Receive
    <3>3. (phase'[r] = "countDup" /\ KeyOf[r] \in cache.items) \/ phase'[r] = "put"
      BY <2>2 DEF Receive, Cached
    <3> QED  BY <1>0, <3>1, <3>2, <3>3
  <2>3. CASE PutItem(r)
    <3>1. cache' = cache  BY <2>3 DEF PutItem
    <3>2. table'[KeyOf[r]] # NoEvent  BY <1>0, <2>k, <2>3 DEF PutItem
    <3>3. \A s \in Requests : phase'[s] = phase[s] \/ s = r
      BY <2>3 DEF PutItem
    <3> QED  BY <1>0, <1>i, <1>k, <3>1, <3>2, <3>3
  <2>4. CASE LoseAttempt(r)
    <3>1. table' = table /\ cache' = cache
      BY <2>4 DEF LoseAttempt
    <3>2. \A s \in Requests : phase'[s] = phase[s] \/ phase'[s] \in {"put", "failed"}
      BY <2>4 DEF LoseAttempt
    <3> QED  BY <3>1, <3>2
  <2>5. CASE AddToCache(r)
    <3>1. cache'.items \subseteq cache.items \cup {KeyOf[r]} /\ table' = table
      BY <2>k, <2>5, AddType DEF AddToCache
    <3>2. table[KeyOf[r]] # NoEvent
      BY <1>0, <2>5 DEF AddToCache
    <3>3. CacheSound'
      BY <3>1, <3>2
    <3>4. \A s \in Requests : phase'[s] \in Won \cup Lost => phase[s] \in Won \cup Lost
      BY <2>5 DEF AddToCache
    <3> QED  BY <3>1, <3>3, <3>4
  <2>6. CASE CountDuplicate(r) BY <2>6 DEF CountDuplicate
  <2>7. CASE CountRequest(r)   BY <2>7 DEF CountRequest
  <2>8. CASE Respond(r)        BY <2>8 DEF Respond
  <2> QED  BY <1>1, <2>1, <2>2, <2>3, <2>4, <2>5, <2>6, <2>7, <2>8 DEF Handle
<1>2. ASSUME NEW r \in Requests, ApplyAdrift(r) PROVE RequestRows'
  <2>1. phase' = phase /\ cache' = cache  BY <1>2 DEF ApplyAdrift
  <2> QED  BY <1>0, <1>i, <1>k, <2>1
<1>3. CASE Flusher
  <2>1. UNCHANGED <<phase, table, cache>>
    BY <1>3 DEF Flusher, SwapTotal, SwapDups, UpdateItem, UpdateUnacknowledged, UpdateFailed,
                RestoreTotal, RestoreDups
  <2> QED  BY <2>1
<1>4. CASE Crash
  <2>1. \A r \in Requests : phase'[r] = phase[r] \/ phase'[r] = "reset"
    BY <1>4 DEF Crash
  <2>2. table' = table /\ cache'.items = {}
    BY <1>4 DEF Crash, EmptyCache
  <2> QED  BY <2>1, <2>2
<1>5. CASE UNCHANGED vars
  BY <1>5 DEF vars
<1> QED  BY <1>1, <1>2, <1>3, <1>4, <1>5 DEF Next, Handler

\* The handler of a batch that takes a step holds what it should before and after,
\* and what it has read or written has a row.
LEMMA BatchRowsMove ==
  ASSUME BatchTypeOK, BatchTypeOK', NEW b \in Batches, BatchHandle(b), BatchShape(b), BatchRows(b),
         \A k \in Keys : table[k] # NoEvent => table'[k] # NoEvent
  PROVE  BatchShape(b)' /\ BatchRows(b)'
<1> DEFINE B == batch[b]
<1>1. DOMAIN batch = Batches  BY DEF BatchTypeOK
<1>2. /\ B = [pc |-> B.pc, unread |-> B.unread, existing |-> B.existing,
              unwritten |-> B.unwritten, pending |-> B.pending]
      /\ B.unread \subseteq KeysIn(b) /\ B.existing \subseteq KeysIn(b)
      /\ B.unwritten \subseteq Positions(b) /\ B.pending \subseteq Positions(b)
  BY DEF BatchTypeOK, BatchState
<1>3. /\ KeysIn(b) \subseteq Keys /\ Fresh(b) \subseteq Positions(b)
      /\ Chunk(b) \subseteq B.unwritten
      /\ \A i \in Positions(b) : KeyAt(b, i) \in KeysIn(b) /\ Items[b][i] # NoEvent
  BY ItemFacts
<1>4. /\ B.existing \subseteq Keys
      /\ \A i \in Fresh(b) : KeyAt(b, i) \in Keys
  BY <1>2, <1>3
<1>5. batch'[b].existing = B.existing => Fresh(b)' = Fresh(b)
  BY DEF Fresh
<1>6. batch'[b].unwritten = B.unwritten => Chunk(b)' = Chunk(b)
  BY DEF Chunk
<1> USE <1>1, <1>2 DEF vars, storeVars, countVars
<1> HIDE DEF handlerVars, flushVars
<1>7. CASE BatchReceive(b)
  <2>1. /\ B.pc = "sent" /\ B.existing = {} /\ B.unwritten = {} /\ B.pending = {}
        /\ batch'[b].existing = {} /\ batch'[b].unwritten = {} /\ batch'[b].pending = {}
        /\ batch'[b].unread = KeysIn(b) /\ throttled' = throttled
        /\ \/ batch'[b].pc \in {"rejected", "read"}
           \/ batch'[b].pc = "answered" /\ Items[b] = << >>
    <3>1. /\ B.pc = "sent" /\ batch'[b].existing = B.existing /\ batch'[b].unwritten = B.unwritten
          /\ batch'[b].pending = B.pending
          /\ batch'[b].unread = KeysIn(b) /\ throttled' = throttled
      BY <1>7 DEF BatchReceive
    <3>2. batch'[b].pc \in {"rejected", "read"} \/ (batch'[b].pc = "answered" /\ Items[b] = << >>)
      <4> DEFINE bad == \E i \in Positions(b) : Items[b][i] \in Malformed
                 p == IF bad THEN "rejected" ELSE IF Items[b] = << >> THEN "answered" ELSE "read"
      <4>1. p \in {"rejected", "read"} \/ (p = "answered" /\ Items[b] = << >>)
        <5> HIDE DEF bad
        <5> QED  OBVIOUS
      <4>2. batch' = [batch EXCEPT ![b].pc = p, ![b].unread = KeysIn(b)]
        BY <1>7 DEF BatchReceive
      <4> HIDE DEF p
      <4>3. batch'[b].pc = p  BY <4>2
      <4> QED  BY <4>1, <4>3
    <3>3. B.existing = {} /\ B.unwritten = {} /\ B.pending = {}  BY <3>1 DEF BatchShape
    <3> QED  BY <3>1, <3>2, <3>3
  <2>2. CASE batch'[b].pc \in {"rejected", "read"}
    BY <2>1, <2>2 DEF BatchShape, BatchRows, Classified
  <2>3. CASE batch'[b].pc = "answered" /\ Items[b] = << >>
    <3>1. Positions(b) = {}  BY <2>3 DEF Positions
    <3>2. KeysIn(b) = {} /\ Fresh(b)' = {}  BY <3>1 DEF KeysIn, Fresh
    <3> QED  BY <2>1, <2>3, <3>2 DEF BatchShape, BatchRows, Classified
  <2> QED  BY <2>1, <2>2, <2>3
<1>8. CASE BatchRead(b)
  <2>1. /\ B.pc = "read" /\ batch'[b].pc = "read" /\ batch'[b].unwritten = B.unwritten
        /\ batch'[b].pending = B.pending
    BY <1>8 DEF BatchRead
  <2>2. \A k \in batch'[b].existing : table[k] # NoEvent
    BY <1>8 DEF BatchRead, BatchRows
  <2>3. batch'[b].existing \subseteq Keys
    BY <1>3, <1>8 DEF BatchRead
  <2>4. \A k \in batch'[b].existing : table'[k] # NoEvent
    BY <2>2, <2>3
  <2> QED  BY <2>1, <2>4 DEF BatchShape, BatchRows, Classified
<1>9. CASE Classify(b)
  <2>1. /\ batch'[b].pc = "write" /\ batch'[b].unwritten = Fresh(b) /\ batch'[b].unread = {}
        /\ batch'[b].existing = B.existing /\ batch'[b].pending = B.pending
        /\ B.pending = {} /\ table' = table
    BY <1>9 DEF Classify, BatchShape
  <2> QED
    BY <1>4, <1>5, <2>1 DEF BatchShape, BatchRows, Classified, Outstanding
<1>r. ASSUME batch'[b].existing = B.existing, UNCHANGED throttled \/ throttled' = TRUE,
             B.pc \in Classified,
             ~throttled' => \A i \in (Fresh(b) \cap Outstanding(b)) \ Outstanding(b)' :
                              table'[KeyAt(b, i)] # NoEvent
      PROVE  BatchRows(b)'
  <2>1. Fresh(b)' = Fresh(b)  BY <1>5, <1>r
  <2>2. \A k \in batch'[b].existing : table'[k] # NoEvent  BY <1>4, <1>r DEF BatchRows
  <2>3. ASSUME ~throttled', NEW i \in Fresh(b) \ Outstanding(b)'
        PROVE  table'[KeyAt(b, i)] # NoEvent
    <3>1. CASE i \in Outstanding(b)  BY <1>r, <2>3, <3>1
    <3>2. CASE i \notin Outstanding(b)
      <4>1. ~throttled  BY <1>r, <2>3
      <4>2. table[KeyAt(b, i)] # NoEvent  BY <1>r, <2>3, <3>2, <4>1 DEF BatchRows
      <4> QED  BY <1>4, <2>3, <4>2
    <3> QED  BY <3>1, <3>2
  <2> QED  BY <2>1, <2>2, <2>3 DEF BatchRows
<1>s. ASSUME batch'[b].existing = B.existing, B.pc \in Classified,
             batch'[b].pc \in Classified => batch'[b].unread = {} /\ batch'[b].unwritten \subseteq B.unwritten,
             batch'[b].pc # "sent",
             batch'[b].pc \in {"countDup", "reply", "answered"} => batch'[b].unwritten = {},
             batch'[b].pending \subseteq batch'[b].unwritten,
             batch'[b].pc # "writing" => batch'[b].pending = {}
      PROVE  BatchShape(b)'
  <2>1. Fresh(b)' = Fresh(b)  BY <1>5, <1>s
  <2>2. B.unwritten \subseteq Fresh(b)  BY <1>s DEF BatchShape
  <2> QED  BY <1>s, <2>1, <2>2 DEF BatchShape
<1>t. B.pc \in Classified => B.unread = {} /\ B.unwritten \subseteq Fresh(b)
  BY DEF BatchShape
<1> USE <1>t
<1>10. CASE BatchWriteItem(b)
  <2>1. /\ B.pc = "write" /\ batch'[b].pc = "writing" /\ batch'[b].pending = Chunk(b)
        /\ batch'[b].unwritten = B.unwritten /\ batch'[b].existing = B.existing
        /\ batch'[b].unread = B.unread /\ throttled' = throttled
    BY <1>10 DEF BatchWriteItem
  <2>2. Outstanding(b) = B.unwritten /\ Outstanding(b)' = B.unwritten
    BY <1>3, <1>6, <2>1 DEF Outstanding
  <2> QED  BY <1>3, <1>r, <1>s, <2>1, <2>2 DEF Classified
<1>11. CASE BatchPut(b)
  <2>1. PICK i \in IF LossyNetwork THEN Chunk(b) ELSE B.pending :
          /\ table' = [table EXCEPT ![KeyAt(b, i)] = Items[b][i]]
          /\ batch' = [batch EXCEPT ![b].pending = @ \ {i}]
    BY <1>11 DEF BatchPut
  <2>2. /\ B.pc = "writing" /\ batch'[b].pc = "writing" /\ batch'[b].pending = B.pending \ {i}
        /\ batch'[b].unwritten = B.unwritten /\ batch'[b].existing = B.existing
        /\ batch'[b].unread = B.unread /\ throttled' = throttled
    BY <1>11, <2>1 DEF BatchPut
  <2>3. i \in Positions(b) /\ B.pending \subseteq B.unwritten
    BY <1>3, <2>1 DEF BatchShape
  <2>4. table'[KeyAt(b, i)] # NoEvent
    BY <1>3, <2>1, <2>3 DEF BatchTypeOK, TypeOK
  <2>5. /\ Outstanding(b) = (B.unwritten \ Chunk(b)) \cup B.pending
        /\ Outstanding(b)' = (B.unwritten \ Chunk(b)) \cup (B.pending \ {i})
    BY <1>6, <2>2 DEF Outstanding
  <2> QED  BY <1>r, <1>s, <2>2, <2>3, <2>4, <2>5 DEF Classified
<1>12. CASE BatchWritten(b)
  <2>1. /\ B.pc = "writing" /\ batch'[b].pc = "write" /\ batch'[b].pending = {}
        /\ batch'[b].unwritten = B.unwritten \ Chunk(b) /\ batch'[b].existing = B.existing
        /\ batch'[b].unread = B.unread
    BY <1>12 DEF BatchWritten
  <2>2. (B.pending = {} /\ throttled' = throttled) \/ throttled' = TRUE
    BY <1>12 DEF BatchWritten
  <2>3. /\ Outstanding(b) = (B.unwritten \ Chunk(b)) \cup B.pending
        /\ Outstanding(b)' = B.unwritten \ Chunk(b)
    BY <2>1 DEF Outstanding
  <2> QED  BY <1>r, <1>s, <2>1, <2>2, <2>3 DEF Classified
<1>13. CASE BatchWriteLost(b)
  <2>1. /\ B.pc = "writing" /\ batch'[b].pc = "failed" /\ batch'[b].pending = {}
        /\ batch'[b].existing = B.existing
    BY <1>13 DEF BatchWriteLost
  <2>2. BatchRows(b)'  BY <1>4, <2>1 DEF BatchRows, Classified
  <2> QED  BY <1>s, <2>1, <2>2 DEF Classified
<1>14. CASE BatchReadLost(b)
  <2>1. /\ B.pc = "read" /\ batch'[b].pc = "failed" /\ batch'[b].pending = B.pending
        /\ batch'[b].existing = B.existing
    BY <1>14 DEF BatchReadLost
  <2>2. BatchRows(b)'  BY <1>4, <2>1 DEF BatchRows, Classified
  <2>3. B.pending = {}  BY <2>1 DEF BatchShape
  <2> QED  BY <2>1, <2>2, <2>3 DEF BatchShape, Classified
<1>15. ASSUME BatchCountTotal(b) \/ BatchCountDups(b) \/ BatchRespond(b)
       PROVE  BatchShape(b)' /\ BatchRows(b)'
  <2>1. /\ batch'[b].pc \in {"countDup", "reply", "answered"}
        /\ batch'[b].pending = B.pending /\ batch'[b].unwritten = B.unwritten
        /\ batch'[b].existing = B.existing /\ batch'[b].unread = B.unread
        /\ throttled' = throttled
    BY <1>15 DEF BatchCountTotal, BatchCountDups, BatchRespond
  <2>2. B.pc \in Classified \ {"writing"} /\ B.unwritten = {}
    BY <1>15 DEF BatchCountTotal, BatchCountDups, BatchRespond, BatchShape, Classified
  <2>3. Outstanding(b) = {}  BY <2>2 DEF Outstanding
  <2>4. B.pending = {}  BY <2>2 DEF BatchShape
  <2> QED  BY <1>r, <1>s, <2>1, <2>2, <2>3, <2>4 DEF Classified
<1> QED  BY <1>7, <1>8, <1>9, <1>10, <1>11, <1>12, <1>13, <1>14, <1>15 DEF BatchHandle

\* A batch whose handler does not move keeps what it has.
LEMMA BatchRowsKept ==
  ASSUME BatchTypeOK, NEW b \in Batches, batch'[b] = batch[b], BatchShape(b), BatchRows(b),
         \A k \in Keys : table[k] # NoEvent => table'[k] # NoEvent,
         UNCHANGED throttled \/ throttled' = TRUE
  PROVE  BatchShape(b)' /\ BatchRows(b)'
<1>1. Fresh(b)' = Fresh(b) /\ Chunk(b)' = Chunk(b)  BY DEF Fresh, Chunk
<1>2. Outstanding(b)' = Outstanding(b)  BY <1>1 DEF Outstanding
<1>3. batch[b].existing \subseteq Keys /\ \A i \in Fresh(b) : KeyAt(b, i) \in Keys
  BY ItemFacts DEF BatchTypeOK, BatchState
<1>4. ~throttled' => ~throttled  OBVIOUS
<1>5. BatchShape(b)'  BY <1>1 DEF BatchShape
<1> QED  BY <1>1, <1>2, <1>3, <1>4, <1>5 DEF BatchRows

\* A step that neither answers nor caches anything keeps the rows behind /accept.
LEMMA RequestRowsKept ==
  ASSUME TypeOK, RequestRows, UNCHANGED <<phase, cache>>,
         \A k \in Keys : table[k] # NoEvent => table'[k] # NoEvent
  PROVE  RequestRows'
<1>1. cache.items \subseteq Keys /\ \A r \in Requests : KeyOf[r] \in Keys
  BY GateAssumption DEF TypeOK, Caches
<1> QED  BY <1>1 DEF RequestRows, CacheSound, RefusedOnlyIfClaimed

LEMMA RowsInvStep ==
  ASSUME BatchTypeOK, RowsInv, [AllNext]_allVars
  PROVE  RowsInv'
<1>1. /\ TypeOK /\ DOMAIN batch = Batches /\ RequestRows
      /\ \A b \in Batches : BatchShape(b) /\ BatchRows(b)
  BY DEF BatchTypeOK, RowsInv
<1>2. BatchTypeOK' /\ \A k \in Keys : table[k] # NoEvent => table'[k] # NoEvent
  BY BatchTypeStep
<1>3. CASE [Next]_vars /\ UNCHANGED batchVars
  <2>1. RequestRows'  BY <1>1, <1>3, RequestRowsStep
  <2>2. UNCHANGED <<batch, throttled>>  BY <1>3 DEF batchVars
  <2>3. ASSUME NEW b \in Batches PROVE BatchShape(b)' /\ BatchRows(b)'
    BY <1>1, <1>2, <2>2, BatchRowsKept
  <2> QED  BY <2>1, <2>3 DEF RowsInv
<1>4. ASSUME NEW b \in Batches, BatchHandle(b) PROVE RowsInv'
  <2>1. /\ \A c \in Batches \ {b} : batch'[c] = batch[c]
        /\ UNCHANGED <<phase, cache>>
    BY <1>4, BatchMove DEF handlerVars
  <2>2. UNCHANGED throttled \/ throttled' = TRUE  BY <1>4, BatchEffects
  <2>3. RequestRows'  BY <1>1, <1>2, <2>1, RequestRowsKept
  <2>4. BatchShape(b)' /\ BatchRows(b)'  BY <1>1, <1>2, <1>4, BatchRowsMove
  <2>5. ASSUME NEW c \in Batches, c # b PROVE BatchShape(c)' /\ BatchRows(c)'
    <3>1. batch'[c] = batch[c]  BY <2>1, <2>5
    <3> QED  BY <1>1, <1>2, <2>2, <3>1, BatchRowsKept
  <2>6. \A c \in Batches : BatchShape(c)' /\ BatchRows(c)'  BY <2>4, <2>5
  <2> QED  BY <2>3, <2>6 DEF RowsInv
<1>5. ASSUME NEW e \in written, PutWritten(e) PROVE RowsInv'
  <2>1. UNCHANGED <<phase, cache, batch, throttled>>  BY <1>5, PutFacts DEF handlerVars
  <2>2. RequestRows'  BY <1>1, <1>2, <2>1, RequestRowsKept
  <2>3. ASSUME NEW b \in Batches PROVE BatchShape(b)' /\ BatchRows(b)'
    BY <1>1, <1>2, <2>1, BatchRowsKept
  <2> QED  BY <2>2, <2>3 DEF RowsInv
<1>6. CASE CrashAll
  <2>1. Crash /\ UNCHANGED <<table, throttled>>  BY <1>6, CrashFacts
  <2>2. RequestRows'  BY <1>1, <2>1, RequestRowsStep DEF Next
  <2>3. ASSUME NEW b \in Batches PROVE BatchShape(b)' /\ BatchRows(b)'
    <3>1. CASE batch'[b] = batch[b]  BY <1>1, <1>2, <2>1, <3>1, BatchRowsKept
    <3>2. CASE batch'[b] = [batch[b] EXCEPT !.pc = "reset", !.pending = {}]
      <4>1. /\ batch'[b].pc = "reset" /\ batch'[b].pending = {}
            /\ batch'[b].existing = batch[b].existing
        BY <1>1, <3>2 DEF BatchTypeOK, BatchState
      <4>2. batch[b].existing \subseteq Keys
        BY ItemFacts DEF BatchTypeOK, BatchState
      <4>3. BatchShape(b)'  BY <4>1 DEF BatchShape, Classified
      <4>4. BatchRows(b)'  BY <1>1, <1>2, <4>1, <4>2 DEF BatchRows, Classified
      <4> QED  BY <4>3, <4>4
    <3> QED  BY <1>6, <3>1, <3>2, CrashFacts
  <2> QED  BY <2>2, <2>3 DEF RowsInv
<1> QED  BY <1>3, <1>4, <1>5, <1>6, StepCases

LEMMA RowsInvInit == AllInit => RowsInv
<1> SUFFICES ASSUME AllInit PROVE RowsInv
  OBVIOUS
<1>1. RequestRows
  BY DEF AllInit, Init, RequestRows, CacheSound, RefusedOnlyIfClaimed, Won, Lost, EmptyCache
<1>2. \A b \in Batches : BatchShape(b) /\ BatchRows(b)
  BY DEF AllInit, BatchInit, BatchShape, BatchRows, Classified
<1> QED  BY <1>1, <1>2 DEF RowsInv

\* What is accepted has a row, by either endpoint.
LEMMA AcceptedRow ==
  ASSUME BatchTypeOK, RowsInv, ~throttled,
         NEW x \in Requests \cup Batches, NEW k \in AcceptedBy(x)
  PROVE  k \in Keys /\ table[k] # NoEvent
<1>1. CASE x \in Batches
  <2>1. batch[x].pc = "answered" /\ \E i \in Fresh(x) : k = KeyAt(x, i)
    BY <1>1 DEF AcceptedBy, BatchAccepted
  <2>2. PICK i \in Fresh(x) : k = KeyAt(x, i)  BY <2>1
  <2>3. Outstanding(x) = {}
    BY <1>1, <2>1 DEF RowsInv, BatchShape, Outstanding
  <2>4. k \in Keys  BY <1>1, <2>2, ItemFacts
  <2> QED  BY <1>1, <2>1, <2>2, <2>3, <2>4 DEF RowsInv, BatchRows, Classified
<1>2. CASE x \notin Batches
  <2>1. x \in Requests /\ phase[x] = "accepted" /\ k = KeyOf[x]
    BY <1>2 DEF AcceptedBy
  <2> QED  BY <2>1, GateAssumption DEF RowsInv, RequestRows, Won
<1> QED  BY <1>1, <1>2

\* Every key acceptBatchHandler answers as accepted has a row, as long as DynamoDB
\* returns no UnprocessedItems: every chunk is written before the response.
THEOREM BatchRowsWritten == AllSpec => []BatchAcceptedHasRow
<1>1. BatchTypeOK /\ RowsInv => BatchAcceptedHasRow
  <2>1. \A b \in Batches : b \in Requests \cup Batches /\ AcceptedBy(b) = BatchAccepted(b)
    BY DEF AcceptedBy
  <2> QED  BY <2>1, AcceptedRow DEF BatchAcceptedHasRow
<1>2. BatchTypeOK /\ RowsInv /\ [AllNext]_allVars => RowsInv'
  BY RowsInvStep
<1> QED  BY <1>1, <1>2, RowsInvInit, BatchTypeCorrect, PTL DEF AllSpec
-----------------------------------------------------------------------------
(* How calls move on. *)

\* A request wins only in a step that found no row of its key; what it was told
\* stays, and it does not lose what it won unless the process dies.
LEMMA PhaseStep ==
  ASSUME TypeOK, [Next]_vars, NEW r \in Requests
  PROVE  /\ phase[r] = "accepted" => phase'[r] = "accepted"
         /\ phase[r] # "sent" => phase'[r] # "sent"
         /\ phase'[r] \in Won => \/ phase[r] \in Won
                                 \/ phase[r] = "put" /\ table[KeyOf[r]] = NoEvent
         /\ phase[r] \in Won /\ crashes' = crashes => phase'[r] \in Won
<1> USE DEF TypeOK, Phases, Won, Lost, Ended
<1> USE DEF handlerVars, storeVars, countVars, flushVars, Goto
<1>1. ASSUME NEW s \in Requests, Handle(s)
      PROVE  /\ phase[r] = "accepted" => phase'[r] = "accepted"
             /\ phase[r] # "sent" => phase'[r] # "sent"
             /\ phase'[r] \in Won => \/ phase[r] \in Won
                                     \/ phase[r] = "put" /\ table[KeyOf[r]] = NoEvent
             /\ phase[r] \in Won => phase'[r] \in Won
  <2>1. CASE Reject(s)         BY <2>1 DEF Reject
  <2>2. CASE Receive(s)        BY <2>2 DEF Receive
  <2>3. CASE PutItem(s)        BY <2>3 DEF PutItem
  <2>4. CASE LoseAttempt(s)    BY <2>4 DEF LoseAttempt
  <2>5. CASE AddToCache(s)     BY <2>5 DEF AddToCache
  <2>6. CASE CountDuplicate(s) BY <2>6 DEF CountDuplicate
  <2>7. CASE CountRequest(s)   BY <2>7 DEF CountRequest
  <2>8. CASE Respond(s)        BY <2>8 DEF Respond
  <2> QED  BY <1>1, <2>1, <2>2, <2>3, <2>4, <2>5, <2>6, <2>7, <2>8 DEF Handle
<1>2. ASSUME NEW s \in Requests, ApplyAdrift(s) PROVE phase' = phase
  BY <1>2 DEF ApplyAdrift
<1>3. CASE Flusher
  <2>1. phase' = phase
    BY <1>3 DEF Flusher, SwapTotal, SwapDups, UpdateItem, UpdateUnacknowledged, UpdateFailed,
                RestoreTotal, RestoreDups
  <2> QED  BY <2>1
<1>4. CASE Crash
  <2>1. /\ phase' = [s \in Requests |-> IF s \in InFlight THEN "reset" ELSE phase[s]]
        /\ crashes' # crashes
    BY <1>4 DEF Crash
  <2>2. r \in InFlight => phase[r] # "accepted"  BY DEF InFlight
  <2> QED  BY <2>1, <2>2
<1>5. CASE UNCHANGED vars
  BY <1>5 DEF vars
<1> QED  BY <1>1, <1>2, <1>3, <1>4, <1>5 DEF Next, Handler

\* A handler of a batch begins with all its keys to read, forgets none that has a
\* row, and never classifies twice.
LEMMA BatchProgress ==
  ASSUME BatchTypeOK, NEW b \in Batches, BatchHandle(b)
  PROVE  /\ batch[b].pc \notin BatchEnded /\ batch'[b].pc # "sent"
         /\ batch[b].pc = "sent" => batch'[b].unread = KeysIn(b)
         /\ batch[b].pc # "sent" /\ ~throttled' =>
              \A k \in batch[b].unread \cup batch[b].existing :
                table[k] # NoEvent => k \in batch'[b].unread \cup batch'[b].existing
         /\ batch[b].pc \in Classified =>
              /\ batch'[b].existing = batch[b].existing
              /\ batch'[b].pc \in Classified \cup {"failed"}
<1> DEFINE B == batch[b]
<1>1. DOMAIN batch = Batches  BY DEF BatchTypeOK
<1>2. B = [pc |-> B.pc, unread |-> B.unread, existing |-> B.existing,
           unwritten |-> B.unwritten, pending |-> B.pending]
  BY DEF BatchTypeOK, BatchState
<1> USE <1>1, <1>2 DEF Classified, BatchEnded
<1>3. CASE BatchReceive(b)
  <2>1. B.pc = "sent" /\ batch'[b].unread = KeysIn(b)  BY <1>3 DEF BatchReceive
  <2>2. batch'[b].pc # "sent"
    <3> DEFINE bad == \E i \in Positions(b) : Items[b][i] \in Malformed
               p == IF bad THEN "rejected" ELSE IF Items[b] = << >> THEN "answered" ELSE "read"
    <3>1. p # "sent"
      <4> HIDE DEF bad
      <4> QED  OBVIOUS
    <3>2. batch' = [batch EXCEPT ![b].pc = p, ![b].unread = KeysIn(b)]
      BY <1>3 DEF BatchReceive
    <3> HIDE DEF p
    <3>3. batch'[b].pc = p  BY <3>2
    <3> QED  BY <3>1, <3>3
  <2> QED  BY <2>1, <2>2
<1>4. CASE BatchRead(b)
  <2>1. B.pc = "read" /\ batch'[b].pc = "read"  BY <1>4 DEF BatchRead
  <2>2. PICK k \in B.unread :
          \/ /\ batch' = [batch EXCEPT ![b].unread = @ \ {k},
                 ![b].existing = IF table[k] # NoEvent THEN @ \cup {k} ELSE @]
             /\ UNCHANGED throttled
          \/ /\ Throttled /\ throttled' = TRUE
             /\ batch' = [batch EXCEPT ![b].unread = @ \ {k}]
    BY <1>4 DEF BatchRead
  <2>3. ASSUME ~throttled', NEW l \in B.unread \cup B.existing, table[l] # NoEvent
        PROVE  l \in batch'[b].unread \cup batch'[b].existing
    <3>1. batch' = [batch EXCEPT ![b].unread = @ \ {k},
                 ![b].existing = IF table[k] # NoEvent THEN @ \cup {k} ELSE @]
      BY <2>2, <2>3
    <3>2. CASE table[k] # NoEvent
      <4>1. batch'[b].unread = B.unread \ {k} /\ batch'[b].existing = B.existing \cup {k}
        BY <3>1, <3>2
      <4> QED  BY <2>3, <4>1
    <3>3. CASE table[k] = NoEvent
      <4>1. batch'[b].unread = B.unread \ {k} /\ batch'[b].existing = B.existing
        BY <3>1, <3>3
      <4> QED  BY <2>3, <3>3, <4>1
    <3> QED  BY <3>2, <3>3
  <2> QED  BY <2>1, <2>3
<1>5. CASE Classify(b)
  <2>1. B.pc = "read" /\ batch'[b].pc = "write" /\ batch'[b].unread = B.unread
        /\ batch'[b].existing = B.existing
    BY <1>5 DEF Classify
  <2> QED  BY <2>1
<1>6. ASSUME BatchWriteItem(b) \/ BatchPut(b) \/ BatchWritten(b) \/ BatchWriteLost(b)
             \/ BatchReadLost(b)
      PROVE  /\ B.pc \in {"read", "write", "writing"}
             /\ batch'[b].pc \in {"write", "writing", "failed"}
             /\ batch'[b].unread = B.unread /\ batch'[b].existing = B.existing
  <2>1. CASE BatchWriteItem(b)  BY <2>1 DEF BatchWriteItem
  <2>2. CASE BatchPut(b)        BY <2>2 DEF BatchPut
  <2>3. CASE BatchWritten(b)    BY <2>3 DEF BatchWritten
  <2>4. CASE BatchWriteLost(b)  BY <2>4 DEF BatchWriteLost
  <2>5. CASE BatchReadLost(b)   BY <2>5 DEF BatchReadLost
  <2> QED  BY <1>6, <2>1, <2>2, <2>3, <2>4, <2>5
<1>7. ASSUME BatchCountTotal(b) \/ BatchCountDups(b) \/ BatchRespond(b)
      PROVE  /\ B.pc \in {"write", "countDup", "reply"}
             /\ batch'[b].pc \in {"countDup", "reply", "answered"}
             /\ batch'[b].unread = B.unread /\ batch'[b].existing = B.existing
  BY <1>7 DEF BatchCountTotal, BatchCountDups, BatchRespond
<1> QED  BY <1>3, <1>4, <1>5, <1>6, <1>7 DEF BatchHandle

\* The same for any call, in any step of the gate.
LEMMA CallStep ==
  ASSUME BatchTypeOK, [AllNext]_allVars
  PROVE  /\ \A r \in Requests :
              /\ phase[r] = "accepted" => phase'[r] = "accepted"
              /\ phase[r] # "sent" => phase'[r] # "sent"
              /\ phase'[r] \in Won => \/ phase[r] \in Won
                                      \/ phase[r] = "put" /\ table[KeyOf[r]] = NoEvent
              /\ phase[r] \in Won /\ crashes' = crashes => phase'[r] \in Won
         /\ \A b \in Batches :
              /\ batch[b].pc \in BatchEnded => batch'[b] = batch[b]
              /\ batch[b].pc # "sent" => batch'[b].pc # "sent"
              /\ batch[b].pc = "sent" /\ batch'[b].pc # "sent" => batch'[b].unread = KeysIn(b)
              /\ batch[b].pc # "sent" /\ ~throttled' =>
                   \A k \in batch[b].unread \cup batch[b].existing :
                     table[k] # NoEvent => k \in batch'[b].unread \cup batch'[b].existing
              /\ batch[b].pc \in Classified =>
                   /\ batch'[b].existing = batch[b].existing
                   /\ batch'[b].pc \in Classified \cup {"failed"} \/ crashes' # crashes
         /\ UNCHANGED throttled \/ throttled' = TRUE
<1> DEFINE RequestMove == \A r \in Requests :
             /\ phase[r] = "accepted" => phase'[r] = "accepted"
             /\ phase[r] # "sent" => phase'[r] # "sent"
             /\ phase'[r] \in Won => \/ phase[r] \in Won
                                     \/ phase[r] = "put" /\ table[KeyOf[r]] = NoEvent
             /\ phase[r] \in Won /\ crashes' = crashes => phase'[r] \in Won
           BatchMoved(b) ==
             /\ batch[b].pc \in BatchEnded => batch'[b] = batch[b]
             /\ batch[b].pc # "sent" => batch'[b].pc # "sent"
             /\ batch[b].pc = "sent" /\ batch'[b].pc # "sent" => batch'[b].unread = KeysIn(b)
             /\ batch[b].pc # "sent" /\ ~throttled' =>
                  \A k \in batch[b].unread \cup batch[b].existing :
                    table[k] # NoEvent => k \in batch'[b].unread \cup batch'[b].existing
             /\ batch[b].pc \in Classified =>
                  /\ batch'[b].existing = batch[b].existing
                  /\ batch'[b].pc \in Classified \cup {"failed"} \/ crashes' # crashes
<1>0. TypeOK  BY DEF BatchTypeOK
<1>1. phase' = phase => RequestMove  OBVIOUS
<1>2. \A b \in Batches : batch'[b] = batch[b] => BatchMoved(b)  OBVIOUS
<1>3. CASE [Next]_vars /\ UNCHANGED batchVars
  <2>1. RequestMove  BY <1>0, <1>3, PhaseStep
  <2>2. UNCHANGED <<batch, throttled>>  BY <1>3 DEF batchVars
  <2> HIDE DEF RequestMove, BatchMoved
  <2>3. \A b \in Batches : BatchMoved(b)  BY <1>2, <2>2
  <2> QED  BY <2>1, <2>2, <2>3 DEF RequestMove, BatchMoved
<1>4. ASSUME NEW b \in Batches, BatchHandle(b)
      PROVE  /\ RequestMove /\ \A c \in Batches : BatchMoved(c)
             /\ UNCHANGED throttled \/ throttled' = TRUE
  <2>1. \A c \in Batches \ {b} : batch'[c] = batch[c]  BY <1>4, BatchMove
  <2>2. phase' = phase  BY <1>4, BatchMove DEF handlerVars
  <2>3. BatchMoved(b)  BY <1>4, BatchProgress
  <2>4. UNCHANGED throttled \/ throttled' = TRUE  BY <1>4, BatchEffects
  <2> HIDE DEF RequestMove, BatchMoved
  <2> QED  BY <1>1, <1>2, <2>1, <2>2, <2>3, <2>4
<1>5. ASSUME NEW e \in written, PutWritten(e)
      PROVE  RequestMove /\ (\A c \in Batches : BatchMoved(c)) /\ UNCHANGED throttled
  <2>1. UNCHANGED <<phase, batch, throttled>>  BY <1>5, PutFacts DEF handlerVars
  <2> HIDE DEF RequestMove, BatchMoved
  <2> QED  BY <1>1, <1>2, <2>1
<1>6. CASE CrashAll
  <2>1. Crash /\ throttled' = throttled /\ crashes' = crashes + 1  BY <1>6, CrashFacts
  <2>2. RequestMove  BY <1>0, <2>1, PhaseStep DEF Next
  <2>3. crashes' # crashes  BY <1>0, <2>1 DEF TypeOK
  <2>4. ASSUME NEW b \in Batches PROVE BatchMoved(b)
    <3>1. CASE batch'[b] = batch[b]  BY <1>2, <3>1
    <3>2. CASE batch'[b] = [batch[b] EXCEPT !.pc = "reset", !.pending = {}]
               /\ batch[b].pc \notin BatchEnded \cup {"sent"}
      <4>1. /\ batch'[b].pc = "reset" /\ batch'[b].existing = batch[b].existing
            /\ batch'[b].unread = batch[b].unread
        BY <3>2 DEF BatchTypeOK, BatchState
      <4> QED  BY <2>3, <3>2, <4>1 DEF BatchEnded
    <3> QED  BY <1>6, <3>1, <3>2, CrashFacts
  <2> HIDE DEF RequestMove, BatchMoved
  <2> QED  BY <2>1, <2>2, <2>4 DEF RequestMove, BatchMoved
<1> HIDE DEF RequestMove, BatchMoved
<1>7. /\ RequestMove /\ \A c \in Batches : BatchMoved(c)
      /\ UNCHANGED throttled \/ throttled' = TRUE
  <2>1. CASE [Next]_vars /\ UNCHANGED batchVars
    BY <1>3, <2>1 DEF RequestMove, BatchMoved
  <2>2. CASE CrashAll
    BY <1>6, <2>2 DEF RequestMove, BatchMoved
  <2> QED  BY <1>4, <1>5, <2>1, <2>2, StepCases
<1> QED  BY <1>7 DEF RequestMove, BatchMoved
-----------------------------------------------------------------------------
(* Calls that do not overlap. *)

\* What a call was answered stays, and with it what it accepted.
LEMMA AnsweredStays ==
  ASSUME BatchTypeOK, [AllNext]_allVars, NEW y \in Answered
  PROVE  y \in Answered' /\ AcceptedBy(y)' = AcceptedBy(y)
<1>1. CASE y \in Batches
  <2>1. batch[y].pc = "answered"  BY <1>1, BatchAssumption DEF Answered
  <2>2. batch'[y] = batch[y]  BY <1>1, <2>1, CallStep DEF BatchEnded
  <2>3. Fresh(y)' = Fresh(y)  BY <2>2 DEF Fresh
  <2> QED  BY <1>1, <2>1, <2>2, <2>3 DEF Answered, AcceptedBy, BatchAccepted
<1>2. CASE y \notin Batches
  <2>1. y \in Requests /\ phase[y] = "accepted"  BY <1>2 DEF Answered
  <2>2. phase'[y] = "accepted"  BY <2>1, CallStep
  <2> QED  BY <1>2, <2>1, <2>2 DEF Answered, AcceptedBy
<1> QED  BY <1>1, <1>2

\* A call barred from a key with a row stays barred, and a call that has only just
\* arrived is barred from every key with a row.
LEMMA BarredStep ==
  ASSUME BatchTypeOK, [AllNext]_allVars, ~throttled',
         NEW x \in Requests \cup Batches, NEW k \in Keys, table[k] # NoEvent,
         \/ Barred(x, k)
         \/ x \in Requests /\ phase[x] = "sent"
         \/ x \in Batches /\ batch[x].pc = "sent"
  PROVE  Barred(x, k)'
<1>1. CASE x \in Requests
  <2>1. x \notin Batches  BY <1>1, BatchAssumption
  <2>2. phase'[x] \in Won => \/ phase[x] \in Won
                             \/ phase[x] = "put" /\ table[KeyOf[x]] = NoEvent
    BY <1>1, CallStep
  <2>3. phase[x] = "sent" => phase[x] \notin Won  BY DEF Won
  <2> QED  BY <1>1, <2>1, <2>2, <2>3 DEF Barred
<1>2. CASE x \in Batches
  <2>1. x \notin Requests  BY <1>2, BatchAssumption
  <2>2. SUFFICES ASSUME batch'[x].pc # "sent", k \in KeysIn(x)
                 PROVE  k \in batch'[x].unread \cup batch'[x].existing
    BY <2>1 DEF Barred
  <2>3. CASE batch[x].pc = "sent"
    <3>1. batch'[x].unread = KeysIn(x)  BY <1>2, <2>2, <2>3, CallStep
    <3> QED  BY <2>2, <3>1
  <2>4. CASE batch[x].pc # "sent"
    <3>1. k \in batch[x].unread \cup batch[x].existing  BY <1>2, <2>1, <2>2, <2>4 DEF Barred
    <3> QED  BY <1>2, <2>4, <3>1, CallStep
  <2> QED  BY <2>3, <2>4
<1> QED  BY <1>1, <1>2

LEMMA HistoryStep ==
  ASSUME BatchTypeOK, RowsInv, HistoryInv, [AllNext]_allVars
  PROVE  HistoryInv'
<1> SUFFICES ASSUME NEW x \in Requests \cup Batches, NEW y \in earlier'[x]
             PROVE  /\ y \in Answered'
                    /\ ~throttled' => \A k \in AcceptedBy(y)' : Barred(x, k)'
  BY DEF HistoryInv
<1>1. \/ y \in earlier[x]
      \/ /\ y \in Answered
         /\ \/ x \in Requests /\ phase[x] = "sent"
            \/ x \in Batches /\ batch[x].pc = "sent"
  <2>1. CASE UNCHANGED allVars  BY <2>1 DEF allVars
  <2>2. CASE Remember  BY <2>2 DEF Remember
  <2> QED  BY <2>1, <2>2 DEF AllNext
<1>2. y \in Answered  BY <1>1 DEF HistoryInv
<1>3. y \in Answered' /\ AcceptedBy(y)' = AcceptedBy(y)  BY <1>2, AnsweredStays
<1>4. ASSUME ~throttled', NEW k \in AcceptedBy(y) PROVE Barred(x, k)'
  <2>1. ~throttled  BY <1>4, CallStep
  <2>2. y \in Requests \cup Batches  BY <1>2 DEF Answered
  <2>3. k \in Keys /\ table[k] # NoEvent  BY <1>4, <2>1, <2>2, AcceptedRow
  <2>4. \/ Barred(x, k)
        \/ x \in Requests /\ phase[x] = "sent"
        \/ x \in Batches /\ batch[x].pc = "sent"
    BY <1>1, <1>4, <2>1 DEF HistoryInv
  <2> QED  BY <1>4, <2>3, <2>4, BarredStep
<1> QED  BY <1>3, <1>4

\* A key is accepted twice only by calls that were under way together
\* (main.go:243-250): a call that arrives at either endpoint after another was
\* answered accepts none of its keys, unless DynamoDB left work unprocessed.
THEOREM OverlapIsTheOnlyRace == AllSpec => []OnlyOverlapsRace
<1>1. AllInit => HistoryInv
  BY DEF AllInit, HistoryInv
<1>2. ASSUME BatchTypeOK, RowsInv, HistoryInv PROVE OnlyOverlapsRace
  <2> SUFFICES ASSUME ~throttled, NEW x \in Requests \cup Batches, NEW y \in earlier[x],
                      NEW k \in AcceptedBy(x), k \in AcceptedBy(y)
               PROVE  FALSE
    BY DEF OnlyOverlapsRace
  <2>1. Barred(x, k)  BY <1>2 DEF HistoryInv
  <2>2. CASE x \in Batches
    <3>1. batch[x].pc = "answered" /\ k \in {KeyAt(x, i) : i \in Fresh(x)}
      BY <2>2 DEF AcceptedBy, BatchAccepted
    <3>2. PICK i \in Fresh(x) : k = KeyAt(x, i)  BY <3>1
    <3>3. k \in KeysIn(x) /\ k \notin batch[x].existing  BY <2>2, <3>2, ItemFacts DEF Fresh
    <3>4. batch[x].unread = {}  BY <1>2, <2>2, <3>1 DEF RowsInv, BatchShape, Classified
    <3> QED  BY <2>1, <2>2, <3>1, <3>3, <3>4 DEF Barred
  <2>3. CASE x \notin Batches
    <3>1. x \in Requests /\ phase[x] = "accepted" /\ KeyOf[x] = k
      BY <2>3 DEF AcceptedBy
    <3> QED  BY <2>1, <3>1 DEF Barred, Won
  <2> QED  BY <2>2, <2>3
<1>3. BatchTypeOK /\ RowsInv /\ [AllNext]_allVars => RowsInv'
  BY RowsInvStep
<1>4. BatchTypeOK /\ RowsInv /\ HistoryInv /\ [AllNext]_allVars => HistoryInv'
  BY HistoryStep
<1> QED  BY <1>1, <1>2, <1>3, <1>4, RowsInvInit, BatchTypeCorrect, PTL DEF AllSpec
-----------------------------------------------------------------------------
(* What a batch replaces. *)

\* The chunk that was under way when a batch failed or died is new to it.
LEMMA ChunkIsNew ==
  ASSUME BatchTypeOK, RowsInv, NEW b \in Batches, batch[b].pc = "writing",
         batch'[b].pc \in {"failed", "reset"},
         batch'[b].unread = batch[b].unread, batch'[b].existing = batch[b].existing,
         NEW e \in ChunkEvents(b)
  PROVE  /\ batch'[b].pc \in {"failed", "reset"} /\ batch'[b].unread = {}
         /\ \E i \in Fresh(b)' : Items[b][i] = e
<1>1. batch[b].unread = {} /\ batch[b].unwritten \subseteq Fresh(b)
  BY DEF RowsInv, BatchShape, Classified
<1>2. PICK i \in Chunk(b) : e = Items[b][i]  BY DEF ChunkEvents
<1>3. i \in Fresh(b)  BY <1>1, <1>2, ItemFacts
<1>4. Fresh(b)' = Fresh(b)  BY DEF Fresh
<1> QED  BY <1>1, <1>2, <1>3, <1>4

LEMMA LatePutsStep ==
  ASSUME BatchTypeOK, RowsInv, LatePuts, [AllNext]_allVars
  PROVE  LatePuts'
<1> DEFINE Sender(e, b) == /\ batch[b].pc \in {"failed", "reset"} /\ batch[b].unread = {}
                           /\ \E i \in Fresh(b) : Items[b][i] = e
<1>1. ASSUME NEW e \in written PROVE \E b \in Batches : Sender(e, b)'
  <2>1. PICK b \in Batches : Sender(e, b)  BY <1>1 DEF LatePuts
  <2>2. batch'[b] = batch[b]  BY <2>1, CallStep DEF BatchEnded
  <2>3. Fresh(b)' = Fresh(b)  BY <2>2 DEF Fresh
  <2> QED  BY <2>1, <2>2, <2>3
<1>2. SUFFICES ASSUME NEW e \in written' \ written PROVE \E b \in Batches : Sender(e, b)'
  BY <1>1 DEF LatePuts
<1> HIDE DEF Sender
<1>3. DOMAIN batch = Batches /\ \A b \in Batches : batch[b] \in BatchState(b)
  BY DEF BatchTypeOK
<1>4. CASE [Next]_vars /\ UNCHANGED batchVars  BY <1>2, <1>4 DEF batchVars
<1>5. ASSUME NEW b \in Batches, BatchHandle(b) PROVE \E c \in Batches : Sender(e, c)'
  <2>1. BatchWriteLost(b) /\ e \in ChunkEvents(b)  BY <1>2, <1>5, BatchEffects
  <2>2. /\ batch[b].pc = "writing" /\ batch'[b].pc = "failed"
        /\ batch'[b].unread = batch[b].unread /\ batch'[b].existing = batch[b].existing
    BY <1>3, <2>1 DEF BatchWriteLost, BatchState
  <2>3. Sender(e, b)'  BY <2>1, <2>2, ChunkIsNew DEF Sender
  <2> QED  BY <2>3
<1>6. ASSUME NEW f \in written, PutWritten(f) PROVE FALSE
  BY <1>2, <1>6, PutFacts
<1>7. CASE CrashAll
  <2>1. written' = written \cup UNION {ChunkEvents(b) : b \in {c \in Batches : batch[c].pc = "writing"}}
    BY <1>7 DEF CrashAll
  <2>2. PICK b \in {c \in Batches : batch[c].pc = "writing"} : e \in ChunkEvents(b)
    BY <1>2, <2>1
  <2>3. batch'[b] = [batch[b] EXCEPT !.pc = "reset", !.pending = {}]
    BY <1>7, <2>2, CrashFacts DEF BatchEnded
  <2>4. /\ batch'[b].pc = "reset" /\ batch'[b].unread = batch[b].unread
        /\ batch'[b].existing = batch[b].existing
    BY <1>3, <2>2, <2>3 DEF BatchState
  <2>5. Sender(e, b)'  BY <2>2, <2>4, ChunkIsNew DEF Sender
  <2> QED  BY <2>2, <2>5
<1> QED  BY <1>4, <1>5, <1>6, <1>7, StepCases

\* An event that is new to a batch that has read its keys carries none that a call
\* answered before the batch arrived had accepted.
LEMMA NewIsNotAccepted ==
  ASSUME BatchTypeOK, HistoryInv, ~throttled, NEW b \in Batches, batch[b].pc # "sent",
         batch[b].unread = {}, NEW i \in Fresh(b), NEW y \in earlier[b]
  PROVE  KeyAt(b, i) \notin AcceptedBy(y)
<1>1. KeyAt(b, i) \in KeysIn(b) /\ KeyAt(b, i) \notin batch[b].existing
  BY ItemFacts DEF Fresh
<1>2. \A k \in AcceptedBy(y) : Barred(b, k)  BY DEF HistoryInv
<1> QED  BY <1>1, <1>2 DEF Barred

LEMMA ReplacedOnlyByOverlap ==
  ASSUME BatchTypeOK, RowsInv, HistoryInv, LatePuts, [AllNext]_allVars, ~throttled,
         NEW k \in Keys, table[k] # NoEvent, table'[k] # table[k]
  PROVE  \E b \in Batches : /\ \E i \in Positions(b) : Items[b][i] = table'[k]
                            /\ \A y \in earlier[b] : k \notin AcceptedBy(y)
<1>1. TypeOK /\ table \in [Keys -> Events \cup {NoEvent}]  BY DEF BatchTypeOK, TypeOK
<1>2. CASE [Next]_vars /\ UNCHANGED batchVars  BY <1>1, <1>2, RowsStep
<1>3. ASSUME NEW b \in Batches, BatchHandle(b)
      PROVE  /\ \E i \in Positions(b) : Items[b][i] = table'[k]
             /\ \A y \in earlier[b] : k \notin AcceptedBy(y)
  <2>1. /\ batch[b].pc = "writing"
        /\ \E i \in Chunk(b) \cup batch[b].pending :
             table' = [table EXCEPT ![KeyAt(b, i)] = Items[b][i]]
    BY <1>3, BatchEffects
  <2>2. PICK i \in Chunk(b) \cup batch[b].pending :
             table' = [table EXCEPT ![KeyAt(b, i)] = Items[b][i]]
    BY <2>1
  <2>3. /\ batch[b].unread = {} /\ batch[b].unwritten \subseteq Fresh(b)
        /\ batch[b].pending \subseteq batch[b].unwritten
    BY <2>1 DEF RowsInv, BatchShape, Classified
  <2>4. i \in Fresh(b) /\ i \in Positions(b)  BY <2>2, <2>3, ItemFacts
  <2>5. k = KeyAt(b, i) /\ table'[k] = Items[b][i]  BY <1>1, <2>2
  <2> QED  BY <2>1, <2>3, <2>4, <2>5, NewIsNotAccepted
<1>4. ASSUME NEW e \in written, PutWritten(e)
      PROVE  \E b \in Batches : /\ \E i \in Positions(b) : Items[b][i] = table'[k]
                                /\ \A y \in earlier[b] : k \notin AcceptedBy(y)
  <2>1. k = KeyOf[e] /\ table'[k] = e  BY <1>1, <1>4, PutFacts
  <2>2. PICK b \in Batches : /\ batch[b].pc \in {"failed", "reset"} /\ batch[b].unread = {}
                             /\ \E i \in Fresh(b) : Items[b][i] = e
    BY DEF LatePuts
  <2>3. PICK i \in Fresh(b) : Items[b][i] = e  BY <2>2
  <2>4. i \in Positions(b) /\ KeyAt(b, i) = k  BY <2>1, <2>3, ItemFacts
  <2> QED  BY <2>1, <2>2, <2>3, <2>4, NewIsNotAccepted
<1>5. CASE CrashAll  BY <1>5, CrashFacts
<1> QED  BY <1>2, <1>3, <1>4, <1>5, StepCases

\* The puts of a batch, which carry no condition (main.go:238-241), replace a row
\* only while the batch overlaps the call that accepted its key: what was accepted
\* before the batch arrived keeps its row, from the puts of a batch that fails or
\* dies and from those DynamoDB applies afterwards too.
THEOREM ReplacedByOverlap == AllSpec => OnlyOverlapsReplace
<1> DEFINE Kept == ~throttled => \A k \in Keys : table[k] # NoEvent /\ table'[k] # table[k] =>
                     \E b \in Batches : /\ \E i \in Positions(b) : Items[b][i] = table'[k]
                                        /\ \A y \in earlier[b] : k \notin AcceptedBy(y)
<1>1. AllInit => HistoryInv /\ LatePuts
  BY DEF AllInit, BatchInit, HistoryInv, LatePuts
<1>2. BatchTypeOK /\ RowsInv /\ HistoryInv /\ LatePuts /\ [AllNext]_allVars => [Kept]_allVars
  BY ReplacedOnlyByOverlap
<1>3. BatchTypeOK /\ RowsInv /\ HistoryInv /\ LatePuts /\ [AllNext]_allVars
        => RowsInv' /\ HistoryInv' /\ LatePuts'
  BY RowsInvStep, HistoryStep, LatePutsStep
<1> QED  BY <1>1, <1>2, <1>3, RowsInvInit, BatchTypeCorrect, PTL DEF AllSpec, OnlyOverlapsReplace
-----------------------------------------------------------------------------
(* No key is refused to everyone. *)

\* While no request is lost, rows of /accept come from winners only.
LEMMA UndisturbedStep ==
  ASSUME TypeOK, [Next]_vars, Undisturbed'
  PROVE  /\ Undisturbed /\ crashes' = crashes
         /\ adrift = {} =>
              /\ adrift' = {}
              /\ \A k \in Keys : table[k] = NoEvent /\ table'[k] # NoEvent =>
                   \E r \in Requests : KeyOf[r] = k /\ phase'[r] \in Won
<1> USE GateAssumption DEF TypeOK, Undisturbed, Won
<1> USE DEF handlerVars, storeVars, countVars, flushVars, Goto
<1> DEFINE Goal == /\ \A r \in Requests : tries[r] = 0
                   /\ crashes' = crashes
                   /\ adrift = {} =>
                        /\ adrift' = {}
                        /\ \A k \in Keys : table[k] = NoEvent /\ table'[k] # NoEvent =>
                             \E r \in Requests : KeyOf[r] = k /\ phase'[r] \in Won
<1>1. ASSUME NEW r \in Requests, Handle(r) PROVE Goal
  <2>1. CASE Reject(r)         BY <2>1 DEF Reject
  <2>2. CASE Receive(r)        BY <2>2 DEF Receive
  <2>3. CASE PutItem(r)
    <3>1. UNCHANGED <<tries, adrift, crashes>>  BY <2>3 DEF PutItem
    <3>2. ASSUME NEW k \in Keys, table[k] = NoEvent, table'[k] # NoEvent
          PROVE  KeyOf[r] = k /\ phase'[r] \in Won
      BY <2>3, <3>2 DEF PutItem
    <3> QED  BY <3>1, <3>2
  <2>4. CASE LoseAttempt(r)
    <3>1. tries'[r] = tries[r] + 1 /\ tries'[r] = 0
      BY <2>4 DEF LoseAttempt
    <3> QED  BY <3>1
  <2>5. CASE AddToCache(r)     BY <2>5 DEF AddToCache
  <2>6. CASE CountDuplicate(r) BY <2>6 DEF CountDuplicate
  <2>7. CASE CountRequest(r)   BY <2>7 DEF CountRequest
  <2>8. CASE Respond(r)        BY <2>8 DEF Respond
  <2> QED  BY <1>1, <2>1, <2>2, <2>3, <2>4, <2>5, <2>6, <2>7, <2>8 DEF Handle
<1>2. ASSUME NEW r \in Requests, ApplyAdrift(r) PROVE Goal
  BY <1>2 DEF ApplyAdrift
<1>3. CASE Flusher
  <2>1. UNCHANGED <<phase, tries, adrift, table, crashes>>
    BY <1>3 DEF Flusher, SwapTotal, SwapDups, UpdateItem, UpdateUnacknowledged, UpdateFailed,
                RestoreTotal, RestoreDups
  <2> QED  BY <2>1
<1>4. CASE Crash
  <2>1. crashes' = crashes + 1 /\ crashes' = 0  BY <1>4 DEF Crash
  <2> QED  BY <2>1
<1>5. CASE UNCHANGED vars
  BY <1>5 DEF vars
<1>6. Goal  BY <1>1, <1>2, <1>3, <1>4, <1>5 DEF Next, Handler
<1>7. crashes' = 0  OBVIOUS
<1> QED  BY <1>6, <1>7

\* Calm ends for good, and a claimant keeps its claim while it lasts.
LEMMA CalmStep ==
  ASSUME BatchTypeOK, [AllNext]_allVars, Calm'
  PROVE  /\ Calm /\ ~CrashAll
         /\ \A x \in Requests \cup Batches, k \in Keys : Claimant(x, k) => Claimant(x, k)'
<1>0. TypeOK /\ throttled \in BOOLEAN  BY DEF BatchTypeOK
<1>1. crashes' = 0 /\ ~throttled' /\ \A b \in Batches : batch'[b].pc # "failed"
  BY DEF Calm, Undisturbed
<1>2. ~CrashAll
  <2>1. ~(crashes' = crashes + 1)  BY <1>0, <1>1 DEF TypeOK
  <2> QED  BY <2>1, CrashFacts
<1>3. Undisturbed /\ crashes' = crashes
  <2>1. CASE [Next]_vars  BY <1>0, <2>1, UndisturbedStep DEF Calm
  <2>2. CASE UNCHANGED <<handlerVars, crashes>>
    BY <2>2 DEF Calm, Undisturbed, handlerVars
  <2>3. ASSUME NEW b \in Batches, BatchHandle(b) PROVE UNCHANGED <<handlerVars, crashes>>
    BY <2>3, BatchMove
  <2>4. ASSUME NEW e \in written, PutWritten(e) PROVE UNCHANGED <<handlerVars, crashes>>
    BY <2>4, PutFacts
  <2> QED  BY <1>2, <2>1, <2>2, <2>3, <2>4, StepCases
<1>4. Calm
  <2>1. ~throttled  BY <1>1, CallStep
  <2>2. \A b \in Batches : batch[b].pc = "failed" => batch'[b] = batch[b]
    BY CallStep DEF BatchEnded
  <2> QED  BY <1>1, <1>3, <2>1, <2>2 DEF Calm
<1>5. ASSUME NEW x \in Requests \cup Batches, NEW k \in Keys, Claimant(x, k)
      PROVE  Claimant(x, k)'
  <2>1. CASE x \in Requests /\ KeyOf[x] = k /\ phase[x] \in Won
    <3>1. phase'[x] \in Won  BY <1>3, <2>1, CallStep
    <3> QED  BY <2>1, <3>1 DEF Claimant
  <2>2. CASE x \in Batches /\ batch[x].pc \in Classified /\ \E i \in Fresh(x) : KeyAt(x, i) = k
    <3>1. batch'[x].existing = batch[x].existing /\ batch'[x].pc \in Classified
      BY <1>1, <1>3, <2>2, CallStep
    <3>2. Fresh(x)' = Fresh(x)  BY <3>1 DEF Fresh
    <3> QED  BY <2>2, <3>1, <3>2 DEF Claimant
  <2> QED  BY <1>5, <2>1, <2>2 DEF Claimant
<1> QED  BY <1>2, <1>4, <1>5

LEMMA CalmInvStep ==
  ASSUME BatchTypeOK, RowsInv, CalmInv, [AllNext]_allVars
  PROVE  CalmInv'
<1> SUFFICES ASSUME Calm'
             PROVE  /\ adrift' = {} /\ written' = {}
                    /\ \A k \in Keys : table'[k] # NoEvent =>
                         \E x \in Requests \cup Batches : Claimant(x, k)'
  BY DEF CalmInv
<1>1. /\ Calm /\ ~CrashAll
      /\ \A x \in Requests \cup Batches, k \in Keys : Claimant(x, k) => Claimant(x, k)'
  BY CalmStep
<1>2. /\ adrift = {} /\ written = {}
      /\ \A k \in Keys : table[k] # NoEvent => \E x \in Requests \cup Batches : Claimant(x, k)
  BY <1>1 DEF CalmInv
<1>3. \A k \in Keys : table[k] # NoEvent => \E x \in Requests \cup Batches : Claimant(x, k)'
  BY <1>1, <1>2
<1>4. CASE [Next]_vars /\ UNCHANGED batchVars
  <2>1. written' = {}  BY <1>2, <1>4 DEF batchVars
  <2>2. /\ adrift' = {}
        /\ \A k \in Keys : table[k] = NoEvent /\ table'[k] # NoEvent =>
             \E r \in Requests : KeyOf[r] = k /\ phase'[r] \in Won
    BY <1>2, <1>4, UndisturbedStep DEF BatchTypeOK, Calm
  <2>3. \A k \in Keys : table[k] = NoEvent /\ table'[k] # NoEvent =>
             \E x \in Requests \cup Batches : Claimant(x, k)'
    BY <2>2 DEF Claimant
  <2> QED  BY <1>3, <2>1, <2>2, <2>3
<1>5. ASSUME NEW b \in Batches, BatchHandle(b)
      PROVE  /\ adrift' = {} /\ written' = {}
             /\ \A k \in Keys : table'[k] # NoEvent =>
                  \E x \in Requests \cup Batches : Claimant(x, k)'
  <2>1. adrift' = {}  BY <1>2, <1>5, BatchMove
  <2>2. written' = {}
    <3>1. batch'[b].pc # "failed"  BY DEF Calm
    <3> QED  BY <1>2, <1>5, <3>1, BatchEffects
  <2>3. ASSUME NEW k \in Keys, table'[k] # NoEvent, table[k] = NoEvent
        PROVE  Claimant(b, k)
    <3>1. table' # table  BY <2>3
    <3>2. PICK i \in Chunk(b) \cup batch[b].pending :
            batch[b].pc = "writing" /\ table' = [table EXCEPT ![KeyAt(b, i)] = Items[b][i]]
      BY <1>5, <3>1, BatchEffects
    <3>3. k = KeyAt(b, i)  BY <2>3, <3>2 DEF BatchTypeOK, TypeOK
    <3>4. i \in Fresh(b)
      BY <3>2, ItemFacts DEF RowsInv, BatchShape, Classified
    <3> QED  BY <3>2, <3>3, <3>4 DEF Claimant, Classified
  <2>4. \A k \in Keys : table'[k] # NoEvent /\ table[k] = NoEvent => Claimant(b, k)'
    BY <1>1, <2>3
  <2> QED  BY <1>3, <2>1, <2>2, <2>4
<1>6. ~(\E e \in written : PutWritten(e))  BY <1>2
<1> QED  BY <1>1, <1>4, <1>5, <1>6, StepCases

\* The first event of a batch that carries a key.
LEMMA FirstCarrier ==
  ASSUME NEW b \in Batches, NEW k \in KeysIn(b)
  PROVE  \E i \in Positions(b) : KeyAt(b, i) = k /\ \A j \in Positions(b) : j < i => KeyAt(b, j) # k
<1> DEFINE T == {i \in Positions(b) : KeyAt(b, i) = k}
<1>1. T # {}  BY DEF KeysIn
<1>2. T \subseteq Nat  BY ItemFacts
<1>3. \E i \in T : \A j \in T : ~(<<j, i>> \in OpToRel(<, Nat))
  <2> HIDE DEF T
  <2> QED  BY <1>1, <1>2, NatLessThanWellFounded, WFMin
<1>4. PICK i \in T : \A j \in T : ~(<<j, i>> \in OpToRel(<, Nat))  BY <1>3
<1>5. \A j \in T : ~(j < i)
  <2>1. \A j \in T : j < i => <<j, i>> \in OpToRel(<, Nat)
    BY <1>2 DEF OpToRel
  <2> QED  BY <1>4, <2>1
<1> QED  BY <1>4, <1>5

\* test_accept_batch_race_window_is_real, for every mix of calls of the two endpoints:
\* without failures, throttling and crashes, once all calls have ended every key of an
\* answered call has been accepted by some call.
THEOREM SomeCallAccepts == AllSpec => []EveryKeyAccepted
<1>1. AllInit => CalmInv
  BY DEF AllInit, Init, BatchInit, CalmInv
<1>2. ASSUME BatchTypeOK, RowsInv, CalmInv PROVE EveryKeyAccepted
  <2> SUFFICES ASSUME Calm, \A r \in Requests : phase[r] \in Ended,
                      \A b \in Batches : batch[b].pc \in BatchEnded,
                      NEW x \in Requests \cup Batches, NEW k \in AnsweredFor(x)
               PROVE  \E y \in Requests \cup Batches : k \in AcceptedBy(y)
    BY DEF EveryKeyAccepted
  <2>1. ASSUME NEW l \in Keys, table[l] # NoEvent
        PROVE  \E y \in Requests \cup Batches : l \in AcceptedBy(y)
    <3>1. PICK y \in Requests \cup Batches : Claimant(y, l)  BY <1>2, <2>1 DEF CalmInv
    <3>2. CASE y \in Requests /\ KeyOf[y] = l /\ phase[y] \in Won
      <4>1. phase[y] = "accepted"  BY <3>2 DEF Won, Ended
      <4>2. y \notin Batches  BY <3>2, BatchAssumption
      <4> QED  BY <3>2, <4>1, <4>2 DEF AcceptedBy
    <3>3. CASE y \in Batches /\ batch[y].pc \in Classified /\ \E i \in Fresh(y) : KeyAt(y, i) = l
      <4>1. batch[y].pc = "answered"  BY <3>3 DEF Classified, BatchEnded
      <4> QED  BY <3>3, <4>1 DEF AcceptedBy, BatchAccepted
    <3> QED  BY <3>1, <3>2, <3>3 DEF Claimant
  <2>2. CASE x \in Batches
    <3>1. batch[x].pc = "answered" /\ k \in KeysIn(x)  BY <2>2 DEF AnsweredFor
    <3>2. CASE k \in batch[x].existing
      <4>1. k \in Keys /\ table[k] # NoEvent
        BY <1>2, <2>2, <3>1, <3>2, ItemFacts DEF RowsInv, BatchRows
      <4> QED  BY <2>1, <4>1
    <3>3. CASE k \notin batch[x].existing
      <4>1. PICK i \in Positions(x) :
              KeyAt(x, i) = k /\ \A j \in Positions(x) : j < i => KeyAt(x, j) # k
        BY <2>2, <3>1, FirstCarrier
      <4>2. i \in Fresh(x)  BY <3>3, <4>1 DEF Fresh
      <4> QED  BY <2>2, <3>1, <4>1, <4>2 DEF AcceptedBy, BatchAccepted
    <3> QED  BY <3>2, <3>3
  <2>3. CASE x \notin Batches
    <3>1. x \in Requests /\ phase[x] \in {"accepted", "duplicate"} /\ k = KeyOf[x]
      BY <2>3 DEF AnsweredFor
    <3>2. CASE phase[x] = "accepted"  BY <2>3, <3>1, <3>2 DEF AcceptedBy
    <3>3. CASE phase[x] = "duplicate"
      <4>1. k \in Keys /\ table[k] # NoEvent
        BY <1>2, <3>1, <3>3, GateAssumption DEF RowsInv, RequestRows, RefusedOnlyIfClaimed, Lost
      <4> QED  BY <2>1, <4>1
    <3> QED  BY <3>1, <3>2, <3>3
  <2> QED  BY <2>2, <2>3
<1>3. BatchTypeOK /\ RowsInv /\ [AllNext]_allVars => RowsInv'
  BY RowsInvStep
<1>4. BatchTypeOK /\ RowsInv /\ CalmInv /\ [AllNext]_allVars => CalmInv'
  BY CalmInvStep
<1> QED  BY <1>1, <1>2, <1>3, <1>4, RowsInvInit, BatchTypeCorrect, PTL DEF AllSpec
-----------------------------------------------------------------------------
(* The books. *)

SumTotal == stored.total + flush.total + total
SumDups  == stored.dups + flush.dups + dups

\* Counts move between the process, the flusher's hands and the metrics table, and
\* none is lost or doubled while every write is acknowledged.
LEMMA FlusherSums ==
  ASSUME TypeOK, FlushShape, Flusher
  PROVE  /\ FlushShape' /\ UNCHANGED <<phase, crashes>>
         /\ ackLosses' = 0 => ackLosses = 0 /\ SumTotal' = SumTotal /\ SumDups' = SumDups
<1>1. /\ total \in Nat /\ dups \in Nat /\ flush.total \in Nat /\ flush.dups \in Nat
      /\ stored.total \in Nat /\ stored.dups \in Nat /\ ackLosses \in Nat
      /\ flush \in [pc : {"idle", "swapDups", "update", "restoreTotal", "restoreDups"},
                    total : Nat, dups : Nat]
  BY GateAssumption DEF TypeOK, Counts
<1> USE <1>1 DEF FlushShape, SumTotal, SumDups, handlerVars, storeVars, countVars, flushVars
<1>2. CASE SwapTotal            BY <1>2 DEF SwapTotal
<1>3. CASE SwapDups             BY <1>3 DEF SwapDups
<1>4. CASE UpdateItem           BY <1>4 DEF UpdateItem, ADD, Idle
<1>5. CASE UpdateUnacknowledged BY <1>5 DEF UpdateUnacknowledged, ADD
<1>6. CASE UpdateFailed         BY <1>6 DEF UpdateFailed
<1>7. CASE RestoreTotal         BY <1>7 DEF RestoreTotal
<1>8. CASE RestoreDups          BY <1>8 DEF RestoreDups, Idle
<1> QED  BY <1>2, <1>3, <1>4, <1>5, <1>6, <1>7, <1>8 DEF Flusher

\* In a step of the gate the books grow by what enters the counted sets.
LEMMA GateSums ==
  ASSUME TypeOK, FlushShape, [Next]_vars
  PROVE  /\ FlushShape'
         /\ crashes' = 0 /\ ackLosses' = 0 =>
              /\ crashes = 0 /\ ackLosses = 0
              /\ SumTotal' - Cardinality(Counted') = SumTotal - Cardinality(Counted)
              /\ SumDups' - Cardinality(CountedDup') = SumDups - Cardinality(CountedDup)
<1> DEFINE C == Cardinality(Counted)
           D == Cardinality(CountedDup)
<1>1. /\ total \in Nat /\ dups \in Nat /\ flush.total \in Nat /\ flush.dups \in Nat
      /\ stored.total \in Nat /\ stored.dups \in Nat /\ C \in Nat /\ D \in Nat
      /\ crashes \in Nat
  BY CountedFinite, GateAssumption DEF TypeOK, Counts
<1>2. SumTotal \in Nat /\ SumDups \in Nat  BY <1>1 DEF SumTotal, SumDups
<1>3. UNCHANGED phase => C' = C /\ D' = D
  BY DEF Counted, CountedDup
<1>4. ASSUME UNCHANGED <<phase, countVars, flushVars, crashes>>
      PROVE  /\ FlushShape' /\ crashes = crashes' /\ ackLosses = ackLosses'
             /\ SumTotal' = SumTotal /\ SumDups' = SumDups /\ C' = C /\ D' = D
  BY <1>3, <1>4 DEF FlushShape, SumTotal, SumDups, countVars, flushVars
<1>5. ASSUME NEW r \in Requests, Handle(r)
      PROVE  /\ FlushShape' /\ crashes = crashes' /\ ackLosses = ackLosses'
             /\ SumTotal' - C' = SumTotal - C /\ SumDups' - D' = SumDups - D
  <2>1. \/ C' = C /\ total' = total
        \/ C' = C + 1 /\ total' = total + 1
    BY <1>5, HandlerCounts, CountedFinite, FS_AddElement
  <2>2. \/ D' = D /\ dups' = dups
        \/ D' = D + 1 /\ dups' = dups + 1
    BY <1>5, HandlerCounts, CountedFinite, FS_AddElement
  <2>3. UNCHANGED <<flush, stored, ackLosses, crashes>>
    BY <1>5, HandlerCounts
  <2> HIDE DEF C, D
  <2>4. FlushShape'  BY <2>3 DEF FlushShape
  <2>5. SumTotal' - C' = SumTotal - C
    <3>1. SumTotal' = stored.total + flush.total + total'  BY <2>3 DEF SumTotal
    <3>2. CASE C' = C /\ total' = total  BY <3>1, <3>2 DEF SumTotal
    <3>3. CASE C' = C + 1 /\ total' = total + 1  BY <1>1, <3>1, <3>3 DEF SumTotal
    <3> QED  BY <2>1, <3>2, <3>3
  <2>6. SumDups' - D' = SumDups - D
    <3>1. SumDups' = stored.dups + flush.dups + dups'  BY <2>3 DEF SumDups
    <3>2. CASE D' = D /\ dups' = dups  BY <3>1, <3>2 DEF SumDups
    <3>3. CASE D' = D + 1 /\ dups' = dups + 1  BY <1>1, <3>1, <3>3 DEF SumDups
    <3> QED  BY <2>2, <3>2, <3>3
  <2> QED  BY <2>3, <2>4, <2>5, <2>6
<1>6. ASSUME NEW r \in Requests, ApplyAdrift(r)
      PROVE  UNCHANGED <<phase, countVars, flushVars, crashes>>
  BY <1>6 DEF ApplyAdrift, handlerVars
<1>7. CASE UNCHANGED vars
  <2>1. UNCHANGED <<phase, countVars, flushVars, crashes>>  BY <1>7 DEF vars, handlerVars
  <2> QED  BY <1>4, <2>1
<1>8. CASE Flusher
  <2>1. C' = C /\ D' = D  BY <1>3, <1>8, FlusherSums
  <2> HIDE DEF C, D
  <2> QED  BY <1>8, <2>1, FlusherSums DEF C, D
<1>9. CASE Crash
  <2>1. crashes' = crashes + 1 /\ flush' = Idle  BY <1>9 DEF Crash
  <2>2. crashes' # 0  BY <1>1, <2>1
  <2>3. FlushShape'  BY <2>1 DEF FlushShape, Idle
  <2> QED  BY <2>2, <2>3
<1>10. CASE \E r \in Requests : Handle(r)
  <2>1. /\ FlushShape' /\ crashes = crashes' /\ ackLosses = ackLosses'
        /\ SumTotal' - C' = SumTotal - C /\ SumDups' - D' = SumDups - D
    BY <1>5, <1>10
  <2> QED  BY <2>1
<1>11. CASE \E r \in Requests : ApplyAdrift(r)
  <2>1. UNCHANGED <<phase, countVars, flushVars, crashes>>  BY <1>6, <1>11
  <2> QED  BY <1>4, <2>1
<1> QED  BY <1>7, <1>8, <1>9, <1>10, <1>11 DEF Next, Handler

\* All events of all batches that the handlers have counted, and those counted twice over.
ToldAll == UNION {{b} \X Told(b) : b \in Batches}
TdupAll == UNION {{b} \X ToldDup(b) : b \in Batches}

\* There are finitely many events in finitely many batches.
LEMMA PlacesFinite ==
  IsFiniteSet(UNION {{b} \X Positions(b) : b \in Batches})
<1> DEFINE F == {{b} \X Positions(b) : b \in Batches}
           f == [b \in Batches |-> {b} \X Positions(b)]
<1>1. \A T \in F : IsFiniteSet(T)
  <2> SUFFICES ASSUME NEW b \in Batches PROVE IsFiniteSet({b} \X Positions(b))
    OBVIOUS
  <2>1. Len(Items[b]) \in Nat /\ Positions(b) = 1 .. Len(Items[b])  BY ItemFacts
  <2>2. IsFiniteSet(Positions(b))  BY <2>1, FS_Interval
  <2>3. IsFiniteSet({b})  BY FS_Singleton
  <2> QED  BY <2>2, <2>3, FS_Product
<1>2. IsFiniteSet(F)
  <2>1. f \in Surjection(Batches, F)  BY DEF Surjection
  <2> QED  BY <2>1, BatchAssumption, FS_Surjection
<1> QED  BY <1>1, <1>2, FS_UNION

LEMMA ToldFinite ==
  /\ IsFiniteSet(ToldAll) /\ Cardinality(ToldAll) \in Nat
  /\ IsFiniteSet(TdupAll) /\ Cardinality(TdupAll) \in Nat
<1>1. /\ ToldAll \subseteq UNION {{b} \X Positions(b) : b \in Batches}
      /\ TdupAll \subseteq UNION {{b} \X Positions(b) : b \in Batches}
  BY DEF ToldAll, TdupAll, Told, ToldDup
<1> QED  BY <1>1, PlacesFinite, FS_Subset, FS_CardinalityType

\* The same after a step.
LEMMA ToldFiniteNext ==
  /\ IsFiniteSet(ToldAll') /\ Cardinality(ToldAll') \in Nat
  /\ IsFiniteSet(TdupAll') /\ Cardinality(TdupAll') \in Nat
<1>1. /\ ToldAll' \subseteq UNION {{b} \X Positions(b) : b \in Batches}
      /\ TdupAll' \subseteq UNION {{b} \X Positions(b) : b \in Batches}
  BY DEF ToldAll, TdupAll, Told, ToldDup
<1> QED  BY <1>1, PlacesFinite, FS_Subset, FS_CardinalityType

\* A handler of a batch adds Len to the total when all its events enter the counted
\* set, and the number of those that are not new to the duplicates.
LEMMA BatchCounts ==
  ASSUME BatchTypeOK, NEW b \in Batches, BatchHandle(b)
  PROVE  /\ \/ Told(b)' = Told(b) /\ total' = total
            \/ Told(b) = {} /\ Told(b)' = Positions(b) /\ total' = total + Len(Items[b])
         /\ \/ ToldDup(b)' = ToldDup(b) /\ dups' = dups
            \/ /\ ToldDup(b) = {} /\ ToldDup(b)' = Positions(b) \ Fresh(b)
               /\ dups' = dups + (Len(Items[b]) - Cardinality(Fresh(b)))
<1> DEFINE B == batch[b]
           told == {"countDup", "reply", "answered"}
           tdup == {"reply", "answered"}
<1>1. DOMAIN batch = Batches  BY DEF BatchTypeOK
<1>2. B = [pc |-> B.pc, unread |-> B.unread, existing |-> B.existing,
           unwritten |-> B.unwritten, pending |-> B.pending]
  BY DEF BatchTypeOK, BatchState
<1>3. batch'[b].existing = B.existing => Fresh(b)' = Fresh(b)
  BY DEF Fresh
<1> USE <1>1, <1>2
<1>4. ASSUME B.pc \notin told, batch'[b].pc \notin told, UNCHANGED <<total, dups>>
      PROVE  /\ Told(b)' = Told(b) /\ total' = total
             /\ ToldDup(b)' = ToldDup(b) /\ dups' = dups
  BY <1>4 DEF Told, ToldDup
<1>5. CASE BatchReceive(b)
  <2>1. B.pc = "sent" /\ UNCHANGED <<total, dups>>
    BY <1>5 DEF BatchReceive, vars, countVars
  <2>2. batch'[b].pc \in {"rejected", "read"} \/ (batch'[b].pc = "answered" /\ Items[b] = << >>)
    <3> DEFINE bad == \E i \in Positions(b) : Items[b][i] \in Malformed
               p == IF bad THEN "rejected" ELSE IF Items[b] = << >> THEN "answered" ELSE "read"
    <3>1. p \in {"rejected", "read"} \/ (p = "answered" /\ Items[b] = << >>)
      <4> HIDE DEF bad
      <4> QED  OBVIOUS
    <3>2. batch' = [batch EXCEPT ![b].pc = p, ![b].unread = KeysIn(b)]
      BY <1>5 DEF BatchReceive
    <3> HIDE DEF p
    <3>3. batch'[b].pc = p  BY <3>2
    <3> QED  BY <3>1, <3>3
  <2>3. CASE batch'[b].pc \in {"rejected", "read"}  BY <1>4, <2>1, <2>3
  <2>4. CASE batch'[b].pc = "answered" /\ Items[b] = << >>
    <3>1. Positions(b) = {}  BY <2>4 DEF Positions
    <3> QED  BY <2>1, <2>4, <3>1 DEF Told, ToldDup
  <2> QED  BY <2>2, <2>3, <2>4
<1>6. ASSUME BatchRead(b) \/ Classify(b) \/ BatchWriteItem(b) \/ BatchPut(b)
             \/ BatchWritten(b) \/ BatchWriteLost(b) \/ BatchReadLost(b)
      PROVE  B.pc \notin told /\ batch'[b].pc \notin told /\ UNCHANGED <<total, dups>>
  <2> USE DEF vars, countVars
  <2>1. CASE BatchRead(b)       BY <2>1 DEF BatchRead
  <2>2. CASE Classify(b)        BY <2>2 DEF Classify
  <2>3. CASE BatchWriteItem(b)  BY <2>3 DEF BatchWriteItem
  <2>4. CASE BatchPut(b)        BY <2>4 DEF BatchPut
  <2>5. CASE BatchWritten(b)    BY <2>5 DEF BatchWritten
  <2>6. CASE BatchWriteLost(b)  BY <2>6 DEF BatchWriteLost
  <2>7. CASE BatchReadLost(b)   BY <2>7 DEF BatchReadLost
  <2> QED  BY <1>6, <2>1, <2>2, <2>3, <2>4, <2>5, <2>6, <2>7
<1>7. CASE BatchCountTotal(b)
  <2>1. /\ B.pc = "write" /\ batch'[b].pc = "countDup" /\ total' = total + Len(Items[b])
        /\ dups' = dups
    BY <1>7 DEF BatchCountTotal
  <2> QED  BY <2>1 DEF Told, ToldDup
<1>8. CASE BatchCountDups(b)
  <2>1. /\ B.pc = "countDup" /\ batch'[b].pc = "reply" /\ batch'[b].existing = B.existing
        /\ total' = total /\ dups' = dups + (Len(Items[b]) - Cardinality(Fresh(b)))
    BY <1>8 DEF BatchCountDups
  <2> QED  BY <1>3, <2>1 DEF Told, ToldDup
<1>9. CASE BatchRespond(b)
  <2>1. /\ B.pc = "reply" /\ batch'[b].pc = "answered" /\ batch'[b].existing = B.existing
        /\ UNCHANGED <<total, dups>>
    BY <1>9 DEF BatchRespond, vars, countVars
  <2> QED  BY <1>3, <2>1 DEF Told, ToldDup
<1> QED  BY <1>4, <1>5, <1>6, <1>7, <1>8, <1>9 DEF BatchHandle

\* The books grow with the events a batch counts.
LEMMA BatchSums ==
  ASSUME BatchTypeOK, NEW b \in Batches, BatchHandle(b)
  PROVE  /\ total' - Cardinality(ToldAll') = total - Cardinality(ToldAll)
         /\ dups' - Cardinality(TdupAll') = dups - Cardinality(TdupAll)
<1> DEFINE n == Len(Items[b])
           f == Cardinality(Fresh(b))
<1>1. /\ n \in Nat /\ Positions(b) = 1 .. n /\ Fresh(b) \subseteq Positions(b)
      /\ total \in Nat /\ dups \in Nat
  BY ItemFacts DEF BatchTypeOK, TypeOK
<1>2. IsFiniteSet(Positions(b)) /\ Cardinality(Positions(b)) = n
  BY <1>1, FS_Interval
<1>3. /\ IsFiniteSet(Fresh(b)) /\ f \in Nat
      /\ IsFiniteSet(Positions(b) \ Fresh(b)) /\ Cardinality(Positions(b) \ Fresh(b)) = n - f
  <2>1. IsFiniteSet(Fresh(b)) /\ f \in Nat  BY <1>1, <1>2, FS_Subset, FS_CardinalityType
  <2>2. Positions(b) \cap Fresh(b) = Fresh(b)  BY <1>1
  <2>3. /\ IsFiniteSet(Positions(b) \ Fresh(b))
        /\ Cardinality(Positions(b) \ Fresh(b))
             = Cardinality(Positions(b)) - Cardinality(Positions(b) \cap Fresh(b))
    BY <1>2, FS_Difference
  <2> QED  BY <1>2, <2>1, <2>2, <2>3
<1>4. ASSUME NEW S, IsFiniteSet(S), NEW T, NEW U, IsFiniteSet(T), NEW c \in Nat, Cardinality(S) = c,
             T \cap ({b} \X S) = {}, U = T \cup ({b} \X S)
      PROVE  Cardinality(U) = Cardinality(T) + c
  <2>1. IsFiniteSet({b}) /\ Cardinality({b}) = 1  BY FS_Singleton
  <2>2. IsFiniteSet({b} \X S) /\ Cardinality({b} \X S) = 1 * c  BY <1>4, <2>1, FS_Product
  <2>3. Cardinality(U) = Cardinality(T) + 1 * c - Cardinality({})
    BY <1>4, <2>2, FS_Union
  <2>4. Cardinality({}) = 0 /\ Cardinality(T) \in Nat  BY <1>4, FS_EmptySet, FS_CardinalityType
  <2> QED  BY <1>4, <2>3, <2>4
<1>5. \A c \in Batches \ {b} : Told(c)' = Told(c) /\ ToldDup(c)' = ToldDup(c)
  <2> SUFFICES ASSUME NEW c \in Batches \ {b} PROVE Told(c)' = Told(c) /\ ToldDup(c)' = ToldDup(c)
    OBVIOUS
  <2>1. batch'[c] = batch[c]  BY BatchMove
  <2>2. Fresh(c)' = Fresh(c)  BY <2>1 DEF Fresh
  <2> QED  BY <2>1, <2>2 DEF Told, ToldDup
<1>6. total' - Cardinality(ToldAll') = total - Cardinality(ToldAll)
  <2>1. CASE Told(b)' = Told(b) /\ total' = total
    <3>1. ToldAll' = ToldAll
      <4>1. \A c \in Batches : Told(c)' = Told(c)  BY <1>5, <2>1
      <4> QED  BY <4>1 DEF ToldAll
    <3> QED  BY <2>1, <3>1
  <2>2. CASE Told(b) = {} /\ Told(b)' = Positions(b) /\ total' = total + n
    <3>1. ToldAll' = ToldAll \cup ({b} \X Positions(b))  BY <1>5, <2>2 DEF ToldAll
    <3>2. ToldAll \cap ({b} \X Positions(b)) = {}  BY <2>2 DEF ToldAll
    <3>3. Cardinality(ToldAll') = Cardinality(ToldAll) + n
      BY <1>1, <1>2, <1>4, <3>1, <3>2, ToldFinite
    <3> QED  BY <1>1, <2>2, <3>3, ToldFinite
  <2> QED  BY <2>1, <2>2, BatchCounts
<1>7. dups' - Cardinality(TdupAll') = dups - Cardinality(TdupAll)
  <2>1. CASE ToldDup(b)' = ToldDup(b) /\ dups' = dups
    <3>1. TdupAll' = TdupAll
      <4>1. \A c \in Batches : ToldDup(c)' = ToldDup(c)  BY <1>5, <2>1
      <4> QED  BY <4>1 DEF TdupAll
    <3> QED  BY <2>1, <3>1
  <2>2. CASE ToldDup(b) = {} /\ ToldDup(b)' = Positions(b) \ Fresh(b) /\ dups' = dups + (n - f)
    <3> DEFINE R == Positions(b) \ Fresh(b)
    <3>1. TdupAll' = TdupAll \cup ({b} \X R)  BY <1>5, <2>2 DEF TdupAll
    <3>2. TdupAll \cap ({b} \X R) = {}  BY <2>2 DEF TdupAll
    <3>3. IsFiniteSet(R) /\ Cardinality(R) = n - f  BY <1>3
    <3>4. n - f \in Nat  BY <3>3, FS_CardinalityType
    <3> HIDE DEF R
    <3>5. Cardinality(TdupAll') = Cardinality(TdupAll) + (n - f)
      BY <1>4, <3>1, <3>2, <3>3, <3>4, ToldFinite
    <3> QED  BY <1>1, <2>2, <3>4, <3>5, ToldFinite
  <2> QED  BY <2>1, <2>2, BatchCounts
<1> QED  BY <1>6, <1>7

\* BatchesCounted in terms of the sums.
LEMMA CountedSums ==
  BatchesCounted <=>
    (crashes = 0 /\ ackLosses = 0 =>
       /\ SumTotal = Cardinality(Counted) + Cardinality(ToldAll)
       /\ SumDups = Cardinality(CountedDup) + Cardinality(TdupAll))
BY DEF BatchesCounted, SumTotal, SumDups, ToldAll, TdupAll

\* The same for the next state.
LEMMA CountedSumsNext ==
  BatchesCounted' <=>
    (crashes' = 0 /\ ackLosses' = 0 =>
       /\ SumTotal' = Cardinality(Counted') + Cardinality(ToldAll')
       /\ SumDups' = Cardinality(CountedDup') + Cardinality(TdupAll'))
BY DEF BatchesCounted, SumTotal, SumDups, ToldAll, TdupAll

LEMMA CountsInvStep ==
  ASSUME BatchTypeOK, CountsInv, [AllNext]_allVars
  PROVE  CountsInv'
<1> DEFINE c  == Cardinality(Counted)
           d  == Cardinality(CountedDup)
           ct == Cardinality(ToldAll)
           dt == Cardinality(TdupAll)
<1>1. /\ TypeOK /\ FlushShape
      /\ (crashes = 0 /\ ackLosses = 0 => SumTotal = c + ct /\ SumDups = d + dt)
  BY CountedSums DEF BatchTypeOK, CountsInv
<1>2. /\ SumTotal \in Nat /\ SumDups \in Nat /\ c \in Nat /\ d \in Nat /\ ct \in Nat /\ dt \in Nat
      /\ stored.total + flush.total \in Nat /\ stored.dups + flush.dups \in Nat
      /\ total \in Nat /\ dups \in Nat
  BY <1>1, CountedFinite, ToldFinite DEF TypeOK, Counts, SumTotal, SumDups
<1>3. /\ SumTotal' \in Nat /\ SumDups' \in Nat /\ total' \in Nat /\ dups' \in Nat
      /\ c' \in Nat /\ d' \in Nat /\ ct' \in Nat /\ dt' \in Nat
  <2>1. TypeOK'  BY BatchTypeStep DEF BatchTypeOK
  <2>2. ct' \in Nat /\ dt' \in Nat  BY ToldFiniteNext
  <2> QED  BY <2>1, <2>2, CountedFiniteNext DEF TypeOK, Counts, SumTotal, SumDups
<1> SUFFICES /\ FlushShape'
             /\ crashes' = 0 /\ ackLosses' = 0 => SumTotal' = c' + ct' /\ SumDups' = d' + dt'
  BY CountedSumsNext DEF CountsInv
<1>4. CASE [Next]_vars /\ UNCHANGED batchVars
  <2>1. ct' = ct /\ dt' = dt
    <3>1. batch' = batch  BY <1>4 DEF batchVars
    <3> QED  BY <3>1 DEF ToldAll, TdupAll, Told, ToldDup, Fresh
  <2>2. /\ FlushShape'
        /\ crashes' = 0 /\ ackLosses' = 0 =>
             /\ crashes = 0 /\ ackLosses = 0
             /\ SumTotal' - c' = SumTotal - c /\ SumDups' - d' = SumDups - d
    BY <1>1, <1>4, GateSums
  <2>3. ASSUME crashes' = 0, ackLosses' = 0 PROVE SumTotal' = c' + ct'
    <3>1. SumTotal = c + ct /\ SumTotal' - c' = SumTotal - c  BY <1>1, <2>2, <2>3
    <3> QED  BY <1>2, <1>3, <2>1, <3>1
  <2>4. ASSUME crashes' = 0, ackLosses' = 0 PROVE SumDups' = d' + dt'
    <3>1. SumDups = d + dt /\ SumDups' - d' = SumDups - d  BY <1>1, <2>2, <2>4
    <3> QED  BY <1>2, <1>3, <2>1, <3>1
  <2> QED  BY <2>2, <2>3, <2>4
<1>5. ASSUME NEW b \in Batches, BatchHandle(b)
      PROVE  /\ FlushShape'
             /\ crashes' = 0 /\ ackLosses' = 0 => SumTotal' = c' + ct' /\ SumDups' = d' + dt'
  <2>1. UNCHANGED <<phase, flush, stored, ackLosses, crashes>>
    BY <1>5, BatchMove DEF handlerVars, flushVars
  <2>2. c' = c /\ d' = d  BY <2>1 DEF Counted, CountedDup
  <2>3. total' - ct' = total - ct /\ dups' - dt' = dups - dt  BY <1>5, BatchSums
  <2>4. FlushShape'  BY <1>1, <2>1 DEF FlushShape
  <2>5. /\ SumTotal = (stored.total + flush.total) + total
        /\ SumTotal' = (stored.total + flush.total) + total'
        /\ SumDups = (stored.dups + flush.dups) + dups
        /\ SumDups' = (stored.dups + flush.dups) + dups'
    BY <2>1 DEF SumTotal, SumDups
  <2>6. ASSUME crashes' = 0, ackLosses' = 0 PROVE SumTotal' = c' + ct'
    <3>1. SumTotal = c + ct  BY <1>1, <2>1, <2>6
    <3> QED  BY <1>2, <1>3, <2>2, <2>3, <2>5, <3>1
  <2>7. ASSUME crashes' = 0, ackLosses' = 0 PROVE SumDups' = d' + dt'
    <3>1. SumDups = d + dt  BY <1>1, <2>1, <2>7
    <3> QED  BY <1>2, <1>3, <2>2, <2>3, <2>5, <3>1
  <2> QED  BY <2>4, <2>6, <2>7
<1>6. ASSUME NEW e \in written, PutWritten(e)
      PROVE  /\ FlushShape'
             /\ crashes' = 0 /\ ackLosses' = 0 => SumTotal' = c' + ct' /\ SumDups' = d' + dt'
  <2>1. UNCHANGED <<phase, total, dups, flush, stored, ackLosses, crashes, batch>>
    BY <1>6, PutFacts DEF handlerVars, countVars, flushVars
  <2>2. c' = c /\ d' = d  BY <2>1 DEF Counted, CountedDup
  <2>3. ct' = ct /\ dt' = dt  BY <2>1 DEF ToldAll, TdupAll, Told, ToldDup, Fresh
  <2>4. FlushShape' /\ SumTotal' = SumTotal /\ SumDups' = SumDups
    BY <1>1, <2>1 DEF FlushShape, SumTotal, SumDups
  <2> HIDE DEF c, d, ct, dt
  <2> QED  BY <1>1, <2>1, <2>2, <2>3, <2>4
<1>7. CASE CrashAll
  <2>1. Crash /\ crashes' = crashes + 1  BY <1>7, CrashFacts
  <2>2. FlushShape'  BY <1>1, <2>1, GateSums DEF Next
  <2>3. crashes' # 0  BY <1>1, <2>1 DEF TypeOK
  <2> QED  BY <2>2, <2>3
<1> QED  BY <1>4, <1>5, <1>6, <1>7, StepCases

\* While the process lives and every ADD is acknowledged, the counters and the metrics
\* table together hold every request once and every event of a batch once, and the
\* duplicates likewise, whatever the order of handlers and flushes.
THEOREM BatchBooks == AllSpec => []BatchesCounted
<1>1. AllInit => CountsInv
  <2> SUFFICES ASSUME AllInit PROVE CountsInv
    OBVIOUS
  <2>1. Counted = {} /\ CountedDup = {}
    BY DEF AllInit, Init, Counted, CountedDup
  <2>2. ToldAll = {} /\ TdupAll = {}
    <3>1. \A b \in Batches : Told(b) = {} /\ ToldDup(b) = {}
      BY DEF AllInit, BatchInit, Told, ToldDup
    <3> QED  BY <3>1 DEF ToldAll, TdupAll
  <2>3. SumTotal = 0 /\ SumDups = 0 /\ FlushShape
    BY DEF AllInit, Init, Idle, SumTotal, SumDups, FlushShape
  <2>4. Cardinality({}) = 0  BY FS_EmptySet
  <2>5. BatchesCounted  BY <2>1, <2>2, <2>3, <2>4, CountedSums
  <2> QED  BY <2>3, <2>5 DEF CountsInv
<1>2. BatchTypeOK /\ CountsInv /\ [AllNext]_allVars => CountsInv'
  BY CountsInvStep
<1>3. CountsInv => BatchesCounted  BY DEF CountsInv
<1> QED  BY <1>1, <1>2, <1>3, BatchTypeCorrect, PTL DEF AllSpec
=============================================================================
