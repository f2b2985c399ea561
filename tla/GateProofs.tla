----------------------------- MODULE GateProofs -----------------------------
(***************************************************************************)
(* What the gate guarantees for every set of requests, keys, cache size    *)
(* and fault bound.                                                        *)
(***************************************************************************)
EXTENDS Gate, LruProofs, FiniteSetTheorems

\* Every step of the gate keeps every variable in its type.
LEMMA TypeStep ==
  ASSUME TypeOK, [Next]_vars
  PROVE  TypeOK'
<1> USE GateAssumption DEF TypeOK, Counts, Phases, Won, Lost, Ended, Idle
<1> USE DEF handlerVars, storeVars, countVars, flushVars, Goto
<1>1. ASSUME NEW r \in Requests, Handle(r) PROVE TypeOK'
  <2>0. KeyOf[r] \in Keys
    OBVIOUS
  <2>1. CASE Reject(r)         BY <2>1 DEF Reject
  <2>2. CASE Receive(r)        BY <2>0, <2>2, LookupType DEF Receive
  <2>3. CASE PutItem(r)        BY <2>0, <2>3 DEF PutItem
  <2>4. CASE LoseAttempt(r)    BY <2>4 DEF LoseAttempt
  <2>5. CASE AddToCache(r)
    <3>1. \E to \in {"countAccept", "countDup"} : phase' = [phase EXCEPT ![r] = to]
      BY <2>5 DEF AddToCache
    <3>2. phase' \in [Requests -> Phases]  BY <3>1
    <3>3. cache' \in Caches  BY <2>0, <2>5, AddType DEF AddToCache
    <3> QED  BY <2>5, <3>2, <3>3 DEF AddToCache
  <2>6. CASE CountDuplicate(r) BY <2>6 DEF CountDuplicate
  <2>7. CASE CountRequest(r)   BY <2>7 DEF CountRequest
  <2>8. CASE Respond(r)        BY <2>8 DEF Respond
  <2> QED  BY <1>1, <2>1, <2>2, <2>3, <2>4, <2>5, <2>6, <2>7, <2>8 DEF Handle
<1>2. ASSUME NEW r \in Requests, ApplyAdrift(r) PROVE TypeOK'
  BY <1>2 DEF ApplyAdrift
<1>3. CASE Flusher
  <2>1. CASE SwapTotal            BY <2>1 DEF SwapTotal
  <2>2. CASE SwapDups             BY <2>2 DEF SwapDups
  <2>3. CASE UpdateItem           BY <2>3 DEF UpdateItem, ADD
  <2>4. CASE UpdateUnacknowledged BY <2>4 DEF UpdateUnacknowledged, ADD
  <2>5. CASE UpdateFailed         BY <2>5 DEF UpdateFailed
  <2>6. CASE RestoreTotal
    <3>1. total' \in Nat
      BY <2>6 DEF RestoreTotal
    <3>2. flush'.pc = "restoreDups" /\ flush' = [flush EXCEPT !.pc = "restoreDups", !.total = 0]
      BY <2>6 DEF RestoreTotal
    <3>3. UNCHANGED <<handlerVars, storeVars, dups, stored, ackLosses, crashes>>
      BY <2>6 DEF RestoreTotal
    <3> QED  BY <3>1, <3>2, <3>3
  <2>7. CASE RestoreDups          BY <2>7 DEF RestoreDups
  <2> QED  BY <1>3, <2>1, <2>2, <2>3, <2>4, <2>5, <2>6, <2>7 DEF Flusher
<1>4. CASE Crash
  <2>1. EmptyCache \in Caches
    BY DEF EmptyCache, Caches
  <2> QED  BY <1>4, <2>1 DEF Crash, ADD
<1>5. CASE UNCHANGED vars
  BY <1>5 DEF vars
<1> QED  BY <1>1, <1>2, <1>3, <1>4, <1>5 DEF Next, Handler

\* The gate starts in its types.
LEMMA TypeInit == Init => TypeOK
<1>1. EmptyCache \in Caches
  BY DEF EmptyCache, Caches
<1> QED  BY <1>1, GateAssumption DEF Init, TypeOK, Counts, Phases, Idle

\* Every variable of the gate stays in its type.
THEOREM TypeCorrect == Spec => []TypeOK
BY TypeInit, TypeStep, PTL DEF Spec

\* The cache of the gate is whole: its list and its map agree and it is within bounds.
CacheWhole == Matched(cache) /\ Len(cache.ll) <= CacheCapacity

\* Contains and Add leave a whole cache whole.
LEMMA WholeKept ==
  ASSUME cache \in Caches, CacheWhole, NEW k \in Keys
  PROVE  LET Whole(c) == Matched(c) /\ Len(c.ll) <= CacheCapacity
         IN  Whole(Lookup(cache, k)) /\ Whole(Add(cache, k))
<1>1. CASE Cached(cache, k)
  <2>1. Matched(MoveToFront(cache, k)) /\ Len(MoveToFront(cache, k).ll) = Len(cache.ll)
    BY <1>1, MoveToFrontMatched, MoveToFrontList DEF CacheWhole, Cached
  <2> QED  BY <1>1, <2>1 DEF Lookup, Add, CacheWhole
<1>2. CASE ~Cached(cache, k)
  <2>1. Lookup(cache, k) = cache  BY <1>2 DEF Lookup
  <2>2. Matched(Add(cache, k)) /\ Len(Add(cache, k).ll) <= CacheCapacity
    BY <1>2, AddNewList DEF CacheWhole, Cached
  <2> QED  BY <2>1, <2>2 DEF CacheWhole
<1> QED  BY <1>1, <1>2

\* The gate's handlers use the cache as it was made to be used: however they, their
\* retries and the crashes interleave, moveToFront and evictOldest find the list and
\* the map in agreement, and the cache within recentKeysCacheCapacity.
THEOREM CacheStaysWhole == Spec => []CacheWhole
<1>1. Init => CacheWhole
  <2>1. Len(<< >>) = 0 /\ DOMAIN << >> = {}  OBVIOUS
  <2> QED  BY <2>1, CapacityAssumption DEF Init, EmptyCache, CacheWhole, Matched
<1>2. ASSUME TypeOK, CacheWhole, [Next]_vars PROVE CacheWhole'
  <2>1. \/ UNCHANGED cache \/ cache' = EmptyCache
        \/ \E r \in Requests : cache' = Lookup(cache, KeyOf[r]) \/ cache' = Add(cache, KeyOf[r])
    <3> USE DEF storeVars
    <3>1. ASSUME NEW r \in Requests, Handle(r)
          PROVE  \/ UNCHANGED cache \/ cache' = Lookup(cache, KeyOf[r])
                 \/ cache' = Add(cache, KeyOf[r])
      BY <3>1 DEF Handle, Reject, Receive, PutItem, LoseAttempt, AddToCache, CountDuplicate,
                  CountRequest, Respond
    <3>2. ASSUME NEW r \in Requests, ApplyAdrift(r) PROVE UNCHANGED cache
      BY <3>2 DEF ApplyAdrift
    <3>3. CASE Flusher
      BY <3>3 DEF Flusher, SwapTotal, SwapDups, UpdateItem, UpdateUnacknowledged, UpdateFailed,
                  RestoreTotal, RestoreDups
    <3>4. CASE Crash  BY <3>4 DEF Crash
    <3>5. CASE UNCHANGED vars  BY <3>5 DEF vars
    <3> QED  BY <1>2, <3>1, <3>2, <3>3, <3>4, <3>5 DEF Next, Handler
  <2>2. CASE UNCHANGED cache  BY <1>2, <2>2 DEF CacheWhole, Matched
  <2>3. CASE cache' = EmptyCache
    <3>1. Len(<< >>) = 0 /\ DOMAIN << >> = {}  OBVIOUS
    <3> QED  BY <2>3, <3>1, CapacityAssumption DEF EmptyCache, CacheWhole, Matched
  <2>4. ASSUME NEW r \in Requests, cache' = Lookup(cache, KeyOf[r]) \/ cache' = Add(cache, KeyOf[r])
        PROVE  CacheWhole'
    <3>1. KeyOf[r] \in Keys /\ cache \in Caches  BY <1>2, GateAssumption DEF TypeOK
    <3>2. Matched(cache') /\ Len(cache'.ll) <= CacheCapacity  BY <1>2, <2>4, <3>1, WholeKept
    <3> QED  BY <3>2 DEF CacheWhole, Matched
  <2> QED  BY <2>1, <2>2, <2>3, <2>4
<1> QED  BY <1>1, <1>2, TypeCorrect, PTL DEF Spec

\* Claims is preserved by every step that starts in a typed state.
LEMMA ClaimsStep ==
  ASSUME TypeOK, Claims, [Next]_vars
  PROVE  Claims'
<1> USE GateAssumption DEF TypeOK, Phases, Won, Lost, Ended, Claims, RefusedOnlyIfClaimed, CacheSound
<1> USE DEF handlerVars, storeVars, countVars, flushVars, Goto
<1>0. \A r \in Requests : KeyOf[r] \in Keys /\ r # NoEvent
  OBVIOUS
<1>1. ASSUME NEW r \in Requests, Handle(r) PROVE Claims'
  <2>1. CASE Reject(r)         BY <2>1 DEF Reject
  <2>2. CASE Receive(r)
    <3>1. cache'.items = cache.items /\ table' = table
      BY <1>0, <2>2, LookupType DEF Receive
    <3>2. \A s \in Requests : s # r => phase'[s] = phase[s]
      BY <2>2 DEF Receive
    <3>3. (phase'[r] = "countDup" /\ KeyOf[r] \in cache.items) \/ phase'[r] = "put"
      BY <2>2 DEF Receive, Cached
    <3> QED  BY <1>0, <3>1, <3>2, <3>3
  <2>3. CASE PutItem(r)
    <3>1. CacheSound'
      BY <1>0, <2>3 DEF PutItem, Caches
    <3>2. CASE table[KeyOf[r]] = NoEvent
      <4>1. /\ phase' = [phase EXCEPT ![r] = "won"]
            /\ table' = [table EXCEPT ![KeyOf[r]] = r]
        BY <2>3, <3>2 DEF PutItem
      <4>2. \A s \in Requests : s # r /\ phase[s] \in Won \cup Lost => KeyOf[s] # KeyOf[r]
        BY <1>0, <3>2
      <4> QED  BY <1>0, <3>1, <4>1, <4>2
    <3>3. CASE table[KeyOf[r]] # NoEvent
      BY <3>1, <2>3, <3>3 DEF PutItem
    <3> QED  BY <3>2, <3>3
  <2>4. CASE LoseAttempt(r)
    <3>1. table' = table /\ cache' = cache
      BY <2>4 DEF LoseAttempt
    <3>2. \A s \in Requests : phase'[s] = phase[s] \/ phase'[s] \in {"put", "failed"}
      BY <2>4 DEF LoseAttempt
    <3> QED  BY <3>1, <3>2
  <2>5. CASE AddToCache(r)
    <3>1. cache'.items \subseteq cache.items \cup {KeyOf[r]} /\ table' = table
      BY <1>0, <2>5, AddType DEF AddToCache
    <3>2. table[KeyOf[r]] # NoEvent
      BY <1>0, <2>5 DEF AddToCache
    <3>3. CacheSound'
      BY <3>1, <3>2
    <3>4. (\A s \in Requests : phase[s] \in Won => table[KeyOf[s]] = s)' /\ RefusedOnlyIfClaimed'
      BY <3>1, <2>5 DEF AddToCache
    <3> QED  BY <3>3, <3>4
  <2>6. CASE CountDuplicate(r) BY <2>6 DEF CountDuplicate
  <2>7. CASE CountRequest(r)   BY <2>7 DEF CountRequest
  <2>8. CASE Respond(r)        BY <2>8 DEF Respond
  <2> QED  BY <1>1, <2>1, <2>2, <2>3, <2>4, <2>5, <2>6, <2>7, <2>8 DEF Handle
<1>2. ASSUME NEW r \in Requests, ApplyAdrift(r) PROVE Claims'
  BY <1>0, <1>2 DEF ApplyAdrift
<1>3. CASE Flusher
  BY <1>3 DEF Flusher, SwapTotal, SwapDups, UpdateItem, UpdateUnacknowledged, UpdateFailed,
              RestoreTotal, RestoreDups
<1>4. CASE Crash
  <2>1. \A r \in Requests : phase'[r] = phase[r] \/ phase'[r] = "reset"
    BY <1>4 DEF Crash
  <2>2. table' = table /\ cache'.items = {}
    BY <1>4 DEF Crash, EmptyCache
  <2> QED  BY <2>1, <2>2
<1>5. CASE UNCHANGED vars
  BY <1>5 DEF vars
<1> QED  BY <1>1, <1>2, <1>3, <1>4, <1>5 DEF Next, Handler

\* A request that has won owns the row of its key, a refused request's key has a
\* row, and so has every cached key.
THEOREM ClaimsInvariant == Spec => []Claims
<1>1. Init => Claims
  BY GateAssumption DEF Init, Claims, RefusedOnlyIfClaimed, CacheSound, Won, Lost, EmptyCache
<1>2. TypeOK /\ Claims /\ [Next]_vars => Claims'
  BY ClaimsStep
<1> QED  BY <1>1, <1>2, TypeCorrect, PTL DEF Spec

\* /accept answers "accepted" at most once per key, whatever is lost, repeated,
\* applied late or crashes.
THEOREM ExactlyOnce == Spec => []AtMostOneAccepted
<1>1. TypeOK /\ Claims => AtMostOneAccepted
  BY DEF TypeOK, Claims, Won, AtMostOneAccepted
<1> QED  BY <1>1, TypeCorrect, ClaimsInvariant, PTL

\* An accepted request owns its row.
THEOREM AcceptedIsStored == Spec => []AcceptedOwnsRow
<1>1. Claims => AcceptedOwnsRow
  BY DEF Claims, Won, AcceptedOwnsRow
<1> QED  BY <1>1, ClaimsInvariant, PTL

\* The cache never holds a key without a row.
THEOREM CacheIsSound == Spec => []CacheSound
<1>1. Claims => CacheSound
  BY DEF Claims
<1> QED  BY <1>1, ClaimsInvariant, PTL

\* No request is refused without a row for its key.
THEOREM RefusalsAreClaimed == Spec => []RefusedOnlyIfClaimed
<1>1. Claims => RefusedOnlyIfClaimed
  BY DEF Claims
<1> QED  BY <1>1, ClaimsInvariant, PTL

\* No step changes a row that exists.
LEMMA RowsStep ==
  ASSUME TypeOK, [Next]_vars, NEW k \in Keys, table[k] # NoEvent
  PROVE  table'[k] = table[k]
<1> USE GateAssumption DEF TypeOK, handlerVars, storeVars, countVars, flushVars
<1>1. ASSUME NEW r \in Requests, Handle(r) PROVE table'[k] = table[k]
  BY <1>1 DEF Handle, Reject, Receive, PutItem, LoseAttempt, AddToCache, CountDuplicate,
              CountRequest, Respond
<1>2. ASSUME NEW r \in Requests, ApplyAdrift(r) PROVE table'[k] = table[k]
  BY <1>2 DEF ApplyAdrift
<1>3. CASE Flusher
  BY <1>3 DEF Flusher, SwapTotal, SwapDups, UpdateItem, UpdateUnacknowledged, UpdateFailed,
              RestoreTotal, RestoreDups
<1>4. CASE Crash
  BY <1>4 DEF Crash
<1>5. CASE UNCHANGED vars
  BY <1>5 DEF vars
<1> QED  BY <1>1, <1>2, <1>3, <1>4, <1>5 DEF Next, Handler

\* Rows written by /accept are immutable.
THEOREM RowsImmutable == Spec => RowsNeverChange
<1>1. TypeOK /\ [Next]_vars => [\A k \in Keys : table[k] # NoEvent => table'[k] = table[k]]_vars
  BY RowsStep
<1> QED  BY <1>1, TypeCorrect, PTL DEF Spec, RowsNeverChange

\* While nothing is lost and nothing crashes, every row has a winner.
LEMMA WinnersStep ==
  ASSUME TypeOK, RowsHaveWinners, [Next]_vars
  PROVE  RowsHaveWinners'
<1> USE GateAssumption DEF TypeOK, Phases, Won, Lost, Ended, RowsHaveWinners, Undisturbed
<1> USE DEF handlerVars, storeVars, countVars, flushVars, Goto
<1> SUFFICES ASSUME Undisturbed' PROVE RowsHaveWinners'
  OBVIOUS
<1>1. ASSUME NEW r \in Requests, Handle(r) PROVE RowsHaveWinners'
  <2>0. ASSUME tries' = tries, crashes' = crashes PROVE Undisturbed
    BY <2>0
  <2>1. CASE Reject(r)         BY <2>0, <2>1 DEF Reject
  <2>2. CASE Receive(r)        BY <2>0, <2>2 DEF Receive
  <2>3. CASE PutItem(r)
    <3>1. adrift' = {} /\ Undisturbed
      BY <2>0, <2>3 DEF PutItem
    <3>2. ASSUME NEW k \in Keys, table'[k] # NoEvent
          PROVE  table'[k] \in Requests /\ KeyOf[table'[k]] = k /\ phase'[table'[k]] \in Won
      BY <2>3, <3>1, <3>2 DEF PutItem
    <3> QED  BY <3>1, <3>2
  <2>4. CASE LoseAttempt(r)
    <3>1. tries'[r] = tries[r] + 1
      BY <2>4 DEF LoseAttempt
    <3> QED  BY <3>1
  <2>5. CASE AddToCache(r)     BY <2>0, <2>5 DEF AddToCache
  <2>6. CASE CountDuplicate(r) BY <2>0, <2>6 DEF CountDuplicate
  <2>7. CASE CountRequest(r)   BY <2>0, <2>7 DEF CountRequest
  <2>8. CASE Respond(r)        BY <2>0, <2>8 DEF Respond
  <2> QED  BY <1>1, <2>1, <2>2, <2>3, <2>4, <2>5, <2>6, <2>7, <2>8 DEF Handle
<1>2. ASSUME NEW r \in Requests, ApplyAdrift(r) PROVE RowsHaveWinners'
  BY <1>2 DEF ApplyAdrift
<1>3. CASE Flusher
  BY <1>3 DEF Flusher, SwapTotal, SwapDups, UpdateItem, UpdateUnacknowledged, UpdateFailed,
              RestoreTotal, RestoreDups
<1>4. CASE Crash
  BY <1>4 DEF Crash
<1>5. CASE UNCHANGED vars
  BY <1>5 DEF vars
<1> QED  BY <1>1, <1>2, <1>3, <1>4, <1>5 DEF Next, Handler

\* Until a call is lost or the gate crashes no key is refused to everyone: when a
\* request is refused, another with its key is answered "accepted" or about to be.
THEOREM NoKeyIsLost == Spec => []SomeoneWins
<1>1. Init => RowsHaveWinners
  BY DEF Init, RowsHaveWinners
<1>2. TypeOK /\ RowsHaveWinners /\ [Next]_vars => RowsHaveWinners'
  BY WinnersStep
<1>3. RowsHaveWinners /\ Claims => SomeoneWins
  <2> SUFFICES ASSUME RowsHaveWinners, Claims, Undisturbed,
                      NEW r \in Requests, phase[r] \in Lost
               PROVE  \E s \in Requests : KeyOf[s] = KeyOf[r] /\ phase[s] \in Won
    BY DEF SomeoneWins
  <2>1. KeyOf[r] \in Keys /\ table[KeyOf[r]] # NoEvent
    BY GateAssumption DEF Claims, RefusedOnlyIfClaimed
  <2> QED  BY <2>1 DEF RowsHaveWinners
<1> QED  BY <1>1, <1>2, <1>3, TypeCorrect, ClaimsInvariant, PTL DEF Spec

-----------------------------------------------------------------------------
\* Refinement of AcceptOnce.  What a handler's caller has been told, as the
\* abstract specification sees it.
replies == [r \in Requests |-> Reply(phase[r])]

\* What Reply says of the phases.
LEMMA ReplyValues ==
  /\ Reply("accepted") = "accepted" /\ Reply("duplicate") = "duplicate"
  /\ \A p \in {"rejected", "failed", "reset"} : Reply(p) = "error"
  /\ \A p \in Phases \ Ended : Reply(p) = "none"
<1>1. \A p \in Phases \ Ended : p \notin {"rejected", "failed", "reset", "accepted", "duplicate"}
  BY DEF Ended
<1> QED  BY <1>1 DEF Reply

\* A step that moves one request between phases that say the same to its caller
\* tells nobody anything.
LEMMA SilentMove ==
  ASSUME TypeOK, NEW r \in Requests, NEW p \in Phases,
         phase' = [phase EXCEPT ![r] = p], Reply(p) = Reply(phase[r])
  PROVE  replies' = replies
BY DEF TypeOK, replies

\* A step that answers one request changes what that request was told.
LEMMA AnswerMove ==
  ASSUME TypeOK, NEW r \in Requests, NEW p \in Phases, phase' = [phase EXCEPT ![r] = p]
  PROVE  replies' = [replies EXCEPT ![r] = Reply(p)]
BY DEF TypeOK, replies

\* A request ending in an error is the abstract Fail.
LEMMA ErrorMove ==
  ASSUME TypeOK, NEW r \in Requests, NEW p \in {"rejected", "failed"},
         phase[r] \in Phases \ Ended, phase' = [phase EXCEPT ![r] = p], table' = table
  PROVE  A!Next
<1>1. Reply(phase[r]) = "none" /\ Reply(p) = "error"
  BY ReplyValues
<1>2. p \in Phases
  BY DEF Phases, Ended
<1>3. replies' = [replies EXCEPT ![r] = "error"]
  BY <1>1, <1>2, AnswerMove
<1>4. replies' = [s \in Requests |-> IF s \in {r} THEN "error" ELSE replies[s]]
  BY <1>3 DEF replies
<1>5. \A s \in {r} : replies[s] = "none"
  BY <1>1 DEF replies
<1>6. A!Fail({r})
  BY <1>4, <1>5 DEF A!Fail, replies
<1> QED  BY <1>6 DEF A!Next

\* Every step of the gate is a step of the abstract specification or changes
\* nothing it can see.
LEMMA RefinementStep ==
  ASSUME TypeOK, Claims, [Next]_vars
  PROVE  [A!Next]_(A!vars)
<1> SUFFICES A!Next \/ (table' = table /\ replies' = replies)
  BY DEF A!vars, replies
<1> USE DEF handlerVars, storeVars, countVars, flushVars, Goto
<1>0. \A r \in Requests : KeyOf[r] \in Keys /\ r # NoEvent /\ phase[r] \in Phases
  BY GateAssumption DEF TypeOK
<1>a. \A p \in {"sent", "put", "won", "countAccept", "sayAccepted", "lost", "countDup",
                "countTotal", "sayDuplicate"} : p \in Phases \ Ended
  BY DEF Phases, Won, Lost, Ended
<1>b. {"accepted", "duplicate"} \subseteq Phases
  BY DEF Phases, Ended
<1>1. ASSUME NEW r \in Requests, Handle(r) PROVE A!Next \/ (table' = table /\ replies' = replies)
  <2>1. CASE Reject(r)
    BY <2>1, <1>a, ErrorMove DEF Reject
  <2>2. CASE Receive(r)
    <3>1. PICK p \in {"countDup", "put"} : phase[r] = "sent" /\ phase' = [phase EXCEPT ![r] = p]
      BY <2>2 DEF Receive
    <3>2. table' = table
      BY <2>2 DEF Receive
    <3> QED  BY <1>a, <3>1, <3>2, SilentMove, ReplyValues
  <2>3. CASE PutItem(r)
    <3>1. PICK p \in {"won", "lost"} : phase[r] = "put" /\ phase' = [phase EXCEPT ![r] = p]
      BY <2>3 DEF PutItem
    <3>2. replies' = replies
      BY <1>a, <3>1, SilentMove, ReplyValues
    <3>3. CASE table[KeyOf[r]] = NoEvent
      <4>1. A!Claim(r)
        BY <2>3, <3>2, <3>3 DEF PutItem, A!Claim, replies
      <4> QED  BY <4>1 DEF A!Next
    <3>4. CASE table[KeyOf[r]] # NoEvent
      BY <2>3, <3>2, <3>4 DEF PutItem
    <3> QED  BY <3>3, <3>4
  <2>4. CASE LoseAttempt(r)
    <3>1. table' = table /\ phase[r] = "put"
      BY <2>4 DEF LoseAttempt
    <3>2. CASE phase' = [phase EXCEPT ![r] = "put"]
      BY <1>a, <3>1, <3>2, SilentMove, ReplyValues
    <3>3. CASE phase' = [phase EXCEPT ![r] = "failed"]
      BY <1>a, <3>1, <3>3, ErrorMove
    <3> QED  BY <2>4, <3>2, <3>3 DEF LoseAttempt
  <2>5. CASE AddToCache(r)
    BY <2>5, <1>a, SilentMove, ReplyValues DEF AddToCache
  <2>6. CASE CountDuplicate(r)
    BY <2>6, <1>a, SilentMove, ReplyValues DEF CountDuplicate
  <2>7. CASE CountRequest(r)
    BY <2>7, <1>a, SilentMove, ReplyValues DEF CountRequest
  <2>8. CASE Respond(r)
    <3>1. table' = table /\ phase[r] \in Phases \ Ended /\ replies[r] = "none"
      BY <2>8, <1>a, ReplyValues DEF Respond, replies
    <3>2. CASE Goto(r, "sayAccepted", "accepted")
      <4>1. replies' = [replies EXCEPT ![r] = "accepted"]
        BY <3>2, <1>b, AnswerMove, ReplyValues
      <4>2. table[KeyOf[r]] = r
        BY <3>2 DEF Claims, Won
      <4>3. A!Accept(r)
        BY <3>1, <4>1, <4>2 DEF A!Accept, replies
      <4> QED  BY <4>3 DEF A!Next
    <3>3. CASE Goto(r, "sayDuplicate", "duplicate")
      <4>1. replies' = [replies EXCEPT ![r] = "duplicate"]
        BY <3>3, <1>b, AnswerMove, ReplyValues
      <4>2. table[KeyOf[r]] # NoEvent
        BY <3>3 DEF Claims, RefusedOnlyIfClaimed, Lost
      <4>3. A!Refuse(r)
        BY <3>1, <4>1, <4>2 DEF A!Refuse, replies
      <4> QED  BY <4>3 DEF A!Next
    <3> QED  BY <2>8, <3>2, <3>3 DEF Respond
  <2> QED  BY <1>1, <2>1, <2>2, <2>3, <2>4, <2>5, <2>6, <2>7, <2>8 DEF Handle
<1>2. ASSUME NEW r \in Requests, ApplyAdrift(r) PROVE A!Next
  <2>1. replies' = replies
    BY <1>2 DEF ApplyAdrift, replies
  <2>2. A!Claim(r)
    BY <1>2, <2>1 DEF ApplyAdrift, A!Claim, replies
  <2> QED  BY <2>2 DEF A!Next
<1>3. CASE Flusher
  <2>1. UNCHANGED <<phase, table>>
    BY <1>3 DEF Flusher, SwapTotal, SwapDups, UpdateItem, UpdateUnacknowledged, UpdateFailed,
                RestoreTotal, RestoreDups
  <2> QED  BY <2>1 DEF replies
<1>4. CASE Crash
  <2>1. table' = table /\ phase' = [r \in Requests |-> IF r \in InFlight THEN "reset" ELSE phase[r]]
    BY <1>4 DEF Crash
  <2>2. \A r \in InFlight : phase[r] \in Phases \ Ended
    BY <1>0 DEF InFlight
  <2>3. \A r \in InFlight : replies[r] = "none"
    BY <2>2, ReplyValues DEF replies, InFlight
  <2>4. replies' = [r \in Requests |-> IF r \in InFlight THEN "error" ELSE replies[r]]
    BY <2>1, ReplyValues DEF replies
  <2>5. A!Fail(InFlight)
    BY <2>1, <2>3, <2>4 DEF A!Fail, replies
  <2>6. InFlight \in SUBSET Requests
    BY DEF InFlight
  <2> QED  BY <2>5, <2>6 DEF A!Next
<1>5. CASE UNCHANGED vars
  BY <1>5 DEF vars, replies
<1> QED  BY <1>1, <1>2, <1>3, <1>4, <1>5 DEF Next, Handler

\* The gate implements the abstract exactly-once specification: a caller cannot
\* tell its handlers, cache, retries and restarts from one atomic claim per key.
THEOREM Refinement == Spec => ImplementsAcceptOnce
<1>1. Init => A!Init
  <2>1. ASSUME Init PROVE replies = [r \in Requests |-> "none"]
    BY <2>1, ReplyValues DEF Init, replies, Phases, Ended
  <2> QED  BY <2>1 DEF Init, A!Init, replies
<1>2. TypeOK /\ Claims /\ [Next]_vars => [A!Next]_(A!vars)
  BY RefinementStep
<1> QED  BY <1>1, <1>2, TypeCorrect, ClaimsInvariant, PTL DEF Spec, ImplementsAcceptOnce, A!Spec
-----------------------------------------------------------------------------
(***************************************************************************)
(* The accounts of the gate's metrics balance for every set of requests:   *)
(* counts move between the atomic counters, the flusher's hands and the    *)
(* metrics table, and none is dropped or doubled on the way except where   *)
(* flushMetrics says so.                                                   *)
(***************************************************************************)

\* The sets that are counted are finite.
LEMMA CountedFinite ==
  /\ IsFiniteSet(Counted) /\ Cardinality(Counted) \in Nat
  /\ IsFiniteSet(CountedDup) /\ Cardinality(CountedDup) \in Nat
<1>1. IsFiniteSet(Requests)
  BY GateAssumption, FS_Subset
<1>2. Counted \subseteq Requests /\ CountedDup \subseteq Requests
  BY DEF Counted, CountedDup
<1> QED  BY <1>1, <1>2, FS_Subset, FS_CardinalityType

\* The same after a step.
LEMMA CountedFiniteNext ==
  /\ IsFiniteSet(Counted') /\ Cardinality(Counted') \in Nat
  /\ IsFiniteSet(CountedDup') /\ Cardinality(CountedDup') \in Nat
<1>1. IsFiniteSet(Requests)
  BY GateAssumption, FS_Subset
<1>2. Counted' \subseteq Requests /\ CountedDup' \subseteq Requests
  BY DEF Counted, CountedDup
<1> QED  BY <1>1, <1>2, FS_Subset, FS_CardinalityType

\* Handlers add to the counters exactly when they enter the counted sets.
LEMMA HandlerCounts ==
  ASSUME TypeOK, NEW r \in Requests, Handle(r)
  PROVE  /\ \/ Counted' = Counted /\ total' = total
            \/ r \notin Counted /\ Counted' = Counted \cup {r} /\ total' = total + 1
         /\ \/ CountedDup' = CountedDup /\ dups' = dups
            \/ r \notin CountedDup /\ CountedDup' = CountedDup \cup {r} /\ dups' = dups + 1
         /\ UNCHANGED <<flush, stored, ackLosses, crashes>>
<1> USE DEF TypeOK, handlerVars, storeVars, countVars, flushVars, Goto, Counted, CountedDup
<1>1. CASE Reject(r)         BY <1>1 DEF Reject
<1>2. CASE Receive(r)        BY <1>2 DEF Receive
<1>3. CASE PutItem(r)        BY <1>3 DEF PutItem
<1>4. CASE LoseAttempt(r)    BY <1>4 DEF LoseAttempt
<1>5. CASE AddToCache(r)     BY <1>5 DEF AddToCache
<1>6. CASE CountDuplicate(r) BY <1>6 DEF CountDuplicate
<1>7. CASE CountRequest(r)   BY <1>7 DEF CountRequest
<1>8. CASE Respond(r)        BY <1>8 DEF Respond
<1> QED  BY <1>1, <1>2, <1>3, <1>4, <1>5, <1>6, <1>7, <1>8 DEF Handle

\* Accounts is preserved by every step that starts in a typed state.
LEMMA AccountsStep ==
  ASSUME TypeOK, Accounts, [Next]_vars
  PROVE  Accounts'
<1> USE DEF Accounts, NothingUndercounted, NothingOvercounted
<1> DEFINE C == Cardinality(Counted)
           D == Cardinality(CountedDup)
<1>t. /\ total \in Nat /\ dups \in Nat /\ flush.total \in Nat /\ flush.dups \in Nat
      /\ stored.total \in Nat /\ stored.dups \in Nat /\ C \in Nat /\ D \in Nat
      /\ crashes \in Nat /\ ackLosses \in Nat
  BY CountedFinite, GateAssumption DEF TypeOK, Counts
<1>f. UNCHANGED <<phase>> => C' = C /\ D' = D
  BY DEF Counted, CountedDup
<1>1. ASSUME NEW r \in Requests, Handle(r) PROVE Accounts'
  <2>1. \/ C' = C /\ total' = total
        \/ C' = C + 1 /\ total' = total + 1
    BY <1>1, HandlerCounts, CountedFinite, FS_AddElement
  <2>2. \/ D' = D /\ dups' = dups
        \/ D' = D + 1 /\ dups' = dups + 1
    BY <1>1, HandlerCounts, CountedFinite, FS_AddElement
  <2>3. UNCHANGED <<flush, stored, ackLosses, crashes>>
    BY <1>1, HandlerCounts
  <2> HIDE DEF C, D
  <2> QED  BY <1>t, <2>1, <2>2, <2>3 DEF C, D
<1>2. ASSUME NEW r \in Requests, ApplyAdrift(r) PROVE Accounts'
  BY <1>2, <1>f DEF ApplyAdrift, handlerVars, countVars, flushVars
<1>3. CASE Flusher
  <2> USE DEF handlerVars, storeVars, countVars, flushVars
  <2>1. C' = C /\ D' = D /\ crashes' = crashes
    BY <1>3, <1>f DEF Flusher, SwapTotal, SwapDups, UpdateItem, UpdateUnacknowledged,
                      UpdateFailed, RestoreTotal, RestoreDups
  <2>2. flush \in [pc : {"idle", "swapDups", "update", "restoreTotal", "restoreDups"},
                   total : Nat, dups : Nat]
    BY DEF TypeOK
  <2> HIDE DEF C, D
  <2>3. CASE SwapTotal            BY <1>t, <2>1, <2>2, <2>3 DEF SwapTotal, C, D
  <2>4. CASE SwapDups             BY <1>t, <2>1, <2>2, <2>4 DEF SwapDups, C, D
  <2>5. CASE UpdateItem           BY <1>t, <2>1, <2>2, <2>5 DEF UpdateItem, ADD, Idle, C, D
  <2>6. CASE UpdateUnacknowledged BY <1>t, <2>1, <2>2, <2>6 DEF UpdateUnacknowledged, ADD, C, D
  <2>7. CASE UpdateFailed         BY <1>t, <2>1, <2>2, <2>7 DEF UpdateFailed, C, D
  <2>8. CASE RestoreTotal         BY <1>t, <2>1, <2>2, <2>8 DEF RestoreTotal, C, D
  <2>9. CASE RestoreDups          BY <1>t, <2>1, <2>2, <2>9 DEF RestoreDups, Idle, C, D
  <2> QED  BY <1>3, <2>3, <2>4, <2>5, <2>6, <2>7, <2>8, <2>9 DEF Flusher
<1>4. CASE Crash
  <2>1. crashes' # 0 /\ flush' = Idle
    BY <1>4, <1>t DEF Crash
  <2> QED  BY <2>1 DEF Idle
<1>5. CASE UNCHANGED vars
  BY <1>5, <1>f DEF vars, handlerVars, countVars, flushVars
<1> QED  BY <1>1, <1>2, <1>3, <1>4, <1>5 DEF Next, Handler

\* The accounts balance in every reachable state.
THEOREM AccountsBalance == Spec => []Accounts
<1>1. Init => Accounts
  <2> SUFFICES ASSUME Init PROVE Accounts
    OBVIOUS
  <2>1. Counted = {} /\ CountedDup = {}
    BY DEF Init, Counted, CountedDup
  <2>2. Cardinality(Counted) = 0 /\ Cardinality(CountedDup) = 0
    BY <2>1, FS_EmptySet
  <2> QED  BY <2>2 DEF Init, Accounts, NothingUndercounted, NothingOvercounted, Idle
<1>2. TypeOK /\ Accounts /\ [Next]_vars => Accounts'
  BY AccountsStep
<1> QED  BY <1>1, <1>2, TypeCorrect, PTL DEF Spec

\* No counted request is dropped while the process lives.
THEOREM NoUndercount == Spec => []NothingUndercounted
<1>1. Accounts => NothingUndercounted
  BY DEF Accounts
<1> QED  BY <1>1, AccountsBalance, PTL

\* None is counted twice unless an applied UpdateItem went unacknowledged.
THEOREM NoOvercount == Spec => []NothingOvercounted
<1>1. Accounts => NothingOvercounted
  BY DEF Accounts
<1> QED  BY <1>1, AccountsBalance, PTL

\* Once the requests have ended and the counters are flushed, the stored counts are
\* those of the answers, and so is the rate that dedup_metrics (api.py:55-78) reports.
THEOREM RateIsExact == Spec => []RateIsExactAtRest
<1>1. ASSUME TypeOK, Accounts PROVE RateIsExactAtRest
  <2> SUFFICES ASSUME crashes = 0, ackLosses = 0, \A r \in Requests : phase[r] \in Ended,
                      flush.pc = "idle", total = 0, dups = 0
               PROVE  DedupMetrics(stored) =
                        DedupMetrics([total |-> Cardinality(Counted), dups |-> Cardinality(CountedDup)])
    <3>1. \A r \in Requests : phase[r] \in Ended =>
            /\ r \in Counted <=> phase[r] \in {"accepted", "duplicate"}
            /\ r \in CountedDup <=> phase[r] = "duplicate"
      BY DEF Ended, Counted, CountedDup
    <3> QED  BY <3>1 DEF RateIsExactAtRest, Counted, CountedDup
  <2>1. stored.total = Cardinality(Counted) /\ stored.dups = Cardinality(CountedDup)
    BY <1>1, CountedFinite
       DEF Accounts, NothingUndercounted, NothingOvercounted, TypeOK, Counts
  <2> QED  BY <2>1 DEF DedupMetrics
<1> QED  BY <1>1, TypeCorrect, AccountsBalance, PTL
=============================================================================
