---------------------------- MODULE IngestProofs ----------------------------
(***************************************************************************)
(* Proofs about the ingestion path: its types and the exactly-once chain   *)
(* from queue to bucket, for any number of consumers, messages and keys,   *)
(* with failing calls, crashes, early redeliveries and schema upgrades.    *)
(***************************************************************************)
EXTENDS Ingest, TLAPS
-----------------------------------------------------------------------------
Storing == {"head", "create", "get", "store"}

LEMMA KeysTyped == KeyOf \in [Messages -> Keys]
  BY IngestAssumption DEF KeyOf, Keys

\* TypeOK is not inductive: a consumer at work has a message in hand.
TypeInv ==
  TypeOK /\ \A c \in Consumers : consumer[c].pc \in Storing \cup {"post", "delete"} =>
              consumer[c].cur \in Messages
-----------------------------------------------------------------------------
(* What the updates of a consumer do. *)

\* The step of c, and everything else of every consumer.
Moved(c, pc, cur) ==
  /\ consumer' \in [Consumers -> ConsumerState]
  /\ consumer'[c].pc = pc /\ consumer'[c].cur = cur
  /\ \A d \in Consumers : d # c => consumer'[d] = consumer[d]

LEMMA GotoMoves ==
  ASSUME TypeOK, NEW c \in Consumers, NEW pc \in Steps, Goto(c, pc)
  PROVE  Moved(c, pc, consumer[c].cur)
<1> DEFINE new == [consumer[c] EXCEPT !.pc = pc]
<1>1. consumer \in [Consumers -> ConsumerState]  BY DEF TypeOK
<1>2. new \in ConsumerState /\ new.pc = pc /\ new.cur = consumer[c].cur
  BY <1>1 DEF ConsumerState
<1>3. consumer' = [consumer EXCEPT ![c] = new]  BY DEF Goto
<1> HIDE DEF new
<1> QED  BY <1>1, <1>2, <1>3 DEF Moved

LEMMA GiveUpMoves ==
  ASSUME TypeOK, NEW c \in Consumers, GiveUp(c)
  PROVE  Moved(c, "ready", NoMessage)
<1>1. consumer[c] \in ConsumerState /\ "ready" \in Steps  BY DEF TypeOK, Steps
<1> QED  BY <1>1 DEF TypeOK, GiveUp, Moved, ConsumerState

LEMMA FreshMoves ==
  ASSUME NEW c \in Consumers, TypeOK,
         \/ consumer' = [consumer EXCEPT ![c] = Fresh]
         \/ consumer' = [consumer EXCEPT ![c] = [Fresh EXCEPT !.pc = "stopped"]]
  PROVE  \E pc \in {"ready", "stopped"} : Moved(c, pc, NoMessage)
<1>1. [m \in Messages |-> 0] \in [Messages -> 0 .. MaxReceive]  BY IngestAssumption
<1>2. Fresh \in ConsumerState /\ Fresh.pc = "ready" /\ Fresh.cur = NoMessage
  BY <1>1, IngestAssumption DEF Fresh, ConsumerState, Steps
<1>3. "stopped" \in Steps  BY DEF Steps
<1>4. /\ [Fresh EXCEPT !.pc = "stopped"] \in ConsumerState
      /\ [Fresh EXCEPT !.pc = "stopped"].pc = "stopped"
      /\ [Fresh EXCEPT !.pc = "stopped"].cur = NoMessage
  BY <1>2, <1>3 DEF ConsumerState
<1> QED  BY <1>2, <1>4 DEF TypeOK, Moved

LEMMA TakeMoves ==
  ASSUME TypeOK, NEW c \in Consumers, Take(c)
  PROVE  \E m \in Messages : Moved(c, "post", m)
<1>1. PICK m \in consumer[c].held :
        consumer' = [consumer EXCEPT ![c].pc = "post", ![c].cur = m, ![c].held = @ \ {m}]
  BY DEF Take
<1>2. consumer[c] \in ConsumerState /\ m \in Messages  BY <1>1 DEF TypeOK, ConsumerState
<1>3. "post" \in Steps  BY DEF Steps
<1> QED  BY <1>1, <1>2, <1>3 DEF TypeOK, Moved, ConsumerState

LEMMA ReadVersionMoves ==
  ASSUME TypeOK, NEW c \in Consumers, ReadVersion(c)
  PROVE  Moved(c, "store", consumer[c].cur)
<1>1. consumer[c] \in ConsumerState /\ "store" \in Steps  BY DEF TypeOK, Steps
<1> QED  BY <1>1 DEF TypeOK, ReadVersion, Moved, ConsumerState

LEMMA ReceiveMoves ==
  ASSUME TypeOK, NEW c \in Consumers, Receive(c)
  PROVE  /\ Moved(c, "ready", consumer[c].cur)
         /\ receives' \in [Messages -> 0 .. MaxReceive] /\ queue' \in [Messages -> QueueStates]
         /\ \A m \in Messages : queue'[m] = "deleted" => queue[m] = "deleted"
<1>1. PICK S \in SUBSET {m \in Messages : queue[m] = "visible" /\ receives[m] < MaxReceive} :
        /\ queue' = [m \in Messages |-> IF m \in S THEN "inflight" ELSE queue[m]]
        /\ receives' = [m \in Messages |-> IF m \in S THEN receives[m] + 1 ELSE receives[m]]
        /\ consumer' = [consumer EXCEPT ![c].held = S, ![c].receipt = receives']
  BY DEF Receive
<1>2. receives' \in [Messages -> 0 .. MaxReceive]  BY <1>1, IngestAssumption DEF TypeOK
<1>3. queue' \in [Messages -> QueueStates]  BY <1>1 DEF TypeOK, QueueStates
<1>4. Moved(c, "ready", consumer[c].cur)
  <2>1. consumer[c] \in ConsumerState /\ consumer[c].pc = "ready"  BY DEF TypeOK, Receive, At
  <2>2. S \in SUBSET Messages  BY <1>1
  <2> QED  BY <1>1, <1>2, <2>1, <2>2 DEF TypeOK, Moved, ConsumerState
<1> QED  BY <1>1, <1>2, <1>3, <1>4

LEMMA ProceedMoves ==
  ASSUME TypeOK, NEW c \in Consumers, NEW pc \in Steps, Proceed(c, pc)
  PROVE  \/ Moved(c, pc, consumer[c].cur) /\ UNCHANGED mishaps
         \/ Moved(c, "ready", NoMessage) /\ mishaps' = mishaps \cup {"failure"}
  BY GotoMoves, GiveUpMoves DEF Proceed, Failure

\* Whatever c does, it has a message in hand when it is at work.
LEMMA MovedTyped ==
  ASSUME TypeInv, NEW c \in Consumers, NEW pc, NEW cur, Moved(c, pc, cur),
         pc \in Storing \cup {"post", "delete"} => cur \in Messages
  PROVE  /\ consumer' \in [Consumers -> ConsumerState]
         /\ \A d \in Consumers : consumer'[d].pc \in Storing \cup {"post", "delete"} =>
              consumer'[d].cur \in Messages
  BY DEF TypeInv, Moved
-----------------------------------------------------------------------------
\* Every step keeps the types.
LEMMA TypeStep == TypeInv /\ [Next]_vars => TypeInv'
<1> SUFFICES ASSUME TypeInv, [Next]_vars PROVE TypeInv'  OBVIOUS
<1> USE IngestAssumption, KeysTyped
<1>t. TypeOK  BY DEF TypeInv
<1>p. \A pc \in Storing \cup {"ready", "post", "delete", "stopped"} : pc \in Steps
  BY DEF Steps, Storing
<1>f. mishaps \cup {"failure"} \subseteq {"failure", "timeout"}  BY <1>t DEF TypeOK
<1>1. CASE \/ Publish \/ PublishFails \/ Upgrade \/ GetQuarantined
           \/ \E k \in Keys : GetRaw(k) \/ \E m \in Messages : Expire(m) \/ Redrive(m)
  <2>1. UNCHANGED consumer
    BY <1>1 DEF Publish, PublishFails, Upgrade, GetQuarantined, GetRaw, Expire, Redrive
  <2>2. \A m : [queue EXCEPT ![m] = "visible"] \in [Messages -> QueueStates]
    BY <1>t DEF TypeOK, QueueStates
  <2>3. TypeOK'
    <3>1. CASE Publish  BY <1>t, <2>1, <2>2, <3>1 DEF TypeOK, Publish, s3
    <3>2. CASE PublishFails
      <4>1. queue' \in [Messages -> QueueStates]  BY <1>t, <2>2, <3>2 DEF TypeOK, PublishFails
      <4> QED  BY <1>t, <1>f, <2>1, <3>2, <4>1 DEF TypeOK, PublishFails, Failure, s3
    <3>3. CASE Upgrade  BY <1>t, <2>1, <3>3 DEF TypeOK, Upgrade, sqs
    <3>4. CASE GetQuarantined  BY <1>t, <2>1, <3>4 DEF TypeOK, GetQuarantined, Nobody, sqs, s3
    <3>5. ASSUME NEW k \in Keys, GetRaw(k) PROVE TypeOK'
      <4>1. reader' \in [asks : SUBSET Keys, settled : BOOLEAN]
        <5>1. Settled(k) \in BOOLEAN  BY DEF Settled
        <5>2. \E b \in BOOLEAN : reader' = [asks |-> {k}, settled |-> b]
          BY <3>5, <5>1, Zenon DEF GetRaw
        <5> QED  BY <5>2
      <4> QED  BY <1>t, <2>1, <3>5, <4>1 DEF TypeOK, GetRaw, sqs, s3
    <3>6. ASSUME NEW m \in Messages, Expire(m) PROVE TypeOK'
      BY <1>t, <2>1, <3>6 DEF TypeOK, Expire, QueueStates, s3
    <3>7. ASSUME NEW m \in Messages, Redrive(m) PROVE TypeOK'
      BY <1>t, <2>1, <3>7 DEF TypeOK, Redrive, QueueStates, s3
    <3> QED  BY <1>1, <3>1, <3>2, <3>3, <3>4, <3>5, <3>6, <3>7
  <2> QED  BY <2>1, <2>3 DEF TypeInv
<1>2. ASSUME NEW c \in Consumers, Receive(c) PROVE TypeInv'
  <2>1. /\ Moved(c, "ready", consumer[c].cur)
        /\ receives' \in [Messages -> 0 .. MaxReceive] /\ queue' \in [Messages -> QueueStates]
    BY <1>2, <1>t, ReceiveMoves
  <2> QED  BY <1>2, <1>t, <2>1, MovedTyped DEF TypeInv, TypeOK, Receive, Storing, s3
<1>3. ASSUME NEW c \in Consumers, Take(c) PROVE TypeInv'
  BY <1>3, <1>t, TakeMoves, MovedTyped DEF TypeInv, TypeOK, Take, sqs, s3
<1>4. ASSUME NEW c \in Consumers, Post(c) PROVE TypeInv'
  <2>1. Cur(c) \in Messages /\ CurKey(c) \in Keys
    BY <1>4 DEF TypeInv, Post, At, Cur, CurKey
  <2>2. claimed' \in SUBSET Keys  BY <1>4, <1>t, <2>1 DEF Post, TypeOK
  <2>3. \E pc \in {"head", "delete"} :
          \/ Proceed(c, pc)
          \/ Goto(c, pc) /\ Failure
          \/ GiveUp(c) /\ UNCHANGED mishaps
    <3>1. CASE Cur(c) \in Unbound  BY <1>4, <3>1 DEF Post
    <3>2. CASE Cur(c) \notin Unbound /\ CurKey(c) \in claimed  BY <1>4, <3>2 DEF Post
    <3>3. CASE Cur(c) \notin Unbound /\ CurKey(c) \notin claimed  BY <1>4, <3>3 DEF Post
    <3> QED  BY <3>1, <3>2, <3>3
  <2>4. mishaps' \subseteq {"failure", "timeout"} /\
        \E pc \in {"head", "delete", "ready"} : \E cur \in {consumer[c].cur, NoMessage} :
          Moved(c, pc, cur) /\ (pc # "ready" => cur = consumer[c].cur)
    BY <1>t, <1>p, <1>f, <2>3, GotoMoves, GiveUpMoves DEF Proceed, Failure, TypeOK, Storing
  <2>5. /\ consumer' \in [Consumers -> ConsumerState]
        /\ \A d \in Consumers : consumer'[d].pc \in Storing \cup {"post", "delete"} =>
              consumer'[d].cur \in Messages
    BY <2>1, <2>4, MovedTyped DEF Cur, Storing
  <2>6. UNCHANGED <<publishing, queue, receives, registry, raw, quarantine, reader>>
    BY <1>4 DEF Post, sqs, s3
  <2> QED  BY <1>t, <2>2, <2>4, <2>5, <2>6 DEF TypeInv, TypeOK
<1>5. ASSUME NEW c \in Consumers, HeadRegistry(c) PROVE TypeInv'
  <2>1. consumer[c].cur \in Messages  BY <1>5 DEF TypeInv, HeadRegistry, At, Storing
  <2>2. mishaps' \subseteq {"failure", "timeout"} /\
        \E pc \in {"create", "get"} : Moved(c, pc, consumer[c].cur)
    BY <1>5, <1>t, <1>p, <1>f, GotoMoves DEF HeadRegistry, Failure, TypeOK, Storing
  <2>3. UNCHANGED <<publishing, queue, receives, claimed, registry, raw, quarantine, reader>>
    BY <1>5 DEF HeadRegistry, sqs, s3
  <2> QED  BY <1>t, <2>1, <2>2, <2>3, MovedTyped DEF TypeInv, TypeOK
<1>6. ASSUME NEW c \in Consumers, CreateRegistry(c) \/ Store(c) PROVE TypeInv'
  <2>1. consumer[c].cur \in Messages /\ CurKey(c) \in Keys
    BY <1>6 DEF TypeInv, CreateRegistry, Store, At, Storing, CurKey
  <2>2. \E pc \in {"get", "delete"} : Proceed(c, pc)  BY <1>6 DEF CreateRegistry, Store
  <2>3. mishaps' \subseteq {"failure", "timeout"} /\
        \E pc \in {"get", "delete", "ready"} : \E cur \in {consumer[c].cur, NoMessage} :
          Moved(c, pc, cur) /\ (pc # "ready" => cur = consumer[c].cur)
    BY <1>t, <1>p, <1>f, <2>2, ProceedMoves DEF TypeOK, Storing
  <2>4. /\ consumer' \in [Consumers -> ConsumerState]
        /\ \A d \in Consumers : consumer'[d].pc \in Storing \cup {"post", "delete"} =>
              consumer'[d].cur \in Messages
    BY <2>1, <2>3, MovedTyped DEF Storing
  <2>5. /\ UNCHANGED <<publishing, queue, receives, claimed, reader>>
        /\ registry' \in {1, registry}
    BY <1>6 DEF CreateRegistry, Store, sqs
  <2>6. /\ raw' \in [Keys -> Messages \cup {NoMessage}]
        /\ quarantine' \in [Keys -> Messages \cup {NoMessage}]
    BY <1>6, <1>t, <2>1 DEF CreateRegistry, Store, TypeOK, Cur
  <2> QED  BY <1>t, <2>3, <2>4, <2>5, <2>6 DEF TypeInv, TypeOK
<1>7. ASSUME NEW c \in Consumers, ReadVersion(c) PROVE TypeInv'
  <2>1. consumer[c].cur \in Messages  BY <1>7 DEF TypeInv, ReadVersion, At, Storing
  <2> QED  BY <1>7, <1>t, <2>1, ReadVersionMoves, MovedTyped DEF TypeInv, TypeOK, ReadVersion, sqs, s3
<1>8. ASSUME NEW c \in Consumers, Delete(c) PROVE TypeInv'
  <2>1. Moved(c, "ready", NoMessage)  BY <1>8, <1>t, GiveUpMoves DEF Delete
  <2>2. queue' \in [Messages -> QueueStates]  BY <1>8, <1>t DEF Delete, TypeOK, QueueStates
  <2> QED  BY <1>8, <1>t, <2>1, <2>2, MovedTyped DEF TypeInv, TypeOK, Delete, Storing, s3
<1>9. ASSUME NEW c \in Consumers, CallFails(c) PROVE TypeInv'
  <2>1. Moved(c, "ready", NoMessage)  BY <1>9, <1>t, GiveUpMoves DEF CallFails
  <2> QED  BY <1>9, <1>t, <1>f, <2>1, MovedTyped DEF TypeInv, TypeOK, CallFails, Failure, Storing, sqs, s3
<1>10. ASSUME NEW c \in Consumers, Stop(c) PROVE TypeInv'
  <2>1. Moved(c, "stopped", consumer[c].cur)  BY <1>10, <1>t, <1>p, GotoMoves DEF Stop
  <2> QED  BY <1>10, <1>t, <2>1, MovedTyped DEF TypeInv, TypeOK, Stop, Storing, sqs, s3
<1>11. ASSUME NEW c \in Consumers, Start(c) \/ Crash(c) PROVE TypeInv'
  <2>1. \E pc \in {"ready", "stopped"} : Moved(c, pc, NoMessage)
    BY <1>11, <1>t, FreshMoves DEF Start, Crash
  <2>2. /\ UNCHANGED <<publishing, queue, receives, claimed, registry, raw, quarantine, reader>>
        /\ mishaps' \subseteq {"failure", "timeout"}
    BY <1>11, <1>t, <1>f DEF Start, Crash, Failure, TypeOK, sqs, s3
  <2> QED  BY <1>t, <2>1, <2>2, MovedTyped DEF TypeInv, TypeOK, Storing
<1>12. CASE UNCHANGED vars  BY <1>t, <1>12 DEF TypeInv, TypeOK, vars, sqs, s3
<1> QED
  BY <1>1, <1>2, <1>3, <1>4, <1>5, <1>6, <1>7, <1>8, <1>9, <1>10, <1>11, <1>12 DEF Next, Consume

LEMMA TypesHold == Spec => []TypeInv
<1>1. Init => TypeInv
  <2> SUFFICES ASSUME Init PROVE TypeInv  OBVIOUS
  <2>1. [m \in Messages |-> 0] \in [Messages -> 0 .. MaxReceive]  BY IngestAssumption
  <2>2. Fresh \in ConsumerState /\ Fresh.pc = "ready"
    BY <2>1, IngestAssumption DEF Fresh, ConsumerState, Steps
  <2>3. consumer \in [Consumers -> ConsumerState] /\ \A c \in Consumers : consumer[c].pc = "ready"
    BY <2>2 DEF Init
  <2>4. 0 \in 0 .. MaxVersion
    BY IngestAssumption
  <2> QED  BY <2>1, <2>3, <2>4 DEF Init, TypeInv, TypeOK, QueueStates, Storing, Nobody
<1> QED  BY <1>1, TypeStep, PTL DEF Spec

\* Type correctness of the ingestion path (publisher.py, consumer.py, validator.py), for any
\* number of consumers and messages: no message is ever received more than maxReceiveCount times.
THEOREM TypeCorrect == Spec => []TypeOK
<1>1. TypeInv => TypeOK  BY DEF TypeInv
<1> QED  BY <1>1, TypesHold, PTL
-----------------------------------------------------------------------------
(***************************************************************************)
(* From claim to object.  A consumer that stores has won its key at the    *)
(* gate, alone, and the key is in no bucket yet; whoever deletes a message *)
(* has been told that its key is claimed.                                  *)
(***************************************************************************)
Stores(c) == consumer[c].pc \in Storing

Chain ==
  /\ \A c \in Consumers : Stores(c) => CurKey(c) \in claimed /\ ~Stored(CurKey(c))
  /\ \A c, d \in Consumers : Stores(c) /\ Stores(d) /\ CurKey(c) = CurKey(d) => c = d
  /\ \A c \in Consumers : consumer[c].pc = "delete" => CurKey(c) \in claimed
  /\ \A k \in Keys : Stored(k) => k \in claimed
  /\ \A k \in Keys : raw[k] = NoMessage \/ quarantine[k] = NoMessage
  /\ \A m \in Messages : queue[m] = "deleted" => KeyOf[m] \in claimed

NoNewDeletion == \A m \in Messages : queue'[m] = "deleted" => queue[m] = "deleted"

\* A step in which no consumer comes closer to storing or deleting.
LEMMA ChainRests ==
  ASSUME TypeInv, Chain, UNCHANGED <<claimed, raw, quarantine>>, NoNewDeletion,
         \A d \in Consumers : consumer'[d] = consumer[d]
                              \/ consumer'[d].pc \in {"ready", "stopped", "post"}
  PROVE  Chain'
<1>1. \A d \in Consumers : (Stores(d)' \/ consumer'[d].pc = "delete") => consumer'[d] = consumer[d]
  BY DEF Stores, Storing
<1>2. \A k : Stored(k)' = Stored(k)  BY DEF Stored
<1> QED  BY <1>1, <1>2 DEF Chain, Stores, CurKey, NoNewDeletion

\* A consumer that stores goes on.
LEMMA ChainGoesOn ==
  ASSUME TypeInv, Chain, NEW c \in Consumers, Stores(c), NEW pc \in Storing,
         Moved(c, pc, consumer[c].cur), UNCHANGED <<claimed, raw, quarantine, queue>>
  PROVE  Chain'
<1>1. \A d \in Consumers : /\ Stores(d)' = Stores(d) /\ CurKey(d)' = CurKey(d)
                           /\ consumer'[d].pc = "delete" => consumer[d].pc = "delete"
  BY DEF Stores, CurKey, Moved, Storing
<1>2. \A k : Stored(k)' = Stored(k)  BY DEF Stored
<1> QED  BY <1>1, <1>2 DEF Chain

\* A consumer is told that the key of its message is claimed, by itself or not.
LEMMA ChainIsTold ==
  ASSUME TypeInv, Chain, NEW c \in Consumers, NEW pc \in {"head", "delete"},
         Moved(c, pc, consumer[c].cur), claimed' = claimed \cup {CurKey(c)},
         pc = "head" => CurKey(c) \notin claimed, UNCHANGED <<raw, quarantine, queue>>,
         CurKey(c) \in Keys
  PROVE  Chain'
<1>1. \A k : Stored(k)' = Stored(k)  BY DEF Stored
<1>2. \A d \in Consumers : /\ CurKey(d)' = CurKey(d)
                           /\ d # c => Stores(d)' = Stores(d) /\ consumer'[d] = consumer[d]
  BY DEF Stores, CurKey, Moved
<1>3. consumer'[c].pc = pc /\ (Stores(c)' => pc = "head")  BY DEF Moved, Stores, Storing
<1> QED  BY <1>1, <1>2, <1>3 DEF Chain

LEMMA ChainStep == TypeInv /\ Chain /\ [Next]_vars => Chain'
<1> SUFFICES ASSUME TypeInv, Chain, [Next]_vars PROVE Chain'  OBVIOUS
<1> USE IngestAssumption, KeysTyped
<1>t. TypeOK  BY DEF TypeInv
<1>p. \A pc \in Storing \cup {"ready", "post", "delete", "stopped"} : pc \in Steps
  BY DEF Steps, Storing
<1>1. CASE \/ Publish \/ PublishFails \/ Upgrade \/ GetQuarantined
           \/ \E k \in Keys : GetRaw(k) \/ \E m \in Messages : Expire(m) \/ Redrive(m)
  <2>1. UNCHANGED <<consumer, claimed, raw, quarantine>>
    BY <1>1 DEF Publish, PublishFails, Upgrade, GetQuarantined, GetRaw, Expire, Redrive, s3
  <2>2. NoNewDeletion
    BY <1>1, <1>t DEF Publish, PublishFails, Upgrade, GetQuarantined, GetRaw, Expire, Redrive,
                      sqs, NoNewDeletion, TypeOK
  <2> QED  BY <2>1, <2>2, ChainRests
<1>2. ASSUME NEW c \in Consumers, Receive(c) \/ Take(c) PROVE Chain'
  <2>1. \E pc \in {"ready", "post"} : \E cur : Moved(c, pc, cur)
    BY <1>2, <1>t, ReceiveMoves, TakeMoves
  <2>2. NoNewDeletion  BY <1>2, <1>t, ReceiveMoves DEF Take, sqs, NoNewDeletion
  <2>3. UNCHANGED <<claimed, raw, quarantine>>  BY <1>2 DEF Receive, Take, s3
  <2> QED  BY <2>1, <2>2, <2>3, ChainRests DEF Moved
<1>3. ASSUME NEW c \in Consumers, Post(c) PROVE Chain'
  <2>1. Cur(c) \in Messages /\ CurKey(c) \in Keys
    BY <1>3 DEF TypeInv, Post, At, Cur, CurKey
  <2>2. UNCHANGED <<raw, quarantine, queue>>  BY <1>3 DEF Post, sqs, s3
  <2>3. CASE Moved(c, "ready", NoMessage) /\ claimed' = claimed
    BY <2>2, <2>3, ChainRests DEF Moved, NoNewDeletion
  <2>4. CASE Moved(c, "ready", NoMessage) /\ claimed' = claimed \cup {CurKey(c)}
    <3>1. \A d \in Consumers : (Stores(d)' \/ consumer'[d].pc = "delete") =>
            consumer'[d] = consumer[d]
      BY <2>4 DEF Stores, Storing, Moved
    <3>2. \A k : Stored(k)' = Stored(k)  BY <2>2 DEF Stored
    <3> QED  BY <2>2, <2>4, <3>1, <3>2 DEF Chain, Stores, CurKey
  <2>5. ASSUME NEW pc \in {"head", "delete"}, Moved(c, pc, consumer[c].cur),
               claimed' = claimed \cup {CurKey(c)}, pc = "head" => CurKey(c) \notin claimed
        PROVE  Chain'
    BY <2>1, <2>2, <2>5, ChainIsTold
  <2>6. CASE Cur(c) \in Unbound
    BY <1>3, <1>t, <2>3, <2>6, GiveUpMoves DEF Post
  <2>7. CASE Cur(c) \notin Unbound /\ CurKey(c) \in claimed
    <3>1. Proceed(c, "delete") /\ claimed' = claimed /\ claimed' = claimed \cup {CurKey(c)}
      BY <1>3, <2>7 DEF Post
    <3>2. Moved(c, "delete", consumer[c].cur) \/ Moved(c, "ready", NoMessage)
      BY <1>t, <1>p, <3>1, ProceedMoves
    <3> QED  BY <2>3, <2>5, <3>1, <3>2
  <2>8. CASE Cur(c) \notin Unbound /\ CurKey(c) \notin claimed
    <3>1. (Proceed(c, "head") \/ Goto(c, "delete")) /\ claimed' = claimed \cup {CurKey(c)}
      BY <1>3, <2>8 DEF Post
    <3>2. \/ Moved(c, "head", consumer[c].cur) \/ Moved(c, "delete", consumer[c].cur)
          \/ Moved(c, "ready", NoMessage)
      <4>1. "head" \in Steps /\ "delete" \in Steps  BY DEF Steps
      <4> QED  BY <1>t, <3>1, <4>1, ProceedMoves, GotoMoves
    <3> QED  BY <2>4, <2>5, <2>8, <3>1, <3>2
  <2> QED  BY <2>6, <2>7, <2>8
<1>4. ASSUME NEW c \in Consumers, HeadRegistry(c) \/ ReadVersion(c) PROVE Chain'
  <2>1. \E pc \in {"create", "get", "store"} : Moved(c, pc, consumer[c].cur)
    <3>1. "create" \in Steps /\ "get" \in Steps  BY DEF Steps
    <3> QED  BY <1>4, <1>t, <3>1, GotoMoves, ReadVersionMoves DEF HeadRegistry
  <2>2. Stores(c)  BY <1>4 DEF HeadRegistry, ReadVersion, At, Stores, Storing
  <2>3. UNCHANGED <<claimed, raw, quarantine, queue>>
    BY <1>4 DEF HeadRegistry, ReadVersion, sqs, s3
  <2> QED  BY <2>1, <2>2, <2>3, ChainGoesOn DEF Storing
<1>5. ASSUME NEW c \in Consumers, CreateRegistry(c) PROVE Chain'
  <2>1. Moved(c, "get", consumer[c].cur) \/ Moved(c, "ready", NoMessage)
    <3>1. "get" \in Steps  BY DEF Steps
    <3> QED  BY <1>5, <1>t, <3>1, ProceedMoves DEF CreateRegistry
  <2>2. Stores(c)  BY <1>5 DEF CreateRegistry, At, Stores, Storing
  <2>3. UNCHANGED <<claimed, raw, quarantine, queue>>  BY <1>5 DEF CreateRegistry, sqs
  <2>4. CASE Moved(c, "get", consumer[c].cur)
    BY <2>2, <2>3, <2>4, ChainGoesOn DEF Storing
  <2>5. CASE Moved(c, "ready", NoMessage)
    BY <2>3, <2>5, ChainRests DEF Moved, NoNewDeletion
  <2> QED  BY <2>1, <2>4, <2>5
<1>6. ASSUME NEW c \in Consumers, Store(c) PROVE Chain'
  <2> DEFINE key == CurKey(c)
  <2>1. Cur(c) \in Messages /\ key \in Keys /\ Stores(c)
    BY <1>6 DEF TypeInv, Store, At, Cur, CurKey, Stores, Storing
  <2>2. key \in claimed /\ raw[key] = NoMessage /\ quarantine[key] = NoMessage
    BY <2>1 DEF Chain, Stored
  <2>3. /\ UNCHANGED <<claimed, queue>>
        /\ \A k \in Keys : k # key => raw'[k] = raw[k] /\ quarantine'[k] = quarantine[k]
        /\ raw'[key] = NoMessage \/ quarantine'[key] = NoMessage
    BY <1>6, <1>t, <2>2 DEF Store, sqs, TypeOK
  <2>4. Moved(c, "delete", consumer[c].cur) \/ Moved(c, "ready", NoMessage)
    <3>1. "delete" \in Steps  BY DEF Steps
    <3> QED  BY <1>6, <1>t, <3>1, ProceedMoves DEF Store
  <2>5. /\ ~Stores(c)' /\ (consumer'[c].pc = "delete" => CurKey(c)' = key)
        /\ \A d \in Consumers : d # c => consumer'[d] = consumer[d]
    BY <2>4 DEF Moved, Stores, Storing, CurKey
  <2>6. \A d \in Consumers : d # c /\ Stores(d) => CurKey(d) # key /\ CurKey(d) \in Keys
    <3>1. \A d \in Consumers : Stores(d) => CurKey(d) \in Keys
      BY DEF TypeInv, Stores, CurKey
    <3> QED  BY <2>1, <3>1 DEF Chain
  <2>7. \A k \in Keys : k # key => Stored(k)' = Stored(k)  BY <2>3 DEF Stored
  <2>8. \A d \in Consumers : d # c => Stores(d)' = Stores(d) /\ CurKey(d)' = CurKey(d)
    BY <2>5 DEF Stores, CurKey
  <2> HIDE DEF key
  <2>9. \A d \in Consumers : Stores(d)' => d # c /\ CurKey(d)' \in claimed' /\ ~Stored(CurKey(d))'
    <3>1. ASSUME NEW d \in Consumers, Stores(d)'
          PROVE  d # c /\ CurKey(d)' \in claimed' /\ ~Stored(CurKey(d))'
      <4>1. d # c /\ Stores(d)  BY <2>5, <2>8, <3>1
      <4>2. /\ CurKey(d)' = CurKey(d) /\ CurKey(d) \in Keys /\ CurKey(d) # key
            /\ CurKey(d) \in claimed /\ ~Stored(CurKey(d))
        BY <2>6, <2>8, <4>1 DEF Chain
      <4>3. ~Stored(CurKey(d))'  BY <2>3, <4>2 DEF Stored
      <4> QED  BY <2>3, <4>1, <4>2, <4>3
    <3> QED  BY <3>1
  <2>10. \A d, e \in Consumers : Stores(d)' /\ Stores(e)' /\ CurKey(d)' = CurKey(e)' => d = e
    BY <2>8, <2>9 DEF Chain
  <2>11. \A d \in Consumers : consumer'[d].pc = "delete" => CurKey(d)' \in claimed'
    BY <2>2, <2>3, <2>5, <2>8 DEF Chain
  <2>12. \A k \in Keys : (Stored(k)' => k \in claimed')
                       /\ (raw'[k] = NoMessage \/ quarantine'[k] = NoMessage)
    BY <2>2, <2>3, <2>7 DEF Chain
  <2>13. \A m \in Messages : queue'[m] = "deleted" => KeyOf[m] \in claimed'  BY <2>3 DEF Chain
  <2> QED  BY <2>9, <2>10, <2>11, <2>12, <2>13 DEF Chain
<1>7. ASSUME NEW c \in Consumers, Delete(c) PROVE Chain'
  <2> DEFINE m == Cur(c)
  <2>1. m \in Messages /\ KeyOf[m] \in claimed
    BY <1>7 DEF TypeInv, Chain, Delete, At, Cur, CurKey
  <2>2. /\ UNCHANGED <<claimed, raw, quarantine>> /\ Moved(c, "ready", NoMessage)
    BY <1>7, <1>t, GiveUpMoves DEF Delete, s3
  <2>3. \A n \in Messages : queue'[n] = "deleted" => n = m \/ queue[n] = "deleted"
    BY <1>7, <1>t DEF Delete, TypeOK
  <2>4. \A d \in Consumers : (Stores(d)' \/ consumer'[d].pc = "delete") =>
          consumer'[d] = consumer[d]
    BY <2>2 DEF Stores, Storing, Moved
  <2>5. \A k : Stored(k)' = Stored(k)  BY <2>2 DEF Stored
  <2> HIDE DEF m
  <2> QED  BY <2>1, <2>2, <2>3, <2>4, <2>5 DEF Chain, Stores, CurKey
<1>8. ASSUME NEW c \in Consumers, CallFails(c) \/ Stop(c) \/ Start(c) \/ Crash(c) PROVE Chain'
  <2>1. \E pc \in {"ready", "stopped"} : \E cur : Moved(c, pc, cur)
    <3>1. "stopped" \in Steps  BY DEF Steps
    <3> QED  BY <1>8, <1>t, <3>1, GiveUpMoves, GotoMoves, FreshMoves
             DEF CallFails, Stop, Start, Crash
  <2>2. UNCHANGED <<claimed, raw, quarantine, queue>>
    BY <1>8 DEF CallFails, Stop, Start, Crash, sqs, s3
  <2> QED  BY <2>1, <2>2, ChainRests DEF Moved, NoNewDeletion
<1>9. CASE UNCHANGED vars
  BY <1>9, ChainRests DEF vars, sqs, s3, NoNewDeletion
<1> QED  BY <1>1, <1>2, <1>3, <1>4, <1>5, <1>6, <1>7, <1>8, <1>9 DEF Next, Consume

LEMMA ChainHolds == Spec => []Chain
<1>1. Init => Chain  BY DEF Init, Chain, Stores, Storing, Stored, Fresh
<1> QED  BY <1>1, ChainStep, TypesHold, PTL DEF Spec

\* The exactly-once chain: no key is ever in two buckets, stored without a claim, or on its
\* way to storage twice (consumer.py:30-42, validator.py:68-83).
THEOREM OneObject == Spec => []ExactlyOneObject
<1>1. TypeInv /\ Chain => ExactlyOneObject
  BY DEF TypeInv, Chain, ExactlyOneObject, InHand, Stores, Storing
<1> QED  BY <1>1, ChainHolds, TypesHold, PTL

\* No message is acknowledged before the gate has decided its key (consumer.py:66-76).
THEOREM AckAfterClaim == Spec => []AckedIsClaimed
<1>1. Chain => AckedIsClaimed  BY DEF Chain, AckedIsClaimed
<1> QED  BY <1>1, ChainHolds, PTL

\* An object is never overwritten: put_object has no condition, the claim keeps every
\* second put away (validator.py:77-83).
THEOREM ObjectsAreFinal == Spec => ObjectsStay
<1>1. TypeInv /\ Chain /\ [Next]_vars =>
        [\A k \in Keys : Stored(k) => raw'[k] = raw[k] /\ quarantine'[k] = quarantine[k]]_vars
  <2> SUFFICES ASSUME TypeInv, Chain, Next, NEW k \in Keys, Stored(k)
               PROVE  raw'[k] = raw[k] /\ quarantine'[k] = quarantine[k]
    OBVIOUS
  <2>1. CASE UNCHANGED <<raw, quarantine>>  BY <2>1
  <2>2. ASSUME NEW c \in Consumers, Store(c), k = CurKey(c)
        PROVE  FALSE
    BY <2>2 DEF Store, At, Chain, Stores, Storing
  <2>3. ASSUME NEW c \in Consumers, Store(c), k # CurKey(c)
        PROVE  raw'[k] = raw[k] /\ quarantine'[k] = quarantine[k]
    BY <2>3 DEF Store, TypeInv, TypeOK
  <2>4. UNCHANGED <<raw, quarantine>> \/ \E c \in Consumers : Store(c)
    BY DEF Next, Consume, Publish, PublishFails, Upgrade, GetQuarantined, GetRaw, Expire, Redrive,
           Receive, Take, Post, HeadRegistry, CreateRegistry, ReadVersion, Delete, CallFails,
           Stop, Start, Crash, s3
  <2> QED  BY <2>1, <2>2, <2>3, <2>4
<1> QED  BY <1>1, ChainHolds, TypesHold, PTL DEF Spec, ObjectsStay
-----------------------------------------------------------------------------
(* As long as no call fails a claimed key is stored or being stored. *)

LEMMA InHandStores == \A k : InHand(k) <=> \E c \in Consumers : Stores(c) /\ CurKey(c) = k
  BY DEF InHand, Stores, Storing

Handled == \A k \in claimed : Stored(k) \/ \E c \in Consumers : Stores(c) /\ CurKey(c) = k

LEMMA HandledStep ==
  ASSUME TypeInv, Chain, Handled, [Next]_vars, "failure" \notin mishaps'
  PROVE  Handled'
<1> USE IngestAssumption, KeysTyped
<1>t. TypeOK  BY DEF TypeInv
\* A step in which no consumer stops storing.
<1>k. ASSUME UNCHANGED <<claimed, raw, quarantine>>,
             \A d \in Consumers : Stores(d) => Stores(d)' /\ CurKey(d)' = CurKey(d)
      PROVE  Handled'
  BY <1>k DEF Handled, Stored
<1>1. CASE \/ Publish \/ PublishFails \/ Upgrade \/ GetQuarantined
           \/ \E k \in Keys : GetRaw(k) \/ \E m \in Messages : Expire(m) \/ Redrive(m)
  <2>1. UNCHANGED <<consumer, claimed, raw, quarantine>>
    BY <1>1 DEF Publish, PublishFails, Upgrade, GetQuarantined, GetRaw, Expire, Redrive, s3
  <2> QED  BY <1>k, <2>1 DEF Stores, CurKey
<1>2. ASSUME NEW c \in Consumers, Receive(c) \/ Take(c) \/ Delete(c) \/ Stop(c) \/ Start(c)
      PROVE  Handled'
  <2>1. ~Stores(c) /\ UNCHANGED <<claimed, raw, quarantine>>
    BY <1>2 DEF Receive, Take, Delete, Stop, Start, At, Stores, Storing, s3
  <2>2. \A d \in Consumers : d # c => consumer'[d] = consumer[d]
    <3>1. "stopped" \in Steps  BY DEF Steps
    <3> QED  BY <1>2, <1>t, <3>1, ReceiveMoves, TakeMoves, GiveUpMoves, GotoMoves, FreshMoves
             DEF Moved, Delete, Stop, Start
  <2> QED  BY <1>k, <2>1, <2>2 DEF Stores, CurKey
<1>3. ASSUME NEW c \in Consumers, Post(c) PROVE Handled'
  <2>1. ~Stores(c) /\ UNCHANGED <<raw, quarantine>>
    BY <1>3 DEF Post, At, Stores, Storing, s3
  <2>2. "head" \in Steps /\ "delete" \in Steps  BY DEF Steps
  <2>3. ~Failure  BY DEF Failure
  <2>4. CASE claimed' = claimed
    <3>1. \A d \in Consumers : d # c => consumer'[d] = consumer[d]
      <4>1. GiveUp(c) \/ Proceed(c, "delete") \/ Proceed(c, "head") \/ Goto(c, "delete")
        BY <1>3 DEF Post
      <4> QED  BY <1>t, <2>2, <4>1, GiveUpMoves, GotoMoves, ProceedMoves DEF Moved
    <3> QED  BY <1>k, <2>1, <2>4, <3>1 DEF Stores, CurKey
  <2>5. CASE claimed' # claimed
    <3>1. Goto(c, "head") /\ claimed' = claimed \cup {CurKey(c)}
      BY <1>3, <2>3, <2>5 DEF Post, Proceed
    <3>2. Moved(c, "head", consumer[c].cur)  BY <1>t, <2>2, <3>1, GotoMoves
    <3>3. /\ Stores(c)' /\ CurKey(c)' = CurKey(c)
          /\ \A d \in Consumers : Stores(d) => Stores(d)' /\ CurKey(d)' = CurKey(d)
      BY <2>1, <3>2 DEF Moved, Stores, CurKey, Storing
    <3>4. \A k : Stored(k)' = Stored(k)  BY <2>1 DEF Stored
    <3> QED  BY <3>1, <3>3, <3>4 DEF Handled
  <2> QED  BY <2>4, <2>5
<1>4. ASSUME NEW c \in Consumers, HeadRegistry(c) \/ CreateRegistry(c) \/ ReadVersion(c)
      PROVE  Handled'
  <2>1. \E pc \in {"create", "get", "store"} : Moved(c, pc, consumer[c].cur)
    <3>1. "create" \in Steps /\ "get" \in Steps  BY DEF Steps
    <3> QED  BY <1>4, <1>t, <3>1, GotoMoves, ReadVersionMoves
             DEF HeadRegistry, CreateRegistry, Proceed, Failure
  <2>2. UNCHANGED <<claimed, raw, quarantine>>
    BY <1>4 DEF HeadRegistry, CreateRegistry, ReadVersion, s3
  <2> QED  BY <1>k, <2>1, <2>2 DEF Moved, Stores, CurKey, Storing
<1>5. ASSUME NEW c \in Consumers, Store(c) PROVE Handled'
  <2>1. Cur(c) \in Messages /\ CurKey(c) \in Keys
    BY <1>5 DEF TypeInv, Store, At, Cur, CurKey, Storing
  <2>2. UNCHANGED claimed /\ \A k \in Keys : Stored(k) \/ k = CurKey(c) => Stored(k)'
    <3>1. CASE Valid(c)
      <4>1. raw' = [raw EXCEPT ![CurKey(c)] = Cur(c)] /\ UNCHANGED <<claimed, quarantine>>
        BY <1>5, <3>1 DEF Store
      <4> QED  BY <1>t, <2>1, <4>1 DEF Stored, TypeOK
    <3>2. CASE ~Valid(c)
      <4>1. quarantine' = [quarantine EXCEPT ![CurKey(c)] = Cur(c)] /\ UNCHANGED <<claimed, raw>>
        BY <1>5, <3>2 DEF Store
      <4> QED  BY <1>t, <2>1, <4>1 DEF Stored, TypeOK
    <3> QED  BY <3>1, <3>2
  <2>3. Moved(c, "delete", consumer[c].cur)
    <3>1. "delete" \in Steps  BY DEF Steps
    <3> QED  BY <1>5, <1>t, <3>1, GotoMoves DEF Store, Proceed, Failure
  <2>4. \A d \in Consumers : d # c => Stores(d)' = Stores(d) /\ CurKey(d)' = CurKey(d)
    BY <2>3 DEF Moved, Stores, CurKey
  <2>5. claimed \subseteq Keys  BY <1>t DEF TypeOK
  <2> QED  BY <2>2, <2>4, <2>5 DEF Handled
<1>6. ASSUME NEW c \in Consumers, CallFails(c) \/ Crash(c) PROVE Handled'
  BY <1>6 DEF CallFails, Crash, Failure
<1>7. CASE UNCHANGED vars  BY <1>7, <1>k DEF vars, s3, Stores, CurKey
<1> QED  BY <1>1, <1>2, <1>3, <1>4, <1>5, <1>6, <1>7 DEF Next, Consume

\* A failure is not forgotten.
LEMMA FailuresStay == [Next]_vars => ("failure" \in mishaps => "failure" \in mishaps')
  BY DEF Next, Consume, Publish, PublishFails, Upgrade, GetQuarantined, GetRaw, Expire, Redrive,
         Receive, Take, Post, HeadRegistry, CreateRegistry, ReadVersion, Store, Delete, CallFails,
         Stop, Start, Crash, Proceed, Failure, vars

\* As long as no call failed and no consumer died, a refused key is in good hands: what is
\* claimed is stored or about to be, whatever timeouts redeliver (consumer.py:8-10).
THEOREM ClaimsAreHandled == Spec => []ClaimedIsHandled
<1> DEFINE Inv == "failure" \notin mishaps => Handled
<1>1. Init => Inv  BY DEF Init, Handled
<1>2. TypeInv /\ Chain /\ Inv /\ [Next]_vars => Inv'  BY HandledStep, FailuresStay
<1>3. Inv => ClaimedIsHandled  BY InHandStores DEF ClaimedIsHandled, Handled
<1> QED  BY <1>1, <1>2, <1>3, ChainHolds, TypesHold, PTL DEF Spec

\* A client that asks for a key after the pipeline was done with it finds it, in whichever of
\* the two buckets it is and however the two reads fall (api.py:30-47).
THEOREM FoundOnceAcked == Spec => []AckedIsFound
<1>1. Init => AckedIsFound  BY DEF Init, AckedIsFound, Nobody
<1>2. TypeInv /\ Chain /\ ClaimedIsHandled /\ AckedIsFound /\ [Next]_vars => AckedIsFound'
  <2> SUFFICES ASSUME TypeInv, Chain, ClaimedIsHandled, AckedIsFound, [Next]_vars,
                      "failure" \notin mishaps', reader'.settled, NEW k \in reader'.asks
               PROVE  quarantine'[k] # NoMessage
    BY DEF AckedIsFound
  <2>1. "failure" \notin mishaps  BY FailuresStay
  <2>2. CASE \E j \in Keys : GetRaw(j)
    <3>1. PICK j \in Keys : GetRaw(j)  BY <2>2
    <3>2. /\ k = j /\ raw[j] = NoMessage /\ Settled(j) /\ UNCHANGED quarantine
      BY <3>1 DEF GetRaw, s3
    <3>3. j \in claimed /\ ~InHand(j)  BY <3>2 DEF Settled, Chain
    <3>4. Stored(j)  BY <2>1, <3>3 DEF ClaimedIsHandled
    <3> QED  BY <3>2, <3>4 DEF Stored
  <2>3. CASE ~\E j \in Keys : GetRaw(j)
    <3>1. reader' = reader \/ reader' = Nobody
      BY <2>3 DEF Next, Consume, Publish, PublishFails, Upgrade, GetQuarantined, Expire, Redrive,
         Receive, Take, Post, HeadRegistry, CreateRegistry, ReadVersion, Store, Delete, CallFails,
         Stop, Start, Crash, vars
    <3>2. reader.settled /\ k \in reader.asks  BY <3>1 DEF Nobody
    <3>3. quarantine[k] # NoMessage /\ k \in Keys
      BY <2>1, <3>2 DEF AckedIsFound, TypeInv, TypeOK
    <3>4. quarantine' = quarantine \/ \E c \in Consumers : Store(c)
      BY <2>3 DEF Next, Consume, Publish, PublishFails, Upgrade, GetQuarantined, Expire, Redrive,
         Receive, Take, Post, HeadRegistry, CreateRegistry, ReadVersion, Delete, CallFails,
         Stop, Start, Crash, vars, s3
    <3>5. ASSUME NEW c \in Consumers, Store(c) PROVE quarantine'[k] # NoMessage
      <4>1. Cur(c) \in Messages  BY <3>5 DEF TypeInv, Store, At, Cur, Storing
      <4> QED  BY <3>3, <3>5, <4>1, IngestAssumption, KeysTyped DEF Store, TypeInv, TypeOK
    <3> QED  BY <3>3, <3>4, <3>5
  <2> QED  BY <2>2, <2>3
<1> QED  BY <1>1, <1>2, ClaimsAreHandled, ChainHolds, TypesHold, PTL DEF Spec
-----------------------------------------------------------------------------
(***************************************************************************)
(* Until something goes wrong a message the gate can bind is received      *)
(* once, by a consumer that holds it, with its latest receipt, until it    *)
(* deletes it.                                                             *)
(***************************************************************************)
Orderly ==
  /\ \A c \in Consumers : /\ consumer[c].pc \in {"ready", "stopped"} => consumer[c].cur = NoMessage
                          /\ consumer[c].pc = "stopped" => consumer[c].held = {}
                          /\ consumer[c].cur \notin consumer[c].held
  /\ \A m \in Messages \ Unbound :
       /\ queue[m] # "dead"
       /\ queue[m] \in {"unsent", "visible"} => receives[m] = 0
       /\ queue[m] = "inflight" => \E c \in Consumers : Holds(c, m)
  /\ \A c \in Consumers : \A m \in Messages \ Unbound : Holds(c, m) =>
       /\ queue[m] = "inflight" /\ consumer[c].receipt[m] = receives[m]
       /\ \A d \in Consumers : Holds(d, m) => d = c

\* Nothing that went wrong is forgotten.
LEMMA MishapsStay == TypeInv /\ [Next]_vars => (mishaps' = {} => mishaps = {})
  BY DEF Next, Consume, Publish, PublishFails, Upgrade, GetQuarantined, GetRaw, Expire, Redrive,
         Receive, Take, Post, HeadRegistry, CreateRegistry, ReadVersion, Store, Delete, CallFails,
         Stop, Start, Crash, Proceed, Failure, vars

\* Consumer c goes to another step of the message it has in hand.
GoesOn(c, pc) ==
  /\ \A d \in Consumers : /\ consumer'[d].cur = consumer[d].cur
                          /\ consumer'[d].held = consumer[d].held
                          /\ consumer'[d].receipt = consumer[d].receipt
                          /\ d # c => consumer'[d].pc = consumer[d].pc
  /\ consumer'[c].pc = pc

LEMMA GotoGoesOn ==
  ASSUME TypeOK, NEW c \in Consumers, NEW pc,
         Goto(c, pc) \/ (ReadVersion(c) /\ pc = "store")
  PROVE  GoesOn(c, pc)
  BY DEF TypeOK, ConsumerState, Goto, ReadVersion, GoesOn

LEMMA OrderlyGoesOn ==
  ASSUME Orderly, UNCHANGED sqs, NEW c \in Consumers, NEW pc, GoesOn(c, pc),
         pc \in {"ready", "stopped"} => consumer[c].cur = NoMessage,
         pc = "stopped" => consumer[c].held = {}
  PROVE  Orderly'
<1>1. /\ \A d \in Consumers : /\ consumer'[d].cur = consumer[d].cur
                              /\ consumer'[d].held = consumer[d].held
                              /\ consumer'[d].receipt = consumer[d].receipt
                              /\ d # c => consumer'[d].pc = consumer[d].pc
      /\ consumer'[c].pc = pc
  BY DEF GoesOn
<1>2. \A d \in Consumers : \A m \in Messages : Holds(d, m)' <=> Holds(d, m)  BY <1>1 DEF Holds
<1>3. \A d \in Consumers : /\ consumer'[d].pc \in {"ready", "stopped"} => consumer'[d].cur = NoMessage
                           /\ consumer'[d].pc = "stopped" => consumer'[d].held = {}
                           /\ consumer'[d].cur \notin consumer'[d].held
  BY <1>1 DEF Orderly
<1> QED  BY <1>1, <1>2, <1>3 DEF Orderly, sqs

\* A consumer gives up a message the gate cannot bind, or one it has just deleted.
LEMMA OrderlyGivesUp ==
  ASSUME TypeInv, Orderly, NEW c \in Consumers, GiveUp(c), UNCHANGED receives,
         consumer[c].pc \notin {"ready", "stopped"},
         \/ consumer[c].cur \in Unbound /\ UNCHANGED queue
         \/ queue' = [queue EXCEPT ![consumer[c].cur] = "deleted"]
  PROVE  Orderly'
<1> USE IngestAssumption
<1>c. consumer[c].cur \in Messages
  <2>1. consumer[c].pc \in Storing \cup {"post", "delete"}
    BY DEF TypeInv, TypeOK, ConsumerState, Steps, Storing
  <2> QED  BY <2>1 DEF TypeInv
<1>1. /\ \A d \in Consumers : d # c => consumer'[d] = consumer[d]
      /\ consumer'[c].cur = NoMessage /\ consumer'[c].pc = "ready"
      /\ consumer'[c].held = consumer[c].held /\ consumer'[c].receipt = consumer[c].receipt
  BY DEF TypeInv, TypeOK, ConsumerState, GiveUp
<1>2. \A d \in Consumers : \A m \in Messages \ Unbound :
        /\ Holds(d, m)' => Holds(d, m) /\ m # consumer[c].cur
        /\ Holds(d, m) /\ m # consumer[c].cur => Holds(d, m)'
  <2> SUFFICES ASSUME NEW d \in Consumers, NEW m \in Messages \ Unbound
               PROVE  /\ Holds(d, m)' => Holds(d, m) /\ m # consumer[c].cur
                      /\ Holds(d, m) /\ m # consumer[c].cur => Holds(d, m)'
    OBVIOUS
  <2>1. CASE d = c
    <3>1. consumer[c].cur \notin consumer[c].held /\ m # NoMessage  BY DEF Orderly
    <3> QED  BY <1>1, <2>1, <3>1 DEF Holds
  <2>2. CASE d # c
    <3>1. Holds(d, m)' = Holds(d, m)  BY <1>1, <2>2 DEF Holds
    <3>2. m = consumer[c].cur => ~Holds(d, m)  BY <2>2 DEF Orderly, Holds
    <3> QED  BY <3>1, <3>2
  <2> QED  BY <2>1, <2>2
<1>3. \A m \in Messages \ Unbound : /\ m # consumer[c].cur => queue'[m] = queue[m]
                                    /\ m = consumer[c].cur => queue'[m] = "deleted"
  BY <1>c DEF TypeInv, TypeOK
<1>4. \A d \in Consumers : /\ consumer'[d].pc \in {"ready", "stopped"} => consumer'[d].cur = NoMessage
                           /\ consumer'[d].pc = "stopped" => consumer'[d].held = {}
                           /\ consumer'[d].cur \notin consumer'[d].held
                           /\ consumer'[d].receipt = consumer[d].receipt
  BY <1>1 DEF Orderly, TypeInv, TypeOK, ConsumerState
<1>5. \A m \in Messages \ Unbound :
       /\ queue'[m] # "dead"
       /\ queue'[m] \in {"unsent", "visible"} => receives'[m] = 0
       /\ queue'[m] = "inflight" => \E d \in Consumers : Holds(d, m)'
  BY <1>2, <1>3 DEF Orderly
<1>6. \A d \in Consumers : \A m \in Messages \ Unbound : Holds(d, m)' =>
       /\ queue'[m] = "inflight" /\ consumer'[d].receipt[m] = receives'[m]
       /\ \A e \in Consumers : Holds(e, m)' => e = d
  BY <1>2, <1>3, <1>4 DEF Orderly
<1> QED  BY <1>4, <1>5, <1>6 DEF Orderly

\* Nobody held what is received, and its receiver held nothing.
LEMMA OrderlyReceive ==
  ASSUME TypeInv, Orderly, NEW c \in Consumers, Receive(c)
  PROVE  Orderly'
<1> USE IngestAssumption
<1>1. PICK S \in SUBSET {m \in Messages : queue[m] = "visible" /\ receives[m] < MaxReceive} :
        /\ queue' = [m \in Messages |-> IF m \in S THEN "inflight" ELSE queue[m]]
        /\ receives' = [m \in Messages |-> IF m \in S THEN receives[m] + 1 ELSE receives[m]]
        /\ consumer' = [consumer EXCEPT ![c].held = S, ![c].receipt = receives']
  BY DEF Receive
<1>2. /\ \A d \in Consumers : /\ consumer'[d].cur = consumer[d].cur
                              /\ consumer'[d].pc = consumer[d].pc
                              /\ d # c => consumer'[d] = consumer[d]
      /\ consumer'[c].held = S /\ consumer'[c].receipt = receives'
  <2>1. consumer \in [Consumers -> ConsumerState] /\ consumer[c] \in ConsumerState
    BY DEF TypeInv, TypeOK
  <2>2. consumer' = [consumer EXCEPT ![c] = [consumer[c] EXCEPT !.held = S, !.receipt = receives']]
    BY <1>1, <2>1 DEF ConsumerState
  <2>3. \A d \in Consumers : d # c => consumer'[d] = consumer[d]  BY <2>1, <2>2
  <2>4. consumer'[c] = [consumer[c] EXCEPT !.held = S, !.receipt = receives']  BY <2>1, <2>2
  <2>5. /\ consumer'[c].held = S /\ consumer'[c].receipt = receives'
        /\ consumer'[c].cur = consumer[c].cur /\ consumer'[c].pc = consumer[c].pc
    BY <2>1, <2>4 DEF ConsumerState
  <2> QED  BY <2>3, <2>5
<1>3. consumer[c].pc = "ready" /\ consumer[c].cur = NoMessage /\ consumer[c].held = {}
  BY DEF Receive, At, Orderly
<1>4. \A m \in S : m \in Messages /\ queue[m] = "visible" /\ m # NoMessage  BY <1>1
<1>5. \A m \in Messages : /\ Holds(c, m)' <=> m \in S
                          /\ ~Holds(c, m)
                          /\ \A d \in Consumers : d # c => (Holds(d, m)' <=> Holds(d, m))
  BY <1>2, <1>3 DEF Holds
<1>6. \A m \in Messages : /\ m \in S => queue'[m] = "inflight"
                          /\ m \notin S => queue'[m] = queue[m] /\ receives'[m] = receives[m]
  BY <1>1
<1>7. \A d \in Consumers : /\ consumer'[d].pc \in {"ready", "stopped"} => consumer'[d].cur = NoMessage
                           /\ consumer'[d].pc = "stopped" => consumer'[d].held = {}
                           /\ consumer'[d].cur \notin consumer'[d].held
  BY <1>2, <1>3, <1>4 DEF Orderly
<1>8. \A m \in Messages \ Unbound : \A d \in Consumers : d # c /\ Holds(d, m) => m \notin S
  BY <1>4 DEF Orderly
<1>9. \A m \in Messages \ Unbound :
       /\ queue'[m] # "dead"
       /\ queue'[m] \in {"unsent", "visible"} => receives'[m] = 0
       /\ queue'[m] = "inflight" => \E d \in Consumers : Holds(d, m)'
  BY <1>5, <1>6, <1>8 DEF Orderly
<1>10. \A d \in Consumers : \A m \in Messages \ Unbound : Holds(d, m)' =>
       /\ queue'[m] = "inflight" /\ consumer'[d].receipt[m] = receives'[m]
       /\ \A e \in Consumers : Holds(e, m)' => e = d
  BY <1>2, <1>5, <1>6, <1>8 DEF Orderly
<1> QED  BY <1>7, <1>9, <1>10 DEF Orderly

\* What is in hand stays in hand.
LEMMA OrderlyTake ==
  ASSUME TypeInv, Orderly, NEW c \in Consumers, Take(c)
  PROVE  Orderly'
<1>1. PICK m \in consumer[c].held :
        consumer' = [consumer EXCEPT ![c].pc = "post", ![c].cur = m, ![c].held = @ \ {m}]
  BY DEF Take
<1>2. /\ \A d \in Consumers : d # c => consumer'[d] = consumer[d]
      /\ consumer'[c].pc = "post" /\ consumer'[c].cur = m
      /\ consumer'[c].held = consumer[c].held \ {m}
      /\ \A d \in Consumers : consumer'[d].receipt = consumer[d].receipt
  BY <1>1 DEF TypeInv, TypeOK, ConsumerState
<1>3. consumer[c].cur = NoMessage  BY DEF Take, At, Orderly
<1>4. \A d \in Consumers : \A x \in Messages : Holds(d, x)' <=> Holds(d, x)
  BY <1>2, <1>3, IngestAssumption DEF Holds
<1>5. \A d \in Consumers : /\ consumer'[d].pc \in {"ready", "stopped"} => consumer'[d].cur = NoMessage
                           /\ consumer'[d].pc = "stopped" => consumer'[d].held = {}
                           /\ consumer'[d].cur \notin consumer'[d].held
  BY <1>2 DEF Orderly
<1>6. UNCHANGED sqs  BY DEF Take
<1> QED  BY <1>2, <1>4, <1>5, <1>6 DEF Orderly, sqs

\* A publication, and a timeout that comes when nobody holds the message.
LEMMA OrderlyQueue ==
  ASSUME TypeInv, Orderly, UNCHANGED <<consumer, receives>>, NEW m \in Messages,
         queue' = [queue EXCEPT ![m] = "visible"],
         queue[m] = "unsent" \/ (queue[m] = "inflight" /\ \A c \in Consumers : ~Holds(c, m))
  PROVE  Orderly'
<1>1. \A c \in Consumers : \A x \in Messages : Holds(c, x)' <=> Holds(c, x)  BY DEF Holds
<1>2. m \notin Unbound => queue[m] = "unsent" /\ receives[m] = 0  BY DEF Orderly
<1>3. \A x \in Messages \ Unbound : /\ x # m => queue'[x] = queue[x]
                                    /\ x = m => queue'[x] = "visible"
  BY DEF TypeInv, TypeOK
<1>4. \A c \in Consumers : m \notin Unbound => ~Holds(c, m)  BY <1>2 DEF Orderly
<1> QED  BY <1>1, <1>2, <1>3, <1>4 DEF Orderly

\* A consumer that is started again held nothing, and holds nothing.
LEMMA OrderlyStart ==
  ASSUME TypeInv, Orderly, NEW c \in Consumers, Start(c)
  PROVE  Orderly'
<1>1. /\ \A d \in Consumers : d # c => consumer'[d] = consumer[d]
      /\ consumer'[c].held = {} /\ consumer'[c].cur = NoMessage /\ consumer'[c].pc = "ready"
  BY DEF TypeInv, TypeOK, Start, Fresh
<1>2. consumer[c].held = {} /\ consumer[c].cur = NoMessage  BY DEF Start, At, Orderly
<1>3. \A m \in Messages : /\ ~Holds(c, m) /\ ~Holds(c, m)'
                          /\ \A d \in Consumers : d # c => (Holds(d, m)' <=> Holds(d, m))
  BY <1>1, <1>2, IngestAssumption DEF Holds
<1>4. UNCHANGED sqs  BY DEF Start
<1> QED  BY <1>1, <1>3, <1>4 DEF Orderly, sqs

\* A message that goes to the dead-letter queue has been received before.
LEMMA OrderlyRedrive ==
  ASSUME TypeInv, Orderly, NEW m \in Messages, Redrive(m)
  PROVE  Orderly'
<1>1. m \in Unbound  BY IngestAssumption DEF Orderly, Redrive
<1>2. \A x \in Messages \ Unbound : queue'[x] = queue[x]
  BY <1>1 DEF Redrive, TypeInv, TypeOK
<1>3. UNCHANGED <<consumer, receives>>  BY DEF Redrive
<1>4. \A c \in Consumers : \A x \in Messages : Holds(c, x)' <=> Holds(c, x)  BY <1>3 DEF Holds
<1> QED  BY <1>2, <1>3, <1>4 DEF Orderly

\* A receipt that has not been outdated deletes the message in hand.
LEMMA OrderlyDelete ==
  ASSUME TypeInv, Orderly, NEW c \in Consumers, Delete(c)
  PROVE  Orderly'
<1>1. /\ GiveUp(c) /\ UNCHANGED receives /\ consumer[c].pc = "delete"
      /\ consumer[c].cur \in Messages /\ Holds(c, consumer[c].cur)
  BY DEF Delete, Cur, At, TypeInv, Holds
<1>2. consumer[c].cur \notin Unbound =>
        queue[consumer[c].cur] = "inflight"
        /\ consumer[c].receipt[consumer[c].cur] = receives[consumer[c].cur]
  BY <1>1 DEF Orderly
<1>3. \/ consumer[c].cur \in Unbound /\ UNCHANGED queue
      \/ queue' = [queue EXCEPT ![consumer[c].cur] = "deleted"]
  BY <1>2 DEF Delete, Cur
<1> QED  BY <1>1, <1>3, OrderlyGivesUp

LEMMA OrderlyStep ==
  ASSUME TypeInv, Orderly, [Next]_vars, mishaps' = {}
  PROVE  Orderly'
<1>t. TypeOK  BY DEF TypeInv
<1>f. ~Failure  BY DEF Failure
<1>1. ASSUME UNCHANGED <<sqs, consumer>> PROVE Orderly'
  <2>1. \A c \in Consumers : \A m \in Messages : Holds(c, m)' <=> Holds(c, m)  BY <1>1 DEF Holds
  <2> QED  BY <1>1, <2>1 DEF Orderly, sqs
<1>2. CASE Upgrade \/ GetQuarantined \/ (\E k \in Keys : GetRaw(k)) \/ UNCHANGED vars
  BY <1>1, <1>2 DEF Upgrade, GetQuarantined, GetRaw, vars
<1>3. CASE Publish
  <2>1. PICK m \in Messages : queue[m] = "unsent" /\ queue' = [queue EXCEPT ![m] = "visible"]
    BY <1>3 DEF Publish, Unpublished
  <2>2. UNCHANGED <<consumer, receives>>  BY <1>3 DEF Publish
  <2> QED  BY <2>1, <2>2, OrderlyQueue
<1>4. ASSUME NEW m \in Messages, Expire(m) PROVE Orderly'
  <2>1. \A c \in Consumers : ~Holds(c, m)  BY <1>4 DEF Expire
  <2>2. /\ queue[m] = "inflight" /\ queue' = [queue EXCEPT ![m] = "visible"]
        /\ UNCHANGED <<consumer, receives>>
    BY <1>4 DEF Expire
  <2> QED  BY <2>1, <2>2, OrderlyQueue
<1>5. ASSUME NEW m \in Messages, Redrive(m) PROVE Orderly'  BY <1>5, OrderlyRedrive
<1>6. ASSUME NEW c \in Consumers, Receive(c) PROVE Orderly'  BY <1>6, OrderlyReceive
<1>7. ASSUME NEW c \in Consumers, Take(c) PROVE Orderly'  BY <1>7, OrderlyTake
<1>8. ASSUME NEW c \in Consumers, Delete(c) PROVE Orderly'  BY <1>8, OrderlyDelete
<1>9. ASSUME NEW c \in Consumers, Start(c) PROVE Orderly'  BY <1>9, OrderlyStart
<1>10. ASSUME NEW c \in Consumers, Stop(c) PROVE Orderly'
  <2>1. Goto(c, "stopped") /\ UNCHANGED sqs /\ consumer[c].cur = NoMessage /\ consumer[c].held = {}
    BY <1>10 DEF Stop, At, Orderly
  <2>2. GoesOn(c, "stopped")  BY <1>t, <2>1, GotoGoesOn
  <2> QED  BY <2>1, <2>2, OrderlyGoesOn
<1>11. ASSUME NEW c \in Consumers, NEW pc \in {"head", "create", "get", "store", "delete"},
              Goto(c, pc) \/ (ReadVersion(c) /\ pc = "store"), UNCHANGED sqs
       PROVE  Orderly'
  <2>1. GoesOn(c, pc)  BY <1>11, <1>t, GotoGoesOn
  <2> QED  BY <1>11, <2>1, OrderlyGoesOn
<1>12. ASSUME NEW c \in Consumers, Post(c) PROVE Orderly'
  <2>1. CASE Cur(c) \in Unbound
    <3>1. GiveUp(c) /\ UNCHANGED <<queue, receives>> /\ consumer[c].pc = "post"
      BY <1>12, <2>1 DEF Post, sqs, At
    <3> QED  BY <2>1, <3>1, OrderlyGivesUp DEF Cur
  <2>2. CASE Cur(c) \notin Unbound
    <3>1. Goto(c, "delete") \/ Goto(c, "head")
      BY <1>12, <1>f, <2>2 DEF Post, Proceed
    <3>2. UNCHANGED sqs  BY <1>12 DEF Post
    <3> QED  BY <1>11, <3>1, <3>2
  <2> QED  BY <2>1, <2>2
<1>13. ASSUME NEW c \in Consumers, HeadRegistry(c) \/ CreateRegistry(c) \/ Store(c) PROVE Orderly'
  <2>1. \E pc \in {"create", "get", "delete"} : Goto(c, pc)
    BY <1>13, <1>f DEF HeadRegistry, CreateRegistry, Store, Proceed
  <2>2. UNCHANGED sqs  BY <1>13 DEF HeadRegistry, CreateRegistry, Store
  <2> QED  BY <1>11, <2>1, <2>2
<1>14. ASSUME NEW c \in Consumers, ReadVersion(c) PROVE Orderly'
  <2>1. UNCHANGED sqs  BY <1>14 DEF ReadVersion
  <2> QED  BY <1>11, <1>14, <2>1
<1>15. ~PublishFails /\ \A c \in Consumers : ~CallFails(c) /\ ~Crash(c)
  BY <1>f DEF PublishFails, CallFails, Crash
<1>16. ASSUME NEW c \in Consumers, Consume(c) PROVE Orderly'
  BY <1>6, <1>7, <1>8, <1>12, <1>13, <1>14, <1>16 DEF Consume
<1>17. ASSUME \E m \in Messages : Expire(m) \/ Redrive(m) PROVE Orderly'
  BY <1>4, <1>5, <1>17
<1>18. ASSUME \E c \in Consumers : Consume(c) \/ Stop(c) \/ Start(c) PROVE Orderly'
  BY <1>9, <1>10, <1>16, <1>18
<1> QED  BY <1>2, <1>3, <1>15, <1>17, <1>18 DEF Next

\* Until a call fails or a timeout comes early, a message that ends in the dead-letter queue is
\* one the gate cannot bind (consumer.py:72-76, the redrive policy of bootstrap.py:104-109).
THEOREM OnlyRefusedDie == Spec => []DeadWasRefused
<1> DEFINE Inv == mishaps = {} => Orderly
<1>1. Init => Inv
  <2> SUFFICES ASSUME Init PROVE Orderly  OBVIOUS
  <2>1. \A c \in Consumers : consumer[c].pc = "ready" /\ consumer[c].held = {}
                             /\ consumer[c].cur = NoMessage
    BY DEF Init, Fresh
  <2>2. \A m \in Messages : queue[m] = "unsent" /\ receives[m] = 0  BY DEF Init
  <2>3. \A c \in Consumers : \A m \in Messages : ~Holds(c, m)  BY <2>1, IngestAssumption DEF Holds
  <2> QED  BY <2>1, <2>2, <2>3 DEF Orderly
<1>2. TypeInv /\ Inv /\ [Next]_vars => Inv'  BY OrderlyStep, MishapsStay
<1>3. Inv => DeadWasRefused  BY DEF DeadWasRefused, Orderly
<1> QED  BY <1>1, <1>2, <1>3, TypesHold, PTL DEF Spec
=============================================================================
