------------------------------- MODULE Ingest -------------------------------
(***************************************************************************)
(* The ingestion path behind the producers: data_gen.py writes a file of   *)
(* events, publisher.py puts them on the bus, consumer.py takes them from  *)
(* the validation queue, asks the gate, and has validator.py store what    *)
(* the gate accepts in txn-raw or txn-quarantine.  A consumer works        *)
(* through a batch of messages, one remote call at a time; calls fail,     *)
(* consumers die, messages come back.                                      *)
(*                                                                         *)
(* The gate appears here as what AcceptOnce promises.  SQS and S3 are      *)
(* external: SQS hands out a message again when its visibility timeout     *)
(* passes and moves it to the dead-letter queue instead of a receive too   *)
(* many; an S3 put is atomic and overwrites.                               *)
(***************************************************************************)
EXTENDS Naturals, FiniteSets

CONSTANTS
  Consumers,     \* runs of consumer.py
  Messages,      \* the events in the published file
  Origin,        \* the event a message was copied from: for a retry another, else itself
  Unbound,       \* those the gate cannot bind (400) or that are no JSON
  Version,       \* the schema_version of each
  Malformed,     \* those that miss a field, or whose amount is no positive integer
  Asked,         \* the keys a client of the API asks for
  NoMessage,     \* nothing in hand; no object under a key
  BatchSize,     \* MaxNumberOfMessages
  MaxReceive,    \* maxReceiveCount of the redrive policy
  Lossy,         \* may remote calls fail, with or without effect?
  Expiry,        \* may a message's visibility time out while it is worked on?
  MaxVersion     \* bound on the registry's schema version

\* gen_event draws a key for each event, a retry copies that of its original: an
\* event names the key it was drawn for.
KeyOf == Origin
Keys  == {KeyOf[m] : m \in Messages}

ASSUME IngestAssumption ==
  /\ IsFiniteSet(Messages) /\ NoMessage \notin Messages
  /\ Origin \in [Messages -> Messages] /\ Version \in [Messages -> Nat]
  /\ Unbound \subseteq Messages /\ Malformed \subseteq Messages /\ Asked \subseteq Keys
  /\ BatchSize \in Nat \ {0} /\ MaxReceive \in Nat \ {0}
  /\ Lossy \in BOOLEAN /\ Expiry \in BOOLEAN
  /\ MaxVersion \in Nat \ {0}

VARIABLES
  publishing,  \* has the publisher not failed?
  queue,       \* queue[m]: where message m is
  receives,    \* receives[m]: how often it has been received
  consumer,    \* the state of each consumer
  claimed,     \* the keys the gate has accepted
  registry,    \* current_version in the schema registry, 0 when absent
  raw,         \* txn-raw: raw[k] is the event stored under valid/k.json
  quarantine,  \* txn-quarantine, likewise
  reader,      \* a GET /txn/{key} between its two calls: the key, and (history) whether
               \* the pipeline was done with it when the first one was answered
  mishaps      \* history: have calls failed or consumers died, or timeouts come early?
s3   == <<registry, raw, quarantine>>
sqs  == <<queue, receives>>
vars == <<publishing, sqs, consumer, claimed, s3, reader, mishaps>>
-----------------------------------------------------------------------------
Fresh == [pc |-> "ready", held |-> {}, cur |-> NoMessage,
          receipt |-> [m \in Messages |-> 0], expected |-> 0]

Nobody == [asks |-> {}, settled |-> FALSE]

Init ==
  /\ publishing = TRUE
  /\ queue = [m \in Messages |-> "unsent"] /\ receives = [m \in Messages |-> 0]
  /\ consumer = [c \in Consumers |-> Fresh]
  /\ claimed = {} /\ registry = 0
  /\ raw = [k \in Keys |-> NoMessage] /\ quarantine = [k \in Keys |-> NoMessage]
  /\ reader = Nobody /\ mishaps = {}
-----------------------------------------------------------------------------
At(c, step) == consumer[c].pc = step
Cur(c)      == consumer[c].cur
CurKey(c)   == KeyOf[consumer[c].cur]

Failure == mishaps' = mishaps \cup {"failure"}

Goto(c, step) == consumer' = [consumer EXCEPT ![c].pc = step]
\* run() is done with the message in hand, or has caught its exception: on to
\* the next one.  What it did not delete stays in the queue.
GiveUp(c)     == consumer' = [consumer EXCEPT ![c].pc = "ready", ![c].cur = NoMessage]
\* A call took effect; its answer arrives, or the caller sees an exception.
Proceed(c, step) ==
  \/ Goto(c, step) /\ UNCHANGED mishaps
  \/ Lossy /\ GiveUp(c) /\ Failure
Holds(c, m) == m \in consumer[c].held \cup {consumer[c].cur}

Stored(k) == raw[k] # NoMessage \/ quarantine[k] # NoMessage
\* Some consumer was told "accepted" for k and has yet to store it.
InHand(k) == \E c \in Consumers :
  consumer[c].pc \in {"head", "create", "get", "store"} /\ CurKey(c) = k
Settled(k) == ~InHand(k) /\ \E m \in Messages : KeyOf[m] = k /\ queue[m] = "deleted"
-----------------------------------------------------------------------------
\* Mutants of the definitions below: plausible bugs, none of them in the code.
\* the redrive policy is off by one and never applies
RedriveLate(m) ==
  /\ queue[m] = "visible" /\ receives[m] = MaxReceive + 1
  /\ queue' = [queue EXCEPT ![m] = "dead"]
  /\ UNCHANGED <<publishing, receives, consumer, claimed, s3, mishaps, reader>>
\* the queue has no redrive policy: messages are received without limit
ReceiveUnlimited(c) ==
  /\ At(c, "ready") /\ consumer[c].held = {}
  /\ \E S \in SUBSET {m \in Messages : queue[m] = "visible"} :
       /\ S # {} /\ Cardinality(S) <= BatchSize
       /\ queue' = [m \in Messages |-> IF m \in S THEN "inflight" ELSE queue[m]]
       /\ receives' = [m \in Messages |-> IF m \in S THEN receives[m] + 1 ELSE receives[m]]
       /\ consumer' = [consumer EXCEPT ![c].held = S, ![c].receipt = receives']
  /\ UNCHANGED <<publishing, claimed, s3, mishaps, reader>>
\* a 409 is taken for an acceptance
PostIgnoresConflict(c) ==
  /\ At(c, "post")
  /\ IF Cur(c) \in Unbound THEN GiveUp(c) /\ UNCHANGED <<claimed, mishaps>>
     ELSE Proceed(c, "head") /\ claimed' = claimed \cup {CurKey(c)}
  /\ UNCHANGED <<publishing, sqs, s3, reader>>
\* a 409 raises like every other status that is not 200
PostRaisesOnConflict(c) ==
  /\ At(c, "post")
  /\ IF Cur(c) \in Unbound \/ CurKey(c) \in claimed
     THEN GiveUp(c) /\ UNCHANGED <<claimed, mishaps>>
     ELSE Proceed(c, "head") /\ claimed' = claimed \cup {CurKey(c)}
  /\ UNCHANGED <<publishing, sqs, s3, reader>>
\* an absent registry raises
HeadRegistryRaises(c) ==
  /\ At(c, "head")
  /\ IF registry = 0 THEN GiveUp(c) ELSE Goto(c, "get")
  /\ UNCHANGED <<publishing, sqs, claimed, s3, mishaps, reader>>
\* the message is deleted in a finally block
CallFailsDeletes(c) ==
  /\ Lossy /\ consumer[c].pc \notin {"ready", "stopped"} /\ Goto(c, "delete") /\ Failure
  /\ UNCHANGED <<publishing, sqs, claimed, s3, reader>>
-----------------------------------------------------------------------------
\* The rest of the file, which data_gen.py has shuffled: a retry may come first.
Unpublished == {m \in Messages : queue[m] = "unsent"}

\* publish_file: one line after the other.
Publish ==
  /\ publishing
  /\ \E m \in Unpublished : queue' = [queue EXCEPT ![m] = "visible"]
  /\ UNCHANGED <<publishing, receives, consumer, claimed, s3, mishaps, reader>>

\* sns.publish raises, having taken effect or not: the rest is never published.
PublishFails ==
  /\ Lossy /\ publishing /\ publishing' = FALSE /\ Failure
  /\ \E m \in Unpublished : queue' \in {[queue EXCEPT ![m] = "visible"], queue}
  /\ UNCHANGED <<receives, consumer, claimed, s3, reader>>

\* SQS: the visibility timeout of a message passes.  Without Expiry it is long
\* enough for whoever holds the message to finish with it.
Expire(m) ==
  /\ queue[m] = "inflight" /\ (Expiry \/ \A c \in Consumers : ~Holds(c, m))
  /\ mishaps' = IF \E c \in Consumers : Holds(c, m) THEN mishaps \cup {"timeout"} ELSE mishaps
  /\ queue' = [queue EXCEPT ![m] = "visible"]
  /\ UNCHANGED <<publishing, receives, consumer, claimed, s3, reader>>

\* SQS: a message that would be received once too often goes to the DLQ.
Redrive(m) ==
  /\ queue[m] = "visible" /\ receives[m] = MaxReceive
  /\ queue' = [queue EXCEPT ![m] = "dead"]
  /\ UNCHANGED <<publishing, receives, consumer, claimed, s3, mishaps, reader>>
-----------------------------------------------------------------------------
\* receive_message: any visible messages, at most BatchSize.
Receive(c) ==
  /\ At(c, "ready") /\ consumer[c].held = {}
  /\ \E S \in SUBSET {m \in Messages : queue[m] = "visible" /\ receives[m] < MaxReceive} :
       /\ S # {} /\ Cardinality(S) <= BatchSize
       /\ queue' = [m \in Messages |-> IF m \in S THEN "inflight" ELSE queue[m]]
       /\ receives' = [m \in Messages |-> IF m \in S THEN receives[m] + 1 ELSE receives[m]]
       /\ consumer' = [consumer EXCEPT ![c].held = S, ![c].receipt = receives']
  /\ UNCHANGED <<publishing, claimed, s3, mishaps, reader>>

\* run(): nothing arrived for idle_timeout_s, or max_messages are done.
Stop(c) ==
  /\ At(c, "ready") /\ consumer[c].held = {} /\ Goto(c, "stopped")
  /\ UNCHANGED <<publishing, sqs, claimed, s3, mishaps, reader>>
\* The operator runs the consumer again.
Start(c) ==
  /\ At(c, "stopped") /\ consumer' = [consumer EXCEPT ![c] = Fresh]
  /\ UNCHANGED <<publishing, sqs, claimed, s3, mishaps, reader>>

\* run(): the next message of the batch, to process_message.
Take(c) ==
  /\ At(c, "ready")
  /\ \E m \in consumer[c].held :
       consumer' = [consumer EXCEPT ![c].pc = "post", ![c].cur = m, ![c].held = @ \ {m}]
  /\ UNCHANGED <<publishing, sqs, claimed, s3, mishaps, reader>>

\* POST /accept.  400 raises.  A first claim is answered 200, or, when the gate's
\* own call to DynamoDB went unanswered, 409 or not at all; others 409.
Post(c) ==
  /\ At(c, "post")
  /\ IF Cur(c) \in Unbound THEN GiveUp(c) /\ UNCHANGED <<claimed, mishaps>>
     ELSE IF CurKey(c) \in claimed THEN Proceed(c, "delete") /\ UNCHANGED claimed
     ELSE /\ Proceed(c, "head") \/ (Lossy /\ Goto(c, "delete") /\ Failure)
          /\ claimed' = claimed \cup {CurKey(c)}
  /\ UNCHANGED <<publishing, sqs, s3, reader>>

\* ensure_schema_registry: head_object; any ClientError reads as "absent".
HeadRegistry(c) ==
  /\ At(c, "head")
  /\ \/ Goto(c, IF registry = 0 THEN "create" ELSE "get") /\ UNCHANGED mishaps
     \/ Lossy /\ Goto(c, "create") /\ Failure
  /\ UNCHANGED <<publishing, sqs, claimed, s3, reader>>
CreateRegistry(c) ==
  /\ At(c, "create") /\ Proceed(c, "get")
  /\ registry' = 1
  /\ UNCHANGED <<publishing, sqs, claimed, raw, quarantine, reader>>

\* current_schema_version
ReadVersion(c) ==
  /\ At(c, "get")
  /\ consumer' = [consumer EXCEPT ![c].pc = "store", ![c].expected = registry]
  /\ UNCHANGED <<publishing, sqs, claimed, s3, mishaps, reader>>

\* validate_event, and the put_object of handler.
Valid(c) == Version[Cur(c)] = consumer[c].expected /\ Cur(c) \notin Malformed
Store(c) ==
  /\ At(c, "store") /\ Proceed(c, "delete")
  /\ IF Valid(c) THEN raw' = [raw EXCEPT ![CurKey(c)] = Cur(c)] /\ UNCHANGED quarantine
     ELSE quarantine' = [quarantine EXCEPT ![CurKey(c)] = Cur(c)] /\ UNCHANGED raw
  /\ UNCHANGED <<publishing, sqs, claimed, registry, reader>>

\* delete_message.  A receipt that is no longer the latest may still delete.
Delete(c) ==
  LET m == Cur(c) IN
  /\ At(c, "delete") /\ GiveUp(c)
  /\ \/ /\ queue[m] \in {"visible", "inflight"}
        /\ queue' = [queue EXCEPT ![m] = "deleted"]
     \/ /\ queue[m] \notin {"visible", "inflight"} \/ consumer[c].receipt[m] # receives[m]
        /\ UNCHANGED queue
  /\ UNCHANGED <<publishing, receives, claimed, s3, mishaps, reader>>

\* The call raises without having taken effect.
CallFails(c) ==
  /\ Lossy /\ consumer[c].pc \notin {"ready", "stopped"} /\ GiveUp(c) /\ Failure
  /\ UNCHANGED <<publishing, sqs, claimed, s3, reader>>

Consume(c) ==
  \/ Receive(c) \/ Take(c) \/ Post(c) \/ HeadRegistry(c) \/ CreateRegistry(c)
  \/ ReadVersion(c) \/ Store(c) \/ Delete(c)

Crash(c) ==
  /\ Failure /\ ~At(c, "stopped")
  /\ consumer' = [consumer EXCEPT ![c] = [Fresh EXCEPT !.pc = "stopped"]]
  /\ UNCHANGED <<publishing, sqs, claimed, s3, reader>>

\* The operator raises the schema version.
Upgrade ==
  /\ registry # 0 /\ registry < MaxVersion /\ registry' = registry + 1
  /\ UNCHANGED <<publishing, sqs, consumer, claimed, raw, quarantine, mishaps, reader>>

\* get_txn: txn-raw, and if it answers NoSuchKey, or anything raises, txn-quarantine.
\* Finding the object, or neither, ends the request and leaves nothing behind.
GetRaw(k) ==
  /\ reader = Nobody /\ k \in Asked
  /\ \/ raw[k] = NoMessage /\ reader' = [asks |-> {k}, settled |-> Settled(k)]
     \/ Lossy /\ reader' = [asks |-> {k}, settled |-> FALSE]
  /\ UNCHANGED <<publishing, sqs, consumer, claimed, s3, mishaps>>
GetQuarantined ==
  /\ reader # Nobody /\ reader' = Nobody
  /\ UNCHANGED <<publishing, sqs, consumer, claimed, s3, mishaps>>

Next ==
  \/ \E k \in Keys : GetRaw(k)
  \/ GetQuarantined
  \/ Publish \/ PublishFails \/ Upgrade
  \/ \E m \in Messages : Expire(m) \/ Redrive(m)
  \/ \E c \in Consumers : Consume(c) \/ CallFails(c) \/ Stop(c) \/ Start(c) \/ Crash(c)
Spec == Init /\ [][Next]_vars

\* Consumers that can take a step take one, SQS returns and redrives messages,
\* and the operator starts a consumer that stopped.
Fairness ==
  /\ WF_vars(Publish)
  /\ \A m \in Messages : WF_vars(Expire(m)) /\ WF_vars(Redrive(m))
  /\ \A c \in Consumers : SF_vars(Receive(c)) /\ WF_vars(Consume(c)) /\ WF_vars(Start(c))
FairSpec == Spec /\ Fairness
-----------------------------------------------------------------------------
QueueStates == {"unsent", "visible", "inflight", "deleted", "dead"}
Steps == {"ready", "post", "head", "create", "get", "store", "delete", "stopped"}

ConsumerState ==
  [pc : Steps, held : SUBSET Messages, cur : Messages \cup {NoMessage},
   receipt : [Messages -> 0 .. MaxReceive], expected : 0 .. MaxVersion]

\* Every variable stays in its type.
TypeOK ==
  /\ publishing \in BOOLEAN
  /\ queue \in [Messages -> QueueStates] /\ receives \in [Messages -> 0 .. MaxReceive]
  /\ consumer \in [Consumers -> ConsumerState]
  /\ claimed \in SUBSET Keys /\ registry \in 0 .. MaxVersion
  /\ raw \in [Keys -> Messages \cup {NoMessage}]
  /\ quarantine \in [Keys -> Messages \cup {NoMessage}]
  /\ reader \in [asks : SUBSET Keys, settled : BOOLEAN]
  /\ mishaps \subseteq {"failure", "timeout"}

\* The exactly-once chain: a key that reached storage is in one bucket only, was
\* claimed at the gate, and no second acceptance of it is on its way to storage:
\* not by another consumer, not by a redelivery after a crash or a timeout.
ExactlyOneObject ==
  \A k \in Keys :
    /\ raw[k] = NoMessage \/ quarantine[k] = NoMessage
    /\ Stored(k) => k \in claimed /\ ~InHand(k)

\* An object, once stored, is never overwritten by a later event with its key.
ObjectsStay ==
  [][\A k \in Keys : Stored(k) => raw'[k] = raw[k] /\ quarantine'[k] = quarantine[k]]_vars

\* A message is deleted from the queue only when its key is claimed: nothing the
\* gate has not decided is acknowledged, whatever fails or is delivered twice.
AckedIsClaimed == \A m \in Messages : queue[m] = "deleted" => KeyOf[m] \in claimed

\* As long as no call failed and no consumer died, though messages may have been
\* redelivered to other consumers too early, a claimed key is stored or being
\* stored, so that dropping a refused message ("already correctly handled",
\* consumer.py:8-10) loses nothing.
ClaimedIsHandled == "failure" \notin mishaps => \A k \in claimed : Stored(k) \/ InHand(k)

\* A transaction that the pipeline is done with is found: as long as no call failed,
\* a client that asks for a key after one of its messages was acknowledged, and none
\* is being stored, is not answered 404, in whichever bucket it is.
AckedIsFound ==
  "failure" \notin mishaps /\ reader.settled => \A k \in reader.asks : quarantine[k] # NoMessage

\* Until a call fails or a timeout comes early only what the gate cannot bind ends
\* in the dead-letter queue.
DeadWasRefused == mishaps = {} => \A m \in Messages : queue[m] = "dead" => m \in Unbound

\* Every published message leaves the queue in the end, deleted or dead, through
\* any failures, crashes and redeliveries: a poison message does not stay.
EveryMessageSettles ==
  \A m \in Messages : queue[m] = "visible" ~> queue[m] \in {"deleted", "dead"}

\* Every key with a bindable message on the queue is stored in the end, unless a
\* call fails or a timeout comes early.
EveryKeyStored ==
  \A m \in Messages \ Unbound : queue[m] = "visible" ~> Stored(KeyOf[m]) \/ mishaps # {}
-----------------------------------------------------------------------------
\* What docs/RUNBOOK.md:196 says of redelivery, "a consumer that crashes loses no
\* data": what was deleted from the queue is stored, or about to be.
CrashLosesNothing ==
  \A m \in Messages : queue[m] = "deleted" => Stored(KeyOf[m]) \/ InHand(KeyOf[m])
=============================================================================
