------------------------------ MODULE Ingestion ------------------------------
(***************************************************************************)
(* The ingestion of a container in the event hub of the data lake.         *)
(*                                                                         *)
(* A watcher takes a batch of changed documents and sends their events at  *)
(* once (createIngestionCosmosDBTriggerHandler); if anything fails, every  *)
(* document of the batch goes to a retry queue, whose handler sends it by  *)
(* itself (createIngestionRetryQueueTriggerHandler), maybe after a newer   *)
(* document of the same id. The lifecycle, publication and history         *)
(* containers are ingested alike.                                          *)
(***************************************************************************)
EXTENDS Naturals, Sequences, SequencesExt

CONSTANTS
  ServiceId, NoItem,
  MaxWrite,      \* bound: the numbers of the documents
  MaxBreak       \* bound: events that cannot be sent, batches repeated or skipped

VARIABLES
  container,     \* the documents, numbered as written
  fresh,         \* ids with a change the watcher has not handled
  retries,       \* the retry queue
  topic,         \* the event hub: the events of each id, in the order they came
  breaks,
  retried, skipped   \* history: ids sent to the retry queue, ids given up

vars == <<container, fresh, retries, topic, breaks, retried, skipped>>

Event == [id : ServiceId, data : 1..MaxWrite]

\* Wrong on purpose: the event has no id.
EventOfNone(s) == [id |-> NoItem, data |-> container[s].data]

EventOf(s) == [id |-> s, data |-> container[s].data]

Break == breaks < MaxBreak /\ breaks' = breaks + 1

\* The events of a service come in the order they are sent in. No partition key is
\* given: this is the order of arrival over all partitions.
Send(events) ==
  topic' = [s \in ServiceId |-> topic[s] \o SetToSeq({e \in events : e.id = s})]

\* toEvents and sendBatch: all the events are sent. The batch comes again if the
\* watcher stops before the checkpoint.
Ingest(batch) ==
  /\ batch # {} /\ batch \subseteq fresh
  /\ Send({EventOf(s) : s \in batch})
  /\ \/ fresh' = fresh \ batch /\ UNCHANGED breaks
     \/ UNCHANGED fresh /\ Break
  /\ UNCHANGED <<container, retries, retried, skipped>>

\* Wrong on purpose: only one document of the batch is kept.
IngestionErrorOfOne(batch) ==
  /\ batch # {} /\ batch \subseteq fresh
  /\ Break
  /\ fresh' = fresh \ batch
  /\ \E s \in batch : retries' = retries \cup {EventOf(s)}
  /\ retried' = retried \cup batch
  /\ UNCHANGED <<container, topic, skipped>>

\* One document cannot be formatted, or the send fails: ingestionError for all.
IngestionError(batch) ==
  /\ batch # {} /\ batch \subseteq fresh
  /\ Break
  /\ fresh' = fresh \ batch
  /\ retries' = retries \cup {EventOf(s) : s \in batch}
  /\ retried' = retried \cup batch
  /\ UNCHANGED <<container, topic, skipped>>

\* A malformed document fails the function, which has no retry policy.
SkipBatch(batch) ==
  /\ batch # {} /\ batch \subseteq fresh
  /\ Break
  /\ fresh' = fresh \ batch
  /\ skipped' = skipped \cup batch
  /\ UNCHANGED <<container, retries, topic, retried>>

\* The retry queue: the event is sent and the message deleted, or not deleted.
Retry(e) ==
  /\ e \in retries
  /\ Send({e})
  /\ \/ retries' = retries \ {e} /\ UNCHANGED breaks
     \/ UNCHANGED retries /\ Break
  /\ UNCHANGED <<container, fresh, retried, skipped>>

\* It cannot be sent, up to maxDequeueCount times.
GiveUp(e) ==
  /\ e \in retries
  /\ Break
  /\ retries' = retries \ {e}
  /\ skipped' = skipped \cup {e.id}
  /\ UNCHANGED <<container, fresh, topic, retried>>

-----------------------------------------------------------------------------
Init ==
  /\ container = [s \in ServiceId |-> NoItem]
  /\ fresh = {} /\ retries = {} /\ topic = [s \in ServiceId |-> <<>>]
  /\ breaks = 0 /\ retried = {} /\ skipped = {}

Watcher ==
  \E batch \in SUBSET fresh : Ingest(batch) \/ IngestionError(batch) \/ SkipBatch(batch)

RetryQueue == \E e \in retries : Retry(e) \/ GiveUp(e)

Follow == Watcher \/ RetryQueue

-----------------------------------------------------------------------------
(* Properties                                                               *)

\* The shape of the event hub and of the retry queue.
TypeOK ==
  /\ fresh \in SUBSET ServiceId
  /\ retries \in SUBSET Event
  /\ topic \in [ServiceId -> Seq(Event)]
  /\ breaks \in 0..MaxBreak
  /\ retried \in SUBSET ServiceId /\ skipped \in SUBSET ServiceId

\* No document is forgotten: when all has been sent, the event hub has the event
\* of the latest version of each, whatever failed, unless it was given up.
LatestIsIngested ==
  fresh = {} /\ retries = {} => \A s \in ServiceId \ skipped :
    container[s] # NoItem => EventOf(s) \in ToSet(topic[s])

\* The watcher and the retry queue keep running.
Fairness == WF_vars(Watcher) /\ WF_vars(RetryQueue)
=============================================================================
