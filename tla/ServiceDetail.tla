---------------------------- MODULE ServiceDetail ----------------------------
(***************************************************************************)
(* The details of a service that the app and its search index read.        *)
(*                                                                         *)
(* A watcher of the publication container and one of the lifecycle         *)
(* container (watchers/on-service-detail) put messages in one queue. Its  *)
(* handler (request-detail-handler.ts) writes the only detail document of  *)
(* the service: always for a publication, and for a draft only if it finds *)
(* no detail of a publication. The write is an output binding: it happens  *)
(* after the handler has looked, and other handlers may come in between.   *)
(***************************************************************************)
EXTENDS Naturals

CONSTANTS
  ServiceId, NoItem, Idle,
  Handler,       \* messages handled at once, over all instances
  MaxWrite,      \* bound: writes of the two containers
  MaxFault       \* bound: handlers that stop, messages given up

VARIABLES
  lifecycle, publication,   \* the containers: documents, numbered as written
  changed,                  \* <<kind, service>>: changes not watched yet
  requestDetail,            \* the queue
  handling,                 \* the message of each handler, and what it decided
  detail,                   \* services-details
  writes, faults,
  lost,                     \* services with a message given up
  overlapped,               \* history: services two handlers worked on at once
  hasty                     \* history: services published again before the last
                            \* publication had reached its detail

containers == <<lifecycle, publication, writes>>
work == <<requestDetail, handling, lost>>
vars == <<containers, changed, work, detail, faults, overlapped, hasty>>

Kind == {"lifecycle", "publication"}

Document(states) == [data : 1..MaxWrite, state : states]

\* RequestDetailItem, and ServiceDetail: data stands for all they carry.
Detail == [id : ServiceId, kind : Kind, data : 1..MaxWrite]

-----------------------------------------------------------------------------
(* The two containers                                                       *)

Fault == faults < MaxFault /\ faults' = faults + 1

\* No publication of s is on its way to the details.
Quiet(s) ==
  /\ <<"publication", s>> \notin changed
  /\ \A m \in requestDetail : m.id = s => m.kind = "lifecycle"
  /\ \A h \in Handler : handling[h] # Idle /\ handling[h].message.id = s =>
       handling[h].message.kind = "lifecycle"

Write == writes < MaxWrite /\ writes' = writes + 1

\* Submissions, approvals and the rest are all one: they are not drafts.
WriteLifecycle(s) ==
  /\ Write
  /\ \E state \in {"draft", "other"} :
       lifecycle' = [lifecycle EXCEPT ![s] = [data |-> writes', state |-> state]]
  /\ changed' = changed \cup {<<"lifecycle", s>>}
  /\ UNCHANGED <<publication, work, detail, faults, overlapped, hasty>>

WritePublication(s) ==
  /\ Write
  /\ \E state \in {"published", "unpublished"} :
       publication' = [publication EXCEPT ![s] = [data |-> writes', state |-> state]]
  /\ changed' = changed \cup {<<"publication", s>>}
  /\ hasty' = IF Quiet(s) THEN hasty ELSE hasty \cup {s}
  /\ UNCHANGED <<lifecycle, work, detail, faults, overlapped>>

\* The change feed says nothing of a deletion.
DeletePublication(s) ==
  /\ Write
  /\ publication[s] # NoItem
  /\ publication' = [publication EXCEPT ![s] = NoItem]
  /\ changed' = changed \ {<<"publication", s>>}
  /\ UNCHANGED <<lifecycle, work, detail, faults, overlapped, hasty>>

-----------------------------------------------------------------------------
(* The watchers                                                             *)

Request(s, kind, document) ==
  requestDetail' = requestDetail \cup {[id |-> s, kind |-> kind, data |-> document.data]}

\* on-service-detail-lifecycle-change: drafts only.
WatchLifecycle(s) ==
  /\ <<"lifecycle", s>> \in changed
  /\ changed' = changed \ {<<"lifecycle", s>>}
  /\ IF lifecycle[s].state = "draft" THEN Request(s, "lifecycle", lifecycle[s])
                                     ELSE UNCHANGED requestDetail
  /\ UNCHANGED <<containers, handling, lost, detail, faults, overlapped, hasty>>

\* Wrong on purpose: what is taken off the app is not sent.
WatchPublished(s) ==
  /\ <<"publication", s>> \in changed
  /\ changed' = changed \ {<<"publication", s>>}
  /\ IF publication[s].state = "published"
     THEN Request(s, "publication", publication[s])
     ELSE UNCHANGED requestDetail
  /\ UNCHANGED <<containers, handling, lost, detail, faults, overlapped, hasty>>

\* on-service-detail-publication-change: published or not.
WatchPublication(s) ==
  /\ <<"publication", s>> \in changed
  /\ changed' = changed \ {<<"publication", s>>}
  /\ Request(s, "publication", publication[s])
  /\ UNCHANGED <<containers, handling, lost, detail, faults, overlapped, hasty>>

-----------------------------------------------------------------------------
(* The handler                                                              *)

IsPublication(item) == IF item = NoItem THEN FALSE ELSE item.kind = "publication"

\* Wrong on purpose: whatever comes is written.
shouldUpsertAnything(m) == m.kind \in Kind

\* A publication, or a draft of a service without a publication detail.
shouldUpsertServiceDetails(m) ==
  m.kind = "publication" \/ ~ IsPublication(detail[m.id])

\* handleQueueItem
StartDetail(h, m) ==
  /\ handling[h] = Idle
  /\ m \in requestDetail
  /\ requestDetail' = requestDetail \ {m}
  /\ handling' = [handling EXCEPT ![h] =
                    [message |-> m, upsert |-> shouldUpsertServiceDetails(m)]]
  /\ overlapped' = IF \E g \in Handler : /\ handling[g] # Idle
                                         /\ handling[g].message.id = m.id
                   THEN overlapped \cup {m.id} ELSE overlapped
  /\ UNCHANGED <<containers, changed, lost, detail, faults, hasty>>

\* toServiceDetail, the output binding, and the message deleted; or the instance
\* stops between the two last and the message comes again.
EndDetail(h) ==
  /\ handling[h] # Idle
  /\ LET m == handling[h].message IN
       /\ detail' = IF handling[h].upsert THEN [detail EXCEPT ![m.id] = m] ELSE detail
       /\ \/ UNCHANGED <<requestDetail, faults>>
          \/ requestDetail' = requestDetail \cup {m} /\ Fault
  /\ handling' = [handling EXCEPT ![h] = Idle]
  /\ UNCHANGED <<containers, changed, lost, overlapped, hasty>>

\* Wrong on purpose: an error is taken for a permanent one.
SwallowDetail(h) ==
  /\ handling[h] # Idle
  /\ Fault
  /\ handling' = [handling EXCEPT ![h] = Idle]
  /\ UNCHANGED <<containers, changed, requestDetail, lost, detail, overlapped, hasty>>

\* The query or the binding fails, and the message comes again.
FailDetail(h) ==
  /\ handling[h] # Idle
  /\ Fault
  /\ handling' = [handling EXCEPT ![h] = Idle]
  /\ requestDetail' = requestDetail \cup {handling[h].message}
  /\ UNCHANGED <<containers, changed, lost, detail, overlapped, hasty>>

\* After maxDequeueCount deliveries.
GiveUp(m) ==
  /\ m \in requestDetail
  /\ Fault
  /\ requestDetail' = requestDetail \ {m}
  /\ lost' = lost \cup {m.id}
  /\ UNCHANGED <<containers, changed, handling, detail, overlapped, hasty>>

-----------------------------------------------------------------------------
Init ==
  /\ lifecycle = [s \in ServiceId |-> NoItem]
  /\ publication = [s \in ServiceId |-> NoItem]
  /\ changed = {} /\ requestDetail = {}
  /\ handling = [h \in Handler |-> Idle]
  /\ detail = [s \in ServiceId |-> NoItem]
  /\ writes = 0 /\ faults = 0
  /\ lost = {} /\ overlapped = {} /\ hasty = {}

Watcher(s) == WatchLifecycle(s) \/ WatchPublication(s)

Worker(h) ==
  \/ \E m \in requestDetail : StartDetail(h, m)
  \/ EndDetail(h)
  \/ FailDetail(h)

\* Steps that leave the two containers alone.
Follow ==
  \/ \E s \in ServiceId : Watcher(s)
  \/ \E h \in Handler : Worker(h)
  \/ \E m \in requestDetail : GiveUp(m)

Next ==
  \/ \E s \in ServiceId :
       WriteLifecycle(s) \/ WritePublication(s) \/ DeletePublication(s)
  \/ Follow

Spec == Init /\ [][Next]_vars

-----------------------------------------------------------------------------
(* Properties                                                               *)

\* The shape of the containers, of the queue and of the details.
TypeOK ==
  /\ lifecycle \in [ServiceId -> Document({"draft", "other"}) \cup {NoItem}]
  /\ publication \in [ServiceId -> Document({"published", "unpublished"}) \cup {NoItem}]
  /\ changed \in SUBSET (Kind \X ServiceId)
  /\ requestDetail \in SUBSET Detail
  /\ handling \in [Handler -> [message : Detail, upsert : BOOLEAN] \cup {Idle}]
  /\ \A s \in ServiceId : detail[s] \in {d \in Detail : d.id = s} \cup {NoItem}
  /\ writes \in 0..MaxWrite /\ faults \in 0..MaxFault
  /\ lost \in SUBSET ServiceId
  /\ overlapped \in SUBSET ServiceId /\ hasty \in SUBSET ServiceId

Settled ==
  changed = {} /\ requestDetail = {} /\ \A h \in Handler : handling[h] = Idle

\* When all has settled, the detail of a service that is in the publication
\* container is that of its publication, never of a draft, and the latest one if
\* it waited for the one before; whatever is delivered again or out of order,
\* unless two handlers worked on the service at once.
PublicationIsShown ==
  Settled => \A s \in ServiceId \ (lost \cup overlapped) : publication[s] # NoItem =>
    /\ IsPublication(detail[s])
    /\ s \in hasty \/ detail[s].data = publication[s].data

-----------------------------------------------------------------------------
(* Liveness                                                                 *)

\* The watchers and the handlers keep running.
Fairness ==
  /\ \A s \in ServiceId : WF_vars(Watcher(s))
  /\ \A h \in Handler : WF_vars(Worker(h))

\* A publication reaches the details, unless it is deleted first or given up.
PublicationArrives ==
  \A s \in ServiceId :
    <<"publication", s>> \in changed ~>
      IsPublication(detail[s]) \/ publication[s] = NoItem \/ s \in lost
=============================================================================
