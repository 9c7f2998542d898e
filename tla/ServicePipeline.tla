--------------------------- MODULE ServicePipeline ---------------------------
(***************************************************************************)
(* From the lifecycle of a service to its publication.                     *)
(*                                                                         *)
(* Every write of the lifecycle container reaches, through the change feed,*)
(* the watcher of watchers/on-service-lifecycle-change.ts. The watcher puts*)
(* a message in the request-publication or in the request-deletion queue;  *)
(* the workers of publicator/ and deletor/ consume them and change the     *)
(* publication container. Meanwhile the owner publishes and unpublishes    *)
(* through the HTTP controllers, which look at the lifecycle first.        *)
(*                                                                         *)
(* The change feed shows the latest version of a document, at least once.  *)
(* The queues are unordered and deliver at least once, and give a message  *)
(* up after maxDequeueCount deliveries (host.json).                        *)
(***************************************************************************)
EXTENDS Naturals

CONSTANTS ServiceId, Data, Group, Client, NoGroup, NoItem, Idle, MaxVersion,
          Worker,       \* handlers of request-publication, over all instances
          Caller,       \* publish and unpublish requests in flight
          MaxDequeue    \* maxDequeueCount

ASSUME GroupAssumption == NoGroup \notin Group
ASSUME BoundAssumption == MaxVersion \in Nat
ASSUME DequeueAssumption == MaxDequeue \in Nat \ {0}

\* A message and an HTTP call are handled by different functions.
ASSUME RequestAssumption == Worker \cap Caller = {}

VARIABLES
  lifecycle, etag, calls, versions,            \* see ServiceLifecycle
  publication, pending, released, asked,       \* see ServicePublication
  changed,              \* services with a change the watcher has not handled
  requestPublication,   \* the two queues, with the deliveries of each message
  requestDeletion,
  leased,               \* the message each worker is handling
  checked,              \* what each caller found it may do
  abandoned,            \* services with a change or a message given up
  unpublishedAt,        \* history: the etag of the lifecycle when the owner last
                        \* unpublished; 0 if he never did or published again
  hasty                 \* history: somebody decided before all had settled

lifecycleVars == <<lifecycle, etag, calls, versions>>
publicationVars == <<publication, pending, released, asked>>
queueVars == <<requestPublication, requestDeletion, leased, abandoned>>
systemVars ==
  <<lifecycleVars, publicationVars, changed, queueVars, checked, unpublishedAt>>
vars == <<systemVars, hasty>>

L == INSTANCE ServiceLifecycle
P == INSTANCE ServicePublication WITH Request <- Worker \cup Caller

PublicationMessages == [id : ServiceId, data : Data, autoPublish : BOOLEAN,
                        dequeueCount : 0..MaxDequeue - 1]

\* The markers are not documents, nor what a request holds.
ASSUME MarkerAssumption ==
  /\ NoItem \notin L!Document \cup P!Document
  /\ Idle \notin L!Call \cup P!Write \cup PublicationMessages

-----------------------------------------------------------------------------
(* The lifecycle container and its change feed                              *)

\* Every write gives the document a new etag, and so a place in the feed.
Feed == changed' = changed \cup {s \in ServiceId : lifecycle'[s] # lifecycle[s]}

\* A request of the owner or of the reviewer.
StartRequest ==
  /\ \E c \in Client, s \in ServiceId : L!UserRequest(c, s) \/ L!ReviewRequest(c, s)
  /\ Feed
  /\ UNCHANGED <<publicationVars, queueVars, checked, unpublishedAt>>

EndRequest ==
  /\ \E c \in Client : L!Save(c) \/ L!SaveError(c)
  /\ Feed
  /\ UNCHANGED <<publicationVars, queueVars, checked, unpublishedAt>>

-----------------------------------------------------------------------------
(* onServiceLifecycleChange                                                 *)

\* Wrong on purpose: the stored document is sent, not its data.
MessageOfDocument(s) ==
  [id |-> s, data |-> lifecycle[s].content,
   autoPublish |-> lifecycle[s].content.autoPublish, dequeueCount |-> 0]

PublicationMessage(s) ==
  [id |-> s, data |-> lifecycle[s].content.data,
   autoPublish |-> lifecycle[s].content.autoPublish, dequeueCount |-> 0]

DeletionMessage(s) == [id |-> s, dequeueCount |-> 0]

\* Wrong on purpose: deleted services are not looked at.
WatchApprovals(s, checkpoint) ==
  /\ s \in changed
  /\ changed' = IF checkpoint THEN changed \ {s} ELSE changed
  /\ requestPublication' =
       IF lifecycle[s].state = "approved"
       THEN requestPublication \cup {PublicationMessage(s)}
       ELSE requestPublication
  /\ UNCHANGED <<lifecycleVars, publicationVars, requestDeletion, leased,
                 abandoned, checked, unpublishedAt>>

\* The watcher handles the current version of s and flushes its bindings. It
\* sees the same version again if it stops before the lease is checkpointed.
Watch(s, checkpoint) ==
  /\ s \in changed
  /\ changed' = IF checkpoint THEN changed \ {s} ELSE changed
  /\ requestPublication' =
       IF lifecycle[s].state = "approved"
       THEN requestPublication \cup {PublicationMessage(s)}
       ELSE requestPublication
  /\ requestDeletion' =
       IF lifecycle[s].state = "deleted"
       THEN requestDeletion \cup {DeletionMessage(s)}
       ELSE requestDeletion
  /\ UNCHANGED <<lifecycleVars, publicationVars, leased, abandoned, checked,
                 unpublishedAt>>

\* The change feed goes on after the last retry of a failing batch.
SkipChange(s) ==
  /\ s \in changed
  /\ changed' = changed \ {s}
  /\ abandoned' = abandoned \cup {s}
  /\ UNCHANGED <<lifecycleVars, publicationVars, requestPublication,
                 requestDeletion, leased, checked, unpublishedAt>>

-----------------------------------------------------------------------------
(* The queues                                                               *)

\* What is left of a queue once message m has been delivered and not deleted.
PutBack(queue, m) ==
  IF m.dequeueCount + 1 < MaxDequeue
  THEN queue \cup {[m EXCEPT !.dequeueCount = @ + 1]}
  ELSE queue

GiveUp(m) == IF m.dequeueCount + 1 < MaxDequeue THEN abandoned
                                                ELSE abandoned \cup {m.id}

\* Wrong on purpose: the content of the moment is released, not the approved one.
StartLatestRelease(w, m) ==
  /\ leased[w] = Idle
  /\ m \in requestPublication
  /\ P!release(w, m.id, lifecycle[m.id].content.data, m.autoPublish)
  /\ leased' = [leased EXCEPT ![w] = m]
  /\ requestPublication' = requestPublication \ {m}
  /\ UNCHANGED <<lifecycleVars, changed, requestDeletion, abandoned, checked,
                 unpublishedAt>>

\* createRequestPublicationEntryPoint: a worker takes a message and releases
\* its content.
StartRelease(w, m) ==
  /\ leased[w] = Idle
  /\ m \in requestPublication
  /\ P!release(w, m.id, m.data, m.autoPublish)
  /\ leased' = [leased EXCEPT ![w] = m]
  /\ requestPublication' = requestPublication \ {m}
  /\ UNCHANGED <<lifecycleVars, changed, requestDeletion, abandoned, checked,
                 unpublishedAt>>

\* The release is saved; the message is deleted, unless the instance stops just
\* before, and then it is delivered again.
EndRelease(w, deleted) ==
  /\ leased[w] # Idle
  /\ P!Save(w)
  /\ leased' = [leased EXCEPT ![w] = Idle]
  /\ requestPublication' = IF deleted THEN requestPublication
                           ELSE PutBack(requestPublication, leased[w])
  /\ abandoned' = IF deleted THEN abandoned ELSE GiveUp(leased[w])
  /\ UNCHANGED <<lifecycleVars, changed, requestDeletion, checked, unpublishedAt>>

\* Wrong on purpose: the error is swallowed, and the message deleted.
SwallowRelease(w) ==
  /\ leased[w] # Idle
  /\ P!SaveError(w)
  /\ leased' = [leased EXCEPT ![w] = Idle]
  /\ UNCHANGED <<lifecycleVars, changed, requestPublication, requestDeletion,
                 abandoned, checked, unpublishedAt>>

FailRelease(w) ==
  /\ leased[w] # Idle
  /\ P!SaveError(w)
  /\ leased' = [leased EXCEPT ![w] = Idle]
  /\ requestPublication' = PutBack(requestPublication, leased[w])
  /\ abandoned' = GiveUp(leased[w])
  /\ UNCHANGED <<lifecycleVars, changed, requestDeletion, checked, unpublishedAt>>

\* createRequestDeletionEntryPoint: one call to the store.
HandleDeletion(m, deleted) ==
  /\ m \in requestDeletion
  /\ P!Delete(m.id)
  /\ requestDeletion' = IF deleted THEN requestDeletion \ {m}
                        ELSE PutBack(requestDeletion \ {m}, m)
  /\ abandoned' = IF deleted THEN abandoned ELSE GiveUp(m)
  /\ UNCHANGED <<lifecycleVars, changed, requestPublication, leased, checked,
                 unpublishedAt>>

\* Wrong on purpose: the error is swallowed, and the message deleted.
SwallowDeletion(m) ==
  /\ m \in requestDeletion
  /\ requestDeletion' = requestDeletion \ {m}
  /\ UNCHANGED <<lifecycleVars, publicationVars, changed, requestPublication,
                 leased, abandoned, checked, unpublishedAt>>

FailDeletion(m) ==
  /\ m \in requestDeletion
  /\ requestDeletion' = PutBack(requestDeletion \ {m}, m)
  /\ abandoned' = GiveUp(m)
  /\ UNCHANGED <<lifecycleVars, publicationVars, changed, requestPublication,
                 leased, checked, unpublishedAt>>

-----------------------------------------------------------------------------
(* The publish and unpublish controllers                                    *)

\* checkService: the service exists and is not deleted. (The groups of the caller
\* can only refuse more, and a caller without groups passes.)
Check(u, s, action) ==
  /\ checked[u] = Idle /\ pending[u] = Idle
  /\ lifecycle[s] # NoItem
  /\ lifecycle[s].state # "deleted"
  /\ checked' = [checked EXCEPT ![u] = [id |-> s, action |-> action]]
  /\ UNCHANGED <<lifecycleVars, publicationVars, changed, queueVars, unpublishedAt>>

Act(u) ==
  /\ checked[u] # Idle
  /\ IF checked[u].action = "publish" THEN P!Publish(u, checked[u].id)
                                      ELSE P!Unpublish(u, checked[u].id)
  /\ checked' = [checked EXCEPT ![u] = Idle]
  /\ UNCHANGED <<lifecycleVars, changed, queueVars, unpublishedAt>>

EndAct(u) ==
  /\ \/ /\ P!Save(u)
        /\ unpublishedAt' =
             [unpublishedAt EXCEPT ![pending[u].id] =
                IF pending[u].document.state = "unpublished" THEN etag ELSE 0]
     \/ P!SaveError(u) /\ UNCHANGED unpublishedAt
  /\ UNCHANGED <<lifecycleVars, changed, queueVars, checked>>

-----------------------------------------------------------------------------
Init ==
  /\ L!Init
  /\ P!Init
  /\ changed = {}
  /\ requestPublication = {} /\ requestDeletion = {}
  /\ leased = [w \in Worker |-> Idle]
  /\ checked = [u \in Caller |-> Idle]
  /\ abandoned = {}
  /\ unpublishedAt = [s \in ServiceId |-> 0]
  /\ hasty = FALSE

\* What people do, and what the platform does about it.
Request ==
  \/ StartRequest
  \/ \E u \in Caller, s \in ServiceId, action \in {"publish", "unpublish"} :
       Check(u, s, action)

Watcher(s) == (\E checkpoint \in BOOLEAN : Watch(s, checkpoint)) \/ SkipChange(s)

Publicator(w) ==
  \/ \E m \in requestPublication : StartRelease(w, m)
  \/ \E deleted \in BOOLEAN : EndRelease(w, deleted)
  \/ FailRelease(w)

Deletor(m) == (\E deleted \in BOOLEAN : HandleDeletion(m, deleted)) \/ FailDeletion(m)

Platform ==
  \/ EndRequest
  \/ \E s \in ServiceId : Watcher(s)
  \/ \E w \in Worker : Publicator(w)
  \/ \E m \in requestDeletion : Deletor(m)
  \/ \E u \in Caller : Act(u) \/ EndAct(u)

\* Nothing is in flight: no request, no change to handle, no message.
Settled ==
  /\ \A c \in Client : calls[c] = Idle
  /\ changed = {} /\ requestPublication = {} /\ requestDeletion = {}
  /\ \A r \in Worker \cup Caller : pending[r] = Idle
  /\ \A u \in Caller : checked[u] = Idle

\* What starts an approval, a deletion, a publish or an unpublish, or patches the
\* group of an approved or deleted service, which the watcher takes for one more
\* approval or deletion. (Services are created, edited, submitted and rejected, and
\* the others are moved to a group, at any time.)
Decisive ==
  \/ \E c \in Client : /\ calls[c] = Idle /\ calls'[c] # Idle
                       /\ calls'[c].state \in {"approved", "deleted"}
  \/ \E s \in ServiceId : /\ lifecycle'[s] # lifecycle[s] /\ UNCHANGED calls
                          /\ lifecycle'[s].state \in {"approved", "deleted"}
  \/ \E u \in Caller : checked[u] = Idle /\ checked'[u] # Idle

Next == (Request \/ Platform) /\ hasty' = (hasty \/ (Decisive /\ ~ Settled))

Spec == Init /\ [][Next]_vars

\* People who wait for everything to settle before they decide anything.
PatientSpec == Init /\ [][Next /\ ~ hasty']_vars

-----------------------------------------------------------------------------
(* Properties                                                               *)

\* The shape of the queues and of the requests in flight; the containers are
\* those of the two components.
TypeOK ==
  /\ L!TypeOK /\ P!TypeOK
  /\ changed \in SUBSET ServiceId
  /\ requestPublication \in SUBSET PublicationMessages
  /\ requestDeletion \in SUBSET [id : ServiceId, dequeueCount : 0..MaxDequeue - 1]
  /\ leased \in [Worker -> PublicationMessages \cup {Idle}]
  /\ checked \in [Caller -> [id : ServiceId, action : {"publish", "unpublish"}]
                             \cup {Idle}]
  /\ abandoned \in SUBSET ServiceId
  /\ unpublishedAt \in [ServiceId -> Nat]
  /\ hasty \in BOOLEAN

\* End to end, whatever is redelivered, reordered or lost: a content that is in
\* the publication container was approved, after it was submitted; and if it is
\* published, either its owner submitted it to be published on approval or he
\* called publish.
PublishedWasSubmitted ==
  \A s \in ServiceId : publication[s] # NoItem =>
    \E v, w \in versions :
      /\ v.id = s /\ w.id = s
      /\ v.document.state = "submitted" /\ w.document.state = "approved"
      /\ v.document.version < w.document.version
      /\ v.document.content.data = publication[s].data
      /\ w.document.content.data = publication[s].data
      /\ publication[s].state = "published" =>
           v.document.content.autoPublish \/ s \in asked

\* When everything has settled and nothing was given up, the publication
\* container mirrors the lifecycle, if nobody decided too early: a deleted service
\* is not there, an approved one is there with the approved content.
SettledAgrees ==
  Settled /\ ~ hasty => \A s \in ServiceId \ abandoned : lifecycle[s] # NoItem =>
    /\ lifecycle[s].state = "deleted" => publication[s] = NoItem
    /\ lifecycle[s].state = "approved" =>
         /\ publication[s] # NoItem
         /\ publication[s].data = lifecycle[s].content.data

\* "When a service is deleted, we should delete from publication": what the
\* comment of the watcher says, once everything has settled.
DeletedIsNotPublished ==
  Settled => \A s \in ServiceId \ abandoned :
    lifecycle[s] # NoItem /\ lifecycle[s].state = "deleted" => publication[s] = NoItem

\* "Undo the last service publication and leave it in an unpublished state", and
\* autoPublish is the "flag to automatic publish a service on review approval":
\* a service its owner unpublished is not published again before he submits a
\* new version of it.
UnpublishHolds ==
  \A s \in ServiceId :
    /\ publication[s] # NoItem /\ publication[s].state = "published"
    /\ unpublishedAt[s] # 0
    => \E v \in versions : /\ v.id = s
                           /\ v.document.state = "submitted"
                           /\ v.document.version > unpublishedAt[s]

-----------------------------------------------------------------------------
(* Liveness                                                                 *)

\* The platform keeps running: a change is eventually checkpointed, a message is
\* eventually delivered, and a handler ends.
Fairness ==
  /\ \A s \in ServiceId : WF_systemVars(Watch(s, TRUE))
  /\ \A w \in Worker : WF_systemVars(EndRelease(w, TRUE))
  /\ WF_systemVars(\E w \in Worker, m \in requestPublication : StartRelease(w, m))
  /\ WF_systemVars(\E m \in requestDeletion : Deletor(m))

FairSpec == Spec /\ Fairness

\* A deletion reaches the publication container: the service eventually leaves
\* it (if only to come back with a late release), unless the deletion is
\* overwritten or given up.
DeletionIsPropagated ==
  \A s \in ServiceId :
    (s \in changed /\ L!Status[s] = "deleted") ~>
      publication[s] = NoItem \/ L!Status[s] # "deleted" \/ s \in abandoned

Approved(s, data) ==
  L!Status[s] = "approved" /\ data = lifecycle[s].content.data

\* An approval reaches the publication container: the approved content is
\* eventually there, unless the service is changed first or it is given up.
ApprovalIsPropagated ==
  \A s \in ServiceId, data \in Data :
    (s \in changed /\ Approved(s, data)) ~>
      \/ IF publication[s] = NoItem THEN FALSE ELSE publication[s].data = data
      \/ ~ Approved(s, data)
      \/ s \in abandoned
=============================================================================
