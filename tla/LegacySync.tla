------------------------------ MODULE LegacySync -----------------------------
(***************************************************************************)
(* The history of a service, and its synchronisation with the legacy       *)
(* system, which keeps services of its own.                                *)
(*                                                                         *)
(* Every write of the lifecycle and of the publication container is copied *)
(* in the history container (historicizer/), under its modified_at. The    *)
(* watcher of the history (on-service-history-change.ts) sends to the      *)
(* legacy container what it must know (request-sync-legacy-handler.ts).    *)
(* The watcher of the legacy container (on-legacy-service-change.ts) sends *)
(* back what legacy users changed, and request-sync-cms-handler.ts         *)
(* overrides both containers with it. Two marks keep a change from going   *)
(* round in circles: lastTransition "sync from Legacy" and cmsTag.         *)
(*                                                                         *)
(* A request of the owner or of the review is one step here: its read and  *)
(* its write are apart in ServiceLifecycle and in ServicePublication.      *)
(***************************************************************************)
EXTENDS Naturals, Sequences, SequencesExt

CONSTANTS
  ServiceId, NoItem,
  Tick,          \* milliseconds between a change and the next one
  Second,        \* the milliseconds of a second
  MaxChange,     \* bound: changes people make
  MaxFault       \* bound: repeated or lost messages, half-done overrides

ASSUME TickAssumption == Tick \subseteq Nat /\ Second \in Nat \ {0}
ASSUME BoundAssumption == MaxChange \in Nat /\ MaxFault \in Nat

VARIABLES
  lifecycle, publication,   \* the two containers of the CMS
  history,                  \* services-history
  legacy,                   \* legacy[s]: the versions of s, each a document
  feed,                     \* changes the watchers have not handled
  queue,                    \* messages not handled yet, by queue
  overriding,               \* messages whose lifecycle items are saved
  clock,                    \* unixTimestamp
  stored,                   \* history: every document the CMS ever stored
  changes, faults, lost,    \* changes and faults so far, services with a lost message
  hasty                     \* history: a change was made before all had settled

cms == <<lifecycle, publication, stored, clock>>
people == <<changes, hasty>>
vars == <<cms, history, legacy, feed, queue, overriding, people, faults, lost>>

-----------------------------------------------------------------------------
(* The documents                                                            *)

\* A content is the number of the change that brought it.
Data == 0..MaxChange
Fresh == changes + 1

LifecycleState == {"draft", "submitted", "approved", "rejected", "deleted"}
PublicationState == {"published", "unpublished"}

\* fromLegacy: lastTransition is SYNC_FROM_LEGACY.
Document == [data : Data, state : LifecycleState \cup PublicationState,
             autoPublish : BOOLEAN, fromLegacy : BOOLEAN, modified_at : Nat]

ASSUME MarkerAssumption == NoItem \notin Document

Is(item, state) == item # NoItem /\ item.state = state

\* A version of the legacy container, with the second of its save, _ts. "DELETED"
\* starts the name of a deleted one.
Version == [data : Data, isVisible : BOOLEAN, deleted : BOOLEAN,
            cmsTag : BOOLEAN, ts : Nat]

Diagram == INSTANCE LifecycleDiagram
             WITH status <- [s \in ServiceId |-> IF lifecycle[s] = NoItem THEN "*"
                                                 ELSE lifecycle[s].state],
                  asked <- [s \in ServiceId |-> {}]

-----------------------------------------------------------------------------
(* What goes wrong                                                          *)

\* A message is handled and deleted; or handled and delivered again; or it is
\* given up without being handled.
Handled(name, m) ==
  \/ queue' = [queue EXCEPT ![name] = @ \ {m}] /\ UNCHANGED faults
  \/ UNCHANGED queue /\ faults < MaxFault /\ faults' = faults + 1

GiveUp(name, m) ==
  /\ m \in queue[name]
  /\ faults < MaxFault /\ faults' = faults + 1
  /\ queue' = [queue EXCEPT ![name] = @ \ {m}]
  /\ lost' = lost \cup {m.id}
  /\ UNCHANGED <<cms, history, legacy, feed, overriding, people>>

-----------------------------------------------------------------------------
(* Writes of the two containers                                             *)

\* Each write is a change in the feed of its container.
SaveLifecycle(s, document) ==
  /\ lifecycle' = [lifecycle EXCEPT ![s] = document]
  /\ feed' = [feed EXCEPT !.lifecycle = @ \cup {s}]
  /\ stored' = stored \cup {[id |-> s, document |-> document]}
  /\ UNCHANGED publication

SavePublication(s, document) ==
  /\ publication' = [publication EXCEPT ![s] = document]
  /\ feed' = [feed EXCEPT !.publication = @ \cup {s}]
  /\ stored' = stored \cup {[id |-> s, document |-> document]}
  /\ UNCHANGED lifecycle

\* What the CMS itself writes carries the time of the write.
Own(data, state, autoPublish) ==
  [data |-> data, state |-> state, autoPublish |-> autoPublish,
   fromLegacy |-> FALSE, modified_at |-> clock]

unixSeconds == clock \div Second

TimePasses == \E t \in Tick : clock' = clock + t

-----------------------------------------------------------------------------
(* People                                                                   *)

\* Nothing is on its way between the containers.
Settled ==
  /\ \A name \in DOMAIN queue : queue[name] = {}
  /\ \A name \in DOMAIN feed : feed[name] = {}
  /\ overriding = {}

Change ==
  /\ changes < MaxChange
  /\ changes' = changes + 1
  /\ hasty' = (hasty \/ ~ Settled)
  /\ TimePasses

\* A transition of the lifecycle, along an arrow of its diagram. An edit brings
\* a new content, a submission decides autoPublish.
ChangeLifecycle(s) ==
  /\ Change
  /\ \E arrow \in Diagram!Arrows, autoPublish \in BOOLEAN :
       LET item == lifecycle[s] IN
       /\ arrow.from = IF item = NoItem THEN "*" ELSE item.state
       /\ CASE arrow.to = "submitted" -> TRUE
            [] arrow.to = "approved" -> autoPublish = item.autoPublish
            [] OTHER -> ~ autoPublish
       /\ SaveLifecycle(s, Own(IF arrow.to = "draft" THEN Fresh ELSE item.data,
                               arrow.to, autoPublish))
  /\ UNCHANGED <<history, legacy, queue, overriding, faults, lost>>

\* publish and unpublish, which are refused on a deleted service.
ChangePublication(s) ==
  /\ Change
  /\ lifecycle[s] # NoItem /\ ~ Is(lifecycle[s], "deleted")
  /\ publication[s] # NoItem
  /\ \E state \in PublicationState \ {publication[s].state} :
       SavePublication(s, Own(publication[s].data, state, FALSE))
  /\ UNCHANGED <<history, legacy, queue, overriding, faults, lost>>

\* A user of the legacy system saves a version, which has no cmsTag.
ChangeLegacy(s) ==
  /\ Change
  /\ legacy[s] # <<>> => ~ Last(legacy[s]).deleted
  /\ \E look \in {"visible", "hidden", "deleted"} :
       /\ look = "deleted" => legacy[s] # <<>>
       /\ legacy' = [legacy EXCEPT ![s] = Append(@,
            [data |-> Fresh, isVisible |-> look = "visible",
             deleted |-> look = "deleted", cmsTag |-> FALSE, ts |-> unixSeconds])]
  /\ feed' = [feed EXCEPT !.legacy = @ \cup {<<s, Len(legacy'[s])>>}]
  /\ UNCHANGED <<lifecycle, publication, stored, history, queue, overriding,
                 faults, lost>>

-----------------------------------------------------------------------------
(* The watchers of the CMS containers                                       *)

Item(s, document) == [id |-> s, document |-> document]

\* Wrong on purpose: what comes from the legacy system is published too.
WatchLifecycleAlways(s) ==
  LET item == lifecycle[s] IN
  /\ s \in feed.lifecycle
  /\ feed' = [feed EXCEPT !.lifecycle = @ \ {s}]
  /\ queue' =
       [queue EXCEPT
          !.requestHistoricization = @ \cup {Item(s, item)},
          !.requestPublication =
            IF item.state = "approved" THEN @ \cup {Item(s, item)} ELSE @,
          !.requestDeletion =
            IF item.state = "deleted" THEN @ \cup {Item(s, item)} ELSE @]
  /\ UNCHANGED <<cms, history, legacy, overriding, people, faults, lost>>

\* Every change is historicized. Those that come from the legacy system are
\* handled there, but for deletions.
WatchLifecycle(s) ==
  LET item == lifecycle[s]
      specific == ~ item.fromLegacy \/ item.state = "deleted" IN
  /\ s \in feed.lifecycle
  /\ feed' = [feed EXCEPT !.lifecycle = @ \ {s}]
  /\ queue' =
       [queue EXCEPT
          !.requestHistoricization = @ \cup {Item(s, item)},
          !.requestPublication = IF specific /\ item.state = "approved"
                                 THEN @ \cup {Item(s, item)} ELSE @,
          !.requestDeletion = IF specific /\ item.state = "deleted"
                              THEN @ \cup {Item(s, item)} ELSE @]
  /\ UNCHANGED <<cms, history, legacy, overriding, people, faults, lost>>

\* A deletion does not appear in the change feed.
WatchPublication(s) ==
  /\ s \in feed.publication
  /\ feed' = [feed EXCEPT !.publication = @ \ {s}]
  /\ queue' = IF publication[s] = NoItem THEN queue
              ELSE [queue EXCEPT !.requestHistoricization =
                      @ \cup {Item(s, publication[s])}]
  /\ UNCHANGED <<cms, history, legacy, overriding, people, faults, lost>>

\* The publicator and the deletor.
Release(m) ==
  /\ m \in queue.requestPublication
  /\ Handled("requestPublication", m)
  /\ SavePublication(m.id,
       Own(m.document.data,
           IF m.document.autoPublish THEN "published" ELSE "unpublished", FALSE))
  /\ TimePasses
  /\ UNCHANGED <<history, legacy, overriding, people, lost>>

Delete(m) ==
  /\ m \in queue.requestDeletion
  /\ Handled("requestDeletion", m)
  /\ publication' = [publication EXCEPT ![m.id] = NoItem]
  /\ UNCHANGED <<lifecycle, stored, clock, history, legacy, feed, overriding,
                 people, lost>>

-----------------------------------------------------------------------------
(* The history, and from there to the legacy system                         *)

\* toServiceHistory: the id of a history document is its modified_at, and the
\* output binding upserts it.
Historicize(m) ==
  /\ m \in queue.requestHistoricization
  /\ Handled("requestHistoricization", m)
  /\ history' = {h \in history : h.id = m.id =>
                   h.document.modified_at # m.document.modified_at} \cup {m}
  /\ feed' = [feed EXCEPT !.history = @ \cup {<<m.id, m.document.modified_at>>}]
  /\ UNCHANGED <<cms, legacy, overriding, people, lost>>

\* Wrong on purpose: what came from the legacy system is sent back.
shouldEchoBeSynced(h) ==
  \/ h.document.state \in PublicationState \cup {"deleted"}
  \/ publication[h.id] = NoItem

shouldServiceBeSynced(h) ==
  /\ ~ h.document.fromLegacy
  /\ \/ h.document.state \in PublicationState \cup {"deleted"}
     \/ publication[h.id] = NoItem

\* The watcher sees the document that has the key now.
WatchHistory(key) ==
  /\ key \in feed.history
  /\ feed' = [feed EXCEPT !.history = @ \ {key}]
  /\ \E h \in history :
       /\ <<h.id, h.document.modified_at>> = key
       /\ queue' = IF shouldServiceBeSynced(h)
                   THEN [queue EXCEPT !.requestSyncLegacy = @ \cup {h}]
                   ELSE queue
  /\ UNCHANGED <<cms, history, legacy, overriding, people, faults, lost>>

\* cmsToLegacy, and the new version of the legacy service. (The model refuses a
\* version that exists already, and the handler is called again: one step.)
SyncLegacy(m) ==
  /\ m \in queue.requestSyncLegacy
  /\ Handled("requestSyncLegacy", m)
  /\ legacy' = [legacy EXCEPT ![m.id] = Append(@,
       [data |-> m.document.data,
        isVisible |-> m.document.state = "published",
        deleted |-> m.document.state = "deleted", cmsTag |-> TRUE, ts |-> unixSeconds])]
  /\ feed' = [feed EXCEPT !.legacy = @ \cup {<<m.id, Len(legacy'[m.id])>>}]
  /\ UNCHANGED <<cms, history, overriding, people, lost>>

-----------------------------------------------------------------------------
(* From the legacy system to the CMS                                        *)

\* serviceWasPublished looks at the version before.
wasPublished(s, i) == i > 1 /\ legacy[s][i - 1].isVisible

getLegacyToCmsStatus(s, i) ==
  LET v == legacy[s][i] IN
  IF v.deleted THEN {"deleted"}
  ELSE IF v.isVisible THEN {"approved", "published"}
  ELSE IF wasPublished(s, i) THEN {"approved", "unpublished"}
  ELSE {"draft"}

\* Wrong on purpose: the two documents have the same modified_at.
sameModifiedAt(ts, state) == ts * Second

\* unixSecondsToMillis: the changes of a second have the same time. The publication
\* is a millisecond younger, not to overwrite in the history the lifecycle document
\* of the same change.
calculateModifiedAt(ts, state) ==
  ts * Second + (IF state \in PublicationState THEN 1 ELSE 0)

\* One message with all the items of a version; the CMS's own are ignored.
WatchLegacy(s, i) ==
  /\ <<s, i>> \in feed.legacy
  /\ feed' = [feed EXCEPT !.legacy = @ \ {<<s, i>>}]
  /\ LET v == legacy[s][i]
         items == {[data |-> v.data, state |-> state, autoPublish |-> FALSE,
                    fromLegacy |-> TRUE,
                    modified_at |-> calculateModifiedAt(v.ts, state)] :
                   state \in getLegacyToCmsStatus(s, i)}
     IN queue' = IF v.cmsTag THEN queue
                 ELSE [queue EXCEPT !.requestSyncCms =
                         @ \cup {[id |-> s, items |-> items]}]
  /\ UNCHANGED <<cms, history, legacy, overriding, people, faults, lost>>

\* Wrong on purpose: every item is taken for a lifecycle.
noItems(m) == {}

PublicationItems(m) == {item \in m.items : item.state \in PublicationState}

\* handleQueueItem, first part: the lifecycle is overridden whatever its state.
OverrideLifecycle(m) ==
  /\ m \in queue.requestSyncCms
  /\ \E item \in m.items \ PublicationItems(m) : SaveLifecycle(m.id, item)
  /\ IF PublicationItems(m) = {}
     THEN Handled("requestSyncCms", m) /\ UNCHANGED overriding
     ELSE /\ overriding' = overriding \cup {m}
          /\ queue' = [queue EXCEPT !.requestSyncCms = @ \ {m}]
          /\ UNCHANGED faults
  /\ UNCHANGED <<clock, history, legacy, people, lost>>

\* Second part: the publication; the message is deleted or comes again.
OverridePublication(m) ==
  /\ m \in overriding
  /\ overriding' = overriding \ {m}
  /\ \E item \in PublicationItems(m) : SavePublication(m.id, item)
  /\ UNCHANGED <<clock, history, legacy, queue, people, faults, lost>>

\* Wrong on purpose: the error is swallowed, and the message deleted.
SwallowOverride(m) ==
  /\ m \in overriding
  /\ faults < MaxFault /\ faults' = faults + 1
  /\ overriding' = overriding \ {m}
  /\ UNCHANGED <<cms, history, legacy, feed, queue, people, lost>>

\* The second part fails, or the instance stops: all is done again.
FailOverride(m) ==
  /\ m \in overriding
  /\ faults < MaxFault /\ faults' = faults + 1
  /\ overriding' = overriding \ {m}
  /\ queue' = [queue EXCEPT !.requestSyncCms = @ \cup {m}]
  /\ UNCHANGED <<cms, history, legacy, feed, people, lost>>

-----------------------------------------------------------------------------
\* A service before anything happens, a service under review, a published one
\* and one that only the legacy system publishes, when all has settled.
Past(state, autoPublish) ==
  [data |-> 0, state |-> state, autoPublish |-> autoPublish, fromLegacy |-> FALSE,
   modified_at |-> IF state = "published" THEN 1 ELSE 0]

InitWith(documents, versions) ==
  /\ stored = [id : ServiceId, document : documents]
  /\ history = stored
  /\ lifecycle = [s \in ServiceId |->
       IF documents = {} THEN NoItem
       ELSE CHOOSE d \in documents : d.state \in LifecycleState]
  /\ publication = [s \in ServiceId |->
       IF \E d \in documents : d.state = "published"
       THEN CHOOSE d \in documents : d.state = "published" ELSE NoItem]
  /\ legacy = [s \in ServiceId |-> versions]

PastVersion(isVisible) ==
  [data |-> 0, isVisible |-> isVisible, deleted |-> FALSE, cmsTag |-> TRUE, ts |-> 0]

Init ==
  /\ \/ InitWith({}, <<>>)
     \/ \E autoPublish \in BOOLEAN :
          InitWith({Past("submitted", autoPublish)}, <<PastVersion(FALSE)>>)
     \/ InitWith({Past("approved", TRUE), Past("published", FALSE)},
                 <<PastVersion(TRUE)>>)
  /\ feed = [lifecycle |-> {}, publication |-> {}, history |-> {}, legacy |-> {}]
  /\ queue = [name \in {"requestPublication", "requestDeletion", "requestSyncCms",
                        "requestHistoricization", "requestSyncLegacy"} |-> {}]
  /\ overriding = {}
  /\ clock = 2
  /\ changes = 0 /\ faults = 0 /\ lost = {} /\ hasty = FALSE

People == \E s \in ServiceId :
            ChangeLifecycle(s) \/ ChangePublication(s) \/ ChangeLegacy(s)

Watcher ==
  \/ \E s \in ServiceId : WatchLifecycle(s) \/ WatchPublication(s)
  \/ \E key \in feed.history : WatchHistory(key)
  \/ \E key \in feed.legacy : WatchLegacy(key[1], key[2])

Handler ==
  \/ \E m \in queue.requestPublication : Release(m)
  \/ \E m \in queue.requestDeletion : Delete(m)
  \/ \E m \in queue.requestHistoricization : Historicize(m)
  \/ \E m \in queue.requestSyncLegacy : SyncLegacy(m)
  \/ \E m \in queue.requestSyncCms : OverrideLifecycle(m)
  \/ \E m \in overriding : OverridePublication(m)

Failure ==
  \/ \E name \in DOMAIN queue : \E m \in queue[name] : GiveUp(name, m)
  \/ \E m \in overriding : FailOverride(m)

Next == People \/ Watcher \/ Handler \/ Failure

Spec == Init /\ [][Next]_vars

-----------------------------------------------------------------------------
(* Properties                                                               *)

Items == [id : ServiceId, document : Document]

\* The shape of the containers, of the feeds and of the queues.
TypeOK ==
  /\ lifecycle \in [ServiceId -> Document \cup {NoItem}]
  /\ publication \in [ServiceId -> Document \cup {NoItem}]
  /\ \A s \in ServiceId :
       /\ lifecycle[s] # NoItem => lifecycle[s].state \in LifecycleState
       /\ publication[s] # NoItem => publication[s].state \in PublicationState
  /\ history \in SUBSET Items /\ stored \in SUBSET Items
  /\ legacy \in [ServiceId -> Seq(Version)]
  /\ feed.lifecycle \in SUBSET ServiceId /\ feed.publication \in SUBSET ServiceId
  /\ feed.history \in SUBSET (ServiceId \X Nat)
  /\ feed.legacy \in SUBSET (ServiceId \X (Nat \ {0}))
  /\ \A name \in DOMAIN queue \ {"requestSyncCms"} : queue[name] \in SUBSET Items
  /\ \A m \in queue.requestSyncCms \cup overriding :
       m.id \in ServiceId /\ m.items \in SUBSET Document
  /\ lost \in SUBSET ServiceId /\ hasty \in BOOLEAN
  /\ faults \in 0..MaxFault /\ changes \in 0..MaxChange /\ clock \in Nat

\* A version of the legacy system says what a CMS document says.
Says(version, document) ==
  /\ version.data = document.data
  /\ version.isVisible = (document.state = "published")
  /\ version.deleted = (document.state = "deleted")

\* No echo: what the CMS writes in the legacy system was written in the CMS by
\* its own users, and what the legacy system writes in the CMS was written there
\* by its own; no change travels the circle, and no draft becomes visible.
NoEcho ==
  /\ \A s \in ServiceId : \A i \in DOMAIN legacy[s] : legacy[s][i].cmsTag =>
       \E w \in stored : /\ w.id = s /\ ~ w.document.fromLegacy
                         /\ Says(legacy[s][i], w.document)
  /\ \A w \in stored : w.document.fromLegacy =>
       \E i \in DOMAIN legacy[w.id] :
         /\ ~ legacy[w.id][i].cmsTag
         /\ legacy[w.id][i].data = w.document.data
         /\ w.document.state = "published" => legacy[w.id][i].isVisible
         /\ w.document.state = "deleted" <=> legacy[w.id][i].deleted

\* Two changes of s stored a document with the same modified_at.
Collided(s, modified_at) ==
  \E v, w \in stored :
    /\ v # w /\ v.id = s /\ w.id = s
    /\ v.document.modified_at = modified_at /\ w.document.modified_at = modified_at
    /\ ~ (v.document.fromLegacy /\ w.document.fromLegacy
          /\ v.document.data = w.document.data)

\* When everything has settled, the history holds the current document of each
\* container, unless another one has the same modified_at.
HistoryHoldsLatest ==
  Settled => \A s \in ServiceId \ lost :
    \A document \in {lifecycle[s], publication[s]} \ {NoItem} :
      \/ Item(s, document) \in history
      \/ Collided(s, document.modified_at)

\* The CMS wrote a lifecycle and a publication of s in the same millisecond: one
\* of the two takes the place of the other in the history, which may not be
\* watched before.
Together(s) ==
  \E v, w \in stored :
    /\ v.id = s /\ w.id = s
    /\ ~ v.document.fromLegacy /\ ~ w.document.fromLegacy
    /\ v.document.state \in LifecycleState /\ w.document.state \in PublicationState
    /\ v.document.modified_at = w.document.modified_at

\* If people wait for everything to settle before the next change, then the app
\* and the legacy system agree on what citizens see: a service visible in the
\* legacy system is published with that content; one deleted there is not
\* published, and one that was visible and that a legacy user has hidden is not
\* published any more. A release in the millisecond of its approval may get lost.
SettledAgrees ==
  Settled /\ ~ hasty =>
  \A s \in ServiceId \ lost : legacy[s] # <<>> /\ ~ Together(s) =>
    LET v == Last(legacy[s]) IN
    /\ v.isVisible => /\ Is(publication[s], "published")
                      /\ publication[s].data = v.data
    /\ v.deleted => publication[s] = NoItem
    /\ wasPublished(s, Len(legacy[s])) /\ ~ v.isVisible /\ ~ v.cmsTag =>
         ~ Is(publication[s], "published")

-----------------------------------------------------------------------------
(* Liveness                                                                 *)

\* The platform goes on: every change is watched, every message handled.
Fairness == WF_vars(Watcher) /\ WF_vars(Handler)

FairSpec == Spec /\ Fairness

\* A version that a legacy user saved has reached the CMS, both containers.
Arrived(s, i) ==
  \A state \in getLegacyToCmsStatus(s, i) :
    \E w \in stored : /\ w.id = s /\ w.document.state = state
                      /\ w.document.fromLegacy /\ w.document.data = legacy[s][i].data

\* What legacy users save reaches the CMS, whatever step of the override fails,
\* unless a message is given up.
LegacyChangeArrives ==
  \A s \in ServiceId :
    LET Behind == \E i \in DOMAIN legacy[s] : ~ legacy[s][i].cmsTag /\ ~ Arrived(s, i)
    IN Behind ~> ~ Behind \/ s \in lost
=============================================================================
