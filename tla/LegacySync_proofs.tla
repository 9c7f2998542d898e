-------------------------- MODULE LegacySync_proofs --------------------------
(***************************************************************************)
(* Proofs about LegacySync, for any set of services and any number of      *)
(* changes, faults and milliseconds between them.                          *)
(***************************************************************************)
EXTENDS LegacySync, SequenceTheorems, TLAPS

-----------------------------------------------------------------------------
(* The shape of the state                                                   *)

QueueName == {"requestPublication", "requestDeletion", "requestSyncCms",
              "requestHistoricization", "requestSyncLegacy"}

Feed == [lifecycle : SUBSET ServiceId, publication : SUBSET ServiceId,
         history : SUBSET (ServiceId \X Nat),
         legacy : SUBSET (ServiceId \X (Nat \ {0}))]

\* The feeds tell of what is there.
Shape ==
  /\ TypeOK
  /\ feed \in Feed
  /\ queue = [name \in QueueName |-> queue[name]]
  /\ \A s \in feed.lifecycle : lifecycle[s] # NoItem
  /\ \A s \in ServiceId, i \in Nat : <<s, i>> \in feed.legacy => i \in 1..Len(legacy[s])

\* The messages of request-sync-cms, wherever they are.
FromLegacy == queue.requestSyncCms \cup overriding

LEMMA ShapeParts ==
  ASSUME Shape
  PROVE  /\ lifecycle \in [ServiceId -> Document \cup {NoItem}]
         /\ publication \in [ServiceId -> Document \cup {NoItem}]
         /\ \A s \in ServiceId :
              /\ lifecycle[s] # NoItem => lifecycle[s].state \in LifecycleState
              /\ publication[s] # NoItem => publication[s].state \in PublicationState
         /\ history \in SUBSET Items /\ stored \in SUBSET Items
         /\ legacy \in [ServiceId -> Seq(Version)]
         /\ feed \in Feed
         /\ feed.lifecycle \in SUBSET ServiceId /\ feed.publication \in SUBSET ServiceId
         /\ feed.history \in SUBSET (ServiceId \X Nat)
         /\ feed.legacy \in SUBSET (ServiceId \X (Nat \ {0}))
         /\ queue = [name \in QueueName |-> queue[name]]
         /\ queue.requestPublication \in SUBSET Items
         /\ queue.requestDeletion \in SUBSET Items
         /\ queue.requestHistoricization \in SUBSET Items
         /\ queue.requestSyncLegacy \in SUBSET Items
         /\ \A m \in FromLegacy : m.id \in ServiceId /\ m.items \in SUBSET Document
         /\ lost \in SUBSET ServiceId /\ hasty \in BOOLEAN
         /\ faults \in 0..MaxFault /\ changes \in 0..MaxChange /\ clock \in Nat
         /\ \A s \in feed.lifecycle : lifecycle[s] # NoItem
         /\ \A s \in ServiceId, i \in Nat :
              <<s, i>> \in feed.legacy => i \in 1..Len(legacy[s])
  <1>1. DOMAIN queue = QueueName
    BY DEF Shape
  <1>2. QED
    BY <1>1 DEF Shape, TypeOK, FromLegacy, QueueName, Feed

LEMMA ShapeOfParts ==
  ASSUME lifecycle' \in [ServiceId -> Document \cup {NoItem}],
         publication' \in [ServiceId -> Document \cup {NoItem}],
         \A s \in ServiceId :
              /\ lifecycle'[s] # NoItem => lifecycle'[s].state \in LifecycleState
              /\ publication'[s] # NoItem => publication'[s].state \in PublicationState,
         history' \in SUBSET Items, stored' \in SUBSET Items,
         legacy' \in [ServiceId -> Seq(Version)],
         feed' \in Feed,
         queue' = [name \in QueueName |-> queue'[name]],
         queue'.requestPublication \in SUBSET Items,
         queue'.requestDeletion \in SUBSET Items,
         queue'.requestHistoricization \in SUBSET Items,
         queue'.requestSyncLegacy \in SUBSET Items,
         \A m \in FromLegacy' : m.id \in ServiceId /\ m.items \in SUBSET Document,
         lost' \in SUBSET ServiceId, hasty' \in BOOLEAN,
         faults' \in 0..MaxFault, changes' \in 0..MaxChange, clock' \in Nat,
         \A s \in feed'.lifecycle : lifecycle'[s] # NoItem,
         \A s \in ServiceId, i \in Nat :
              <<s, i>> \in feed'.legacy => i \in 1..Len(legacy'[s])
  PROVE  Shape'
  <1>1. DOMAIN queue' = QueueName
    OBVIOUS
  <1>2. \A name \in DOMAIN queue' \ {"requestSyncCms"} : queue'[name] \in SUBSET Items
    BY <1>1 DEF QueueName
  <1>3. /\ feed'.lifecycle \in SUBSET ServiceId /\ feed'.publication \in SUBSET ServiceId
        /\ feed'.history \in SUBSET (ServiceId \X Nat)
        /\ feed'.legacy \in SUBSET (ServiceId \X (Nat \ {0}))
    BY DEF Feed
  <1>4. TypeOK'
    BY <1>2, <1>3 DEF TypeOK, FromLegacy
  <1>5. QED
    BY <1>4 DEF Shape

LEMMA ItemTyped ==
  /\ \A s \in ServiceId, d \in Document : Item(s, d) \in Items
  /\ \A s, d : Item(s, d).id = s /\ Item(s, d).document = d
  /\ \A w \in Items : /\ w.id \in ServiceId /\ w.document \in Document
                      /\ w = Item(w.id, w.document)
  BY DEF Item, Items

LEMMA DocumentTyped ==
  \A d \in Document : /\ d.data \in Data /\ d.autoPublish \in BOOLEAN
                      /\ d.fromLegacy \in BOOLEAN /\ d.modified_at \in Nat
                      /\ d.state \in LifecycleState \cup PublicationState
  BY DEF Document

LEMMA OwnTyped ==
  ASSUME Shape, NEW data \in Data, NEW state \in LifecycleState \cup PublicationState,
         NEW autoPublish \in BOOLEAN
  PROVE  /\ Own(data, state, autoPublish) \in Document
         /\ Own(data, state, autoPublish).state = state
         /\ ~ Own(data, state, autoPublish).fromLegacy
  BY ShapeParts DEF Own, Document

\* A message handled leaves its queue, or stays there.
LEMMA HandledOnce ==
  ASSUME Shape, NEW name \in QueueName, NEW m, Handled(name, m)
  PROVE  /\ queue' = [n \in QueueName |-> queue'[n]]
         /\ \A n \in QueueName : n # name => queue'[n] = queue[n]
         /\ queue'[name] \in {queue[name], queue[name] \ {m}}
         /\ faults' \in 0..MaxFault
  <1> USE ShapeParts
  <1>1. CASE queue' = [queue EXCEPT ![name] = @ \ {m}] /\ UNCHANGED faults
    BY <1>1
  <1>2. CASE UNCHANGED queue /\ faults < MaxFault /\ faults' = faults + 1
    BY <1>2, BoundAssumption
  <1>3. QED
    BY <1>1, <1>2 DEF Handled

-----------------------------------------------------------------------------
(* What each step does                                                      *)

\* A write of one of the two containers, by the CMS or from the legacy system.
Writes(s, d) ==
  /\ d \in Document
  /\ \/ d.state \in LifecycleState /\ SaveLifecycle(s, d)
     \/ d.state \in PublicationState /\ SavePublication(s, d)
  /\ ~ d.fromLegacy \/ \E m \in FromLegacy : m.id = s /\ d \in m.items
  /\ UNCHANGED <<history, legacy, lost>>
  /\ queue' = [n \in QueueName |-> queue'[n]]
  /\ \A n \in QueueName : queue'[n] \in SUBSET queue[n]
  /\ queue'.requestHistoricization = queue.requestHistoricization
  /\ FromLegacy' \in SUBSET FromLegacy
  /\ changes' \in {changes, changes + 1} /\ changes' \in 0..MaxChange
  /\ clock' \in Nat /\ hasty' \in BOOLEAN /\ faults' \in 0..MaxFault

LEMMA Passes ==
  ASSUME Shape, TimePasses
  PROVE  clock' \in Nat
  BY ShapeParts, TickAssumption DEF TimePasses

\* The times of the legacy system, in seconds and back.
LEMMA SecondsType ==
  ASSUME Shape
  PROVE  /\ unixSeconds \in Nat
         /\ \A ts \in Nat : \A state : calculateModifiedAt(ts, state) \in Nat
         /\ \A ts \in Nat : \A a, b :
              calculateModifiedAt(ts, a) = calculateModifiedAt(ts, b) =>
                (a \in PublicationState <=> b \in PublicationState)
  <1>1. clock \in Nat /\ Second \in Nat /\ Second > 0
    BY ShapeParts, TickAssumption
  <1>2. \A n \in Nat, k \in Nat \ {0} : n \div k \in Nat
    OBVIOUS
  <1>3. \A ts \in Nat : ts * Second \in Nat
    BY <1>1
  <1>4. QED
    BY <1>1, <1>2, <1>3 DEF unixSeconds, calculateModifiedAt

LEMMA Changed ==
  ASSUME Shape, Change
  PROVE  /\ changes' = changes + 1 /\ changes' \in 0..MaxChange
         /\ clock' \in Nat /\ hasty' \in BOOLEAN
         /\ Fresh \in Data /\ Fresh = changes'
  <1>1. clock' \in Nat
    BY Passes DEF Change
  <1>2. QED
    BY <1>1, ShapeParts, BoundAssumption DEF Change, Data, Fresh

LEMMA ChangeLifecycleWrites ==
  ASSUME Shape, NEW s \in ServiceId, ChangeLifecycle(s)
  PROVE  \E d : Writes(s, d)
  <1> USE ShapeParts
  <1>1. Change
    BY DEF ChangeLifecycle
  <1>2. PICK arrow \in Diagram!Arrows, autoPublish \in BOOLEAN :
          /\ arrow.from = IF lifecycle[s] = NoItem THEN "*" ELSE lifecycle[s].state
          /\ SaveLifecycle(s, Own(IF arrow.to = "draft" THEN Fresh ELSE lifecycle[s].data,
                                  arrow.to, autoPublish))
    BY DEF ChangeLifecycle
  <1>3. arrow.to \in LifecycleState /\ (arrow.from = "*" => arrow.to = "draft")
    BY <1>2 DEF Diagram!Arrows, Diagram!Arrow, LifecycleState
  <1> DEFINE data == IF arrow.to = "draft" THEN Fresh ELSE lifecycle[s].data
  <1>4. data \in Data
    BY <1>1, <1>2, <1>3, Changed, DocumentTyped
  <1>5. PICK d : d = Own(data, arrow.to, autoPublish)
    OBVIOUS
  <1>6. SaveLifecycle(s, d)
    BY <1>2, <1>5
  <1> HIDE DEF data
  <1>7. d \in Document /\ d.state = arrow.to /\ ~ d.fromLegacy
    BY <1>3, <1>4, <1>5, OwnTyped
  <1>8. UNCHANGED <<history, legacy, queue, overriding, faults, lost>>
    BY DEF ChangeLifecycle
  <1>9. Writes(s, d)
    BY <1>1, <1>3, <1>6, <1>7, <1>8, Changed DEF Writes, FromLegacy
  <1>10. QED
    BY <1>9

LEMMA ChangePublicationWrites ==
  ASSUME Shape, NEW s \in ServiceId, ChangePublication(s)
  PROVE  \E d : Writes(s, d)
  <1> USE ShapeParts
  <1>1. Change /\ publication[s] # NoItem
    BY DEF ChangePublication
  <1>2. PICK state \in PublicationState :
          SavePublication(s, Own(publication[s].data, state, FALSE))
    BY DEF ChangePublication
  <1>3. publication[s].data \in Data
    BY <1>1, DocumentTyped
  <1>4. PICK d : d = Own(publication[s].data, state, FALSE)
    OBVIOUS
  <1>5. d \in Document /\ d.state = state /\ ~ d.fromLegacy
    BY <1>3, <1>4, OwnTyped
  <1>6. UNCHANGED <<history, legacy, queue, overriding, faults, lost>>
    BY DEF ChangePublication
  <1>7. Writes(s, d)
    BY <1>1, <1>2, <1>4, <1>5, <1>6, Changed DEF Writes, FromLegacy
  <1>8. QED
    BY <1>7

LEMMA ReleaseWrites ==
  ASSUME Shape, NEW m \in queue.requestPublication, Release(m)
  PROVE  \E s \in ServiceId : \E d : Writes(s, d)
  <1> USE ShapeParts
  <1>1. m.id \in ServiceId /\ m.document.data \in Data
    BY ItemTyped, DocumentTyped
  <1> DEFINE state == IF m.document.autoPublish THEN "published" ELSE "unpublished"
  <1>2. PICK d : d = Own(m.document.data, state, FALSE)
    OBVIOUS
  <1>3. SavePublication(m.id, d)
    BY <1>2 DEF Release
  <1>4. state \in PublicationState
    BY DEF PublicationState
  <1> HIDE DEF state
  <1>5. d \in Document /\ d.state = state /\ ~ d.fromLegacy
    BY <1>1, <1>2, <1>4, OwnTyped
  <1>6. /\ clock' \in Nat
        /\ UNCHANGED <<history, legacy, overriding, changes, hasty, lost>>
    BY Passes DEF Release, people
  <1>7. Handled("requestPublication", m) /\ "requestPublication" \in QueueName
    BY DEF Release, QueueName
  <1>8. /\ queue' = [n \in QueueName |-> queue'[n]]
        /\ \A n \in QueueName : n # "requestPublication" => queue'[n] = queue[n]
        /\ queue'["requestPublication"] \in SUBSET queue["requestPublication"]
        /\ faults' \in 0..MaxFault
    BY <1>7, HandledOnce
  <1>9. /\ \A n \in QueueName : queue'[n] \in SUBSET queue[n]
        /\ queue'.requestHistoricization = queue.requestHistoricization
        /\ queue'.requestSyncCms = queue.requestSyncCms
    BY <1>8 DEF QueueName
  <1>10. FromLegacy' = FromLegacy
    BY <1>6, <1>9 DEF FromLegacy
  <1>11. Writes(m.id, d)
    BY <1>3, <1>4, <1>5, <1>6, <1>8, <1>9, <1>10 DEF Writes
  <1>12. QED
    BY <1>1, <1>11

LEMMA OverrideWrites ==
  ASSUME Shape, NEW m,
         \/ m \in queue.requestSyncCms /\ OverrideLifecycle(m)
         \/ m \in overriding /\ OverridePublication(m)
  PROVE  \E s \in ServiceId : \E d : Writes(s, d)
  <1> USE ShapeParts
  <1>1. m \in FromLegacy /\ m.id \in ServiceId /\ m.items \in SUBSET Document
    BY DEF FromLegacy
  <1>2. \A d \in m.items : d.state \in LifecycleState \/ d \in PublicationItems(m)
    BY <1>1, DocumentTyped DEF PublicationItems
  <1>3. CASE m \in queue.requestSyncCms /\ OverrideLifecycle(m)
    <2>1. PICK d \in m.items \ PublicationItems(m) : SaveLifecycle(m.id, d)
      BY <1>3 DEF OverrideLifecycle
    <2>2. UNCHANGED <<clock, history, legacy, changes, hasty, lost>>
      BY <1>3 DEF OverrideLifecycle, people
    <2>3. /\ queue' = [n \in QueueName |-> queue'[n]]
          /\ \A n \in QueueName : n # "requestSyncCms" => queue'[n] = queue[n]
          /\ queue'["requestSyncCms"] \in SUBSET queue["requestSyncCms"]
          /\ overriding' \in {overriding, overriding \cup {m}}
          /\ faults' \in 0..MaxFault
      <3>1. "requestSyncCms" \in QueueName
        BY DEF QueueName
      <3>2. CASE PublicationItems(m) = {}
        BY <1>3, <3>1, <3>2, HandledOnce DEF OverrideLifecycle
      <3>3. CASE PublicationItems(m) # {}
        BY <1>3, <3>1, <3>3 DEF OverrideLifecycle
      <3>4. QED
        BY <3>2, <3>3
    <2>4. /\ \A n \in QueueName : queue'[n] \in SUBSET queue[n]
          /\ queue'.requestHistoricization = queue.requestHistoricization
          /\ queue'.requestSyncCms \in SUBSET queue.requestSyncCms
      BY <2>3 DEF QueueName
    <2>5. FromLegacy' \in SUBSET FromLegacy
      BY <1>1, <2>3, <2>4 DEF FromLegacy
    <2>6. Writes(m.id, d)
      BY <1>1, <1>2, <2>1, <2>2, <2>3, <2>4, <2>5 DEF Writes
    <2>7. QED
      BY <1>1, <2>6
  <1>4. CASE m \in overriding /\ OverridePublication(m)
    <2>1. PICK d \in PublicationItems(m) : SavePublication(m.id, d)
      BY <1>4 DEF OverridePublication
    <2>2. /\ UNCHANGED <<clock, history, legacy, queue, changes, hasty, faults, lost>>
          /\ overriding' = overriding \ {m}
      BY <1>4 DEF OverridePublication, people
    <2>3. d \in m.items /\ d.state \in PublicationState
      BY <2>1 DEF PublicationItems
    <2>4. FromLegacy' \in SUBSET FromLegacy
      BY <2>2 DEF FromLegacy
    <2>5. Writes(m.id, d)
      BY <1>1, <2>1, <2>2, <2>3, <2>4 DEF Writes
    <2>6. QED
      BY <1>1, <2>5
  <1>5. QED
    BY <1>3, <1>4

\* A version that is added to the legacy container, by its users or by the CMS.
Appends(s, v) ==
  /\ v \in Version
  /\ legacy' = [legacy EXCEPT ![s] = Append(@, v)]
  /\ feed' = [feed EXCEPT !.legacy = @ \cup {<<s, Len(legacy[s]) + 1>>}]
  /\ UNCHANGED <<lifecycle, publication, stored, history, overriding, lost>>
  /\ queue' = [n \in QueueName |-> queue'[n]]
  /\ \A n \in QueueName : queue'[n] \in SUBSET queue[n]
  /\ queue'.requestHistoricization = queue.requestHistoricization
  /\ queue'.requestSyncCms = queue.requestSyncCms
  /\ clock' \in Nat /\ hasty' \in BOOLEAN /\ faults' \in 0..MaxFault
  /\ changes' \in 0..MaxChange
  /\ v.deleted => ~ v.isVisible
  /\ \/ ~ v.cmsTag /\ v.data = changes' /\ changes' = changes + 1
     \/ /\ v.cmsTag /\ changes' = changes
        /\ \E w \in queue.requestSyncLegacy : w.id = s /\ Says(v, w.document)

LEMMA LastOfAppend ==
  ASSUME Shape, NEW s \in ServiceId, NEW v,
         legacy' = [legacy EXCEPT ![s] = Append(@, v)]
  PROVE  Len(legacy'[s]) = Len(legacy[s]) + 1
  <1>1. legacy[s] \in Seq(Version)
    BY ShapeParts
  <1>2. legacy'[s] = Append(legacy[s], v)
    BY ShapeParts
  <1>3. QED
    BY <1>1, <1>2

LEMMA ChangeLegacyAppends ==
  ASSUME Shape, NEW s \in ServiceId, ChangeLegacy(s)
  PROVE  \E v : Appends(s, v)
  <1> USE ShapeParts
  <1>1. Change
    BY DEF ChangeLegacy
  <1>2. PICK look \in {"visible", "hidden", "deleted"} :
          legacy' = [legacy EXCEPT ![s] = Append(@,
            [data |-> Fresh, isVisible |-> look = "visible",
             deleted |-> look = "deleted", cmsTag |-> FALSE, ts |-> unixSeconds])]
    BY DEF ChangeLegacy
  <1>3. PICK v : v = [data |-> Fresh, isVisible |-> look = "visible",
                      deleted |-> look = "deleted", cmsTag |-> FALSE, ts |-> unixSeconds]
    OBVIOUS
  <1>4. v \in Version /\ ~ v.cmsTag /\ v.data = changes' /\ (v.deleted => ~ v.isVisible)
    BY <1>1, <1>3, Changed, SecondsType DEF Version
  <1>5. legacy' = [legacy EXCEPT ![s] = Append(@, v)]
    BY <1>2, <1>3
  <1>6. feed' = [feed EXCEPT !.legacy = @ \cup {<<s, Len(legacy[s]) + 1>>}]
    BY <1>5, LastOfAppend DEF ChangeLegacy
  <1>7. UNCHANGED <<lifecycle, publication, stored, history, queue, overriding,
                    faults, lost>>
    BY DEF ChangeLegacy
  <1>8. Appends(s, v)
    BY <1>1, <1>4, <1>5, <1>6, <1>7, Changed DEF Appends
  <1>9. QED
    BY <1>8

LEMMA SyncLegacyAppends ==
  ASSUME Shape, NEW m \in queue.requestSyncLegacy, SyncLegacy(m)
  PROVE  \E s \in ServiceId : \E v : Appends(s, v)
  <1> USE ShapeParts
  <1>1. m.id \in ServiceId /\ m.document.data \in Data
    BY ItemTyped, DocumentTyped
  <1>2. PICK v : v = [data |-> m.document.data,
                      isVisible |-> m.document.state = "published",
                      deleted |-> m.document.state = "deleted",
                      cmsTag |-> TRUE, ts |-> unixSeconds]
    OBVIOUS
  <1>3. v \in Version /\ v.cmsTag /\ Says(v, m.document) /\ (v.deleted => ~ v.isVisible)
    BY <1>1, <1>2, SecondsType DEF Version, Says
  <1>4. legacy' = [legacy EXCEPT ![m.id] = Append(@, v)]
    BY <1>2 DEF SyncLegacy
  <1>5. Len(legacy'[m.id]) = Len(legacy[m.id]) + 1
    BY <1>1, <1>4, LastOfAppend
  <1>6. feed' = [feed EXCEPT !.legacy = @ \cup {<<m.id, Len(legacy[m.id]) + 1>>}]
    BY <1>5 DEF SyncLegacy
  <1>7. UNCHANGED <<lifecycle, publication, stored, clock, history, overriding,
                    changes, hasty, lost>>
    BY DEF SyncLegacy, cms, people
  <1>8. Handled("requestSyncLegacy", m) /\ "requestSyncLegacy" \in QueueName
    BY DEF SyncLegacy, QueueName
  <1>9. /\ queue' = [n \in QueueName |-> queue'[n]]
        /\ \A n \in QueueName : n # "requestSyncLegacy" => queue'[n] = queue[n]
        /\ queue'["requestSyncLegacy"] \in SUBSET queue["requestSyncLegacy"]
        /\ faults' \in 0..MaxFault
    BY <1>8, HandledOnce
  <1>10. /\ \A n \in QueueName : queue'[n] \in SUBSET queue[n]
         /\ queue'.requestHistoricization = queue.requestHistoricization
         /\ queue'.requestSyncCms = queue.requestSyncCms
    BY <1>9 DEF QueueName
  <1>11. Appends(m.id, v)
    BY <1>3, <1>4, <1>6, <1>7, <1>9, <1>10 DEF Appends
  <1>12. QED
    BY <1>1, <1>11

\* What the watcher of a container puts in the queues.
Watches(s, document) ==
  /\ document \in Document
  /\ queue' = [n \in QueueName |-> queue'[n]]
  /\ queue'.requestHistoricization = queue.requestHistoricization \cup {Item(s, document)}
  /\ queue'.requestPublication \in SUBSET (queue.requestPublication \cup {Item(s, document)})
  /\ queue'.requestDeletion \in SUBSET (queue.requestDeletion \cup {Item(s, document)})
  /\ queue'.requestSyncCms = queue.requestSyncCms
  /\ queue'.requestSyncLegacy = queue.requestSyncLegacy

LEMMA WatchLifecycleSends ==
  ASSUME Shape, NEW s \in ServiceId, WatchLifecycle(s)
  PROVE  /\ Watches(s, lifecycle[s])
         /\ feed' = [feed EXCEPT !.lifecycle = @ \ {s}]
         /\ UNCHANGED <<cms, history, legacy, overriding, people, faults, lost>>
  <1> USE ShapeParts
  <1>1. lifecycle[s] \in Document
    BY DEF WatchLifecycle
  <1> DEFINE item == lifecycle[s]
  <1> DEFINE specific == ~ item.fromLegacy \/ item.state = "deleted"
  <1>2. queue' =
         [queue EXCEPT
            !.requestHistoricization = @ \cup {Item(s, item)},
            !.requestPublication = IF specific /\ item.state = "approved"
                                   THEN @ \cup {Item(s, item)} ELSE @,
            !.requestDeletion = IF specific /\ item.state = "deleted"
                                THEN @ \cup {Item(s, item)} ELSE @]
    BY DEF WatchLifecycle
  <1> HIDE DEF item, specific
  <1>3. Watches(s, item)
    BY <1>1, <1>2 DEF Watches, QueueName, item
  <1>4. QED
    BY <1>3 DEF WatchLifecycle, item

LEMMA WatchPublicationSends ==
  ASSUME Shape, NEW s \in ServiceId, WatchPublication(s)
  PROVE  /\ IF publication[s] = NoItem THEN queue' = queue
            ELSE Watches(s, publication[s])
         /\ feed' = [feed EXCEPT !.publication = @ \ {s}]
         /\ UNCHANGED <<cms, history, legacy, overriding, people, faults, lost>>
  <1> USE ShapeParts
  <1>1. CASE publication[s] = NoItem
    BY <1>1 DEF WatchPublication
  <1>2. CASE publication[s] # NoItem
    <2>1. publication[s] \in Document
      BY <1>2
    <2>2. PICK d : d = publication[s]
      OBVIOUS
    <2>3. queue' = [queue EXCEPT !.requestHistoricization = @ \cup {Item(s, d)}]
      BY <1>2, <2>2 DEF WatchPublication
    <2>4. Watches(s, d)
      BY <2>1, <2>2, <2>3 DEF Watches, QueueName
    <2>5. QED
      BY <1>2, <2>2, <2>4 DEF WatchPublication
  <1>3. QED
    BY <1>1, <1>2

\* The items that the watcher of the legacy container makes of a version.
FromVersion(s, i) ==
  {[data |-> legacy[s][i].data, state |-> state, autoPublish |-> FALSE,
    fromLegacy |-> TRUE,
    modified_at |-> calculateModifiedAt(legacy[s][i].ts, state)] :
   state \in getLegacyToCmsStatus(s, i)}

LEMMA VersionTyped ==
  ASSUME Shape, NEW s \in ServiceId, NEW i \in DOMAIN legacy[s]
  PROVE  /\ legacy[s][i] \in Version
         /\ FromVersion(s, i) \in SUBSET Document
  <1>1. legacy[s][i] \in Version
    BY ShapeParts, ElementOfSeq, LenProperties
  <1>2. getLegacyToCmsStatus(s, i) \in SUBSET (LifecycleState \cup PublicationState)
    BY DEF getLegacyToCmsStatus, LifecycleState, PublicationState
  <1>3. ASSUME NEW state \in getLegacyToCmsStatus(s, i)
        PROVE  [data |-> legacy[s][i].data, state |-> state, autoPublish |-> FALSE,
                fromLegacy |-> TRUE,
                modified_at |-> calculateModifiedAt(legacy[s][i].ts, state)]
               \in Document
    <2>1. calculateModifiedAt(legacy[s][i].ts, state) \in Nat
      BY <1>1, SecondsType DEF Version
    <2>2. legacy[s][i].data \in Data
      BY <1>1 DEF Version
    <2>3. QED
      BY <1>2, <2>1, <2>2 DEF Document
  <1>4. QED
    BY <1>1, <1>3 DEF FromVersion

LEMMA WatchLegacySends ==
  ASSUME Shape, NEW key \in feed.legacy, WatchLegacy(key[1], key[2])
  PROVE  \E s \in ServiceId : \E i \in DOMAIN legacy[s] :
           /\ queue' = [n \in QueueName |-> queue'[n]]
           /\ \A n \in QueueName \ {"requestSyncCms"} : queue'[n] = queue[n]
           /\ \/ queue'.requestSyncCms = queue.requestSyncCms
              \/ /\ ~ legacy[s][i].cmsTag
                 /\ \E m : /\ m.id = s /\ m.items = FromVersion(s, i)
                           /\ queue'.requestSyncCms = queue.requestSyncCms \cup {m}
           /\ feed' = [feed EXCEPT !.legacy = @ \ {<<s, i>>}]
           /\ UNCHANGED <<cms, history, legacy, overriding, people, faults, lost>>
  <1> USE ShapeParts
  <1>1. PICK s \in ServiceId, i \in Nat : key = <<s, i>>
    OBVIOUS
  <1>2. i \in DOMAIN legacy[s]
    BY <1>1, LenProperties
  <1>3. WatchLegacy(s, i)
    BY <1>1
  <1>4. PICK m : m = [id |-> s, items |-> FromVersion(s, i)]
    OBVIOUS
  <1>5. m.id = s /\ m.items = FromVersion(s, i)
    BY <1>4
  <1>6. queue' = IF legacy[s][i].cmsTag THEN queue
                 ELSE [queue EXCEPT !.requestSyncCms = @ \cup {m}]
    BY <1>3, <1>4 DEF WatchLegacy, FromVersion
  <1>7. /\ feed' = [feed EXCEPT !.legacy = @ \ {<<s, i>>}]
        /\ UNCHANGED <<cms, history, legacy, overriding, people, faults, lost>>
    BY <1>3 DEF WatchLegacy
  <1>8. CASE legacy[s][i].cmsTag
    BY <1>2, <1>6, <1>7, <1>8
  <1>9. CASE ~ legacy[s][i].cmsTag
    <2>1. queue' = [queue EXCEPT !.requestSyncCms = @ \cup {m}]
      BY <1>6, <1>9
    <2>2. /\ queue' = [n \in QueueName |-> queue'[n]]
          /\ \A n \in QueueName \ {"requestSyncCms"} : queue'[n] = queue[n]
          /\ queue'.requestSyncCms = queue.requestSyncCms \cup {m}
      BY <2>1 DEF QueueName
    <2>3. QED
      BY <1>2, <1>5, <1>7, <1>9, <2>2
  <1>10. QED
    BY <1>8, <1>9

LEMMA WatchHistorySends ==
  ASSUME Shape, NEW key \in feed.history, WatchHistory(key)
  PROVE  /\ queue' = [n \in QueueName |-> queue'[n]]
         /\ \A n \in QueueName \ {"requestSyncLegacy"} : queue'[n] = queue[n]
         /\ \/ queue'.requestSyncLegacy = queue.requestSyncLegacy
            \/ \E h \in history :
                 /\ ~ h.document.fromLegacy
                 /\ queue'.requestSyncLegacy = queue.requestSyncLegacy \cup {h}
         /\ feed' = [feed EXCEPT !.history = @ \ {key}]
         /\ UNCHANGED <<cms, history, legacy, overriding, people, faults, lost>>
  <1> USE ShapeParts
  <1>1. PICK h \in history :
          queue' = IF shouldServiceBeSynced(h)
                   THEN [queue EXCEPT !.requestSyncLegacy = @ \cup {h}]
                   ELSE queue
    BY DEF WatchHistory
  <1>2. shouldServiceBeSynced(h) => ~ h.document.fromLegacy
    BY DEF shouldServiceBeSynced
  <1>3. CASE shouldServiceBeSynced(h)
    <2>1. queue' = [queue EXCEPT !.requestSyncLegacy = @ \cup {h}]
      BY <1>1, <1>3
    <2>2. /\ queue' = [n \in QueueName |-> queue'[n]]
          /\ \A n \in QueueName \ {"requestSyncLegacy"} : queue'[n] = queue[n]
          /\ queue'.requestSyncLegacy = queue.requestSyncLegacy \cup {h}
      BY <2>1 DEF QueueName
    <2>3. QED
      BY <1>2, <1>3, <2>2 DEF WatchHistory
  <1>4. CASE ~ shouldServiceBeSynced(h)
    BY <1>1, <1>4 DEF WatchHistory
  <1>5. QED
    BY <1>3, <1>4

LEMMA DeleteRemoves ==
  ASSUME Shape, NEW m \in queue.requestDeletion, Delete(m)
  PROVE  /\ \E s \in ServiceId : publication' = [publication EXCEPT ![s] = NoItem]
         /\ UNCHANGED <<lifecycle, stored, clock, history, legacy, feed, overriding,
                        changes, hasty, lost>>
         /\ queue' = [n \in QueueName |-> queue'[n]]
         /\ \A n \in QueueName : queue'[n] \in SUBSET queue[n]
         /\ queue'.requestHistoricization = queue.requestHistoricization
         /\ queue'.requestSyncCms = queue.requestSyncCms
         /\ faults' \in 0..MaxFault
  <1> USE ShapeParts
  <1>1. m.id \in ServiceId
    BY ItemTyped
  <1>2. Handled("requestDeletion", m) /\ "requestDeletion" \in QueueName
    BY DEF Delete, QueueName
  <1>3. /\ queue' = [n \in QueueName |-> queue'[n]]
        /\ \A n \in QueueName : n # "requestDeletion" => queue'[n] = queue[n]
        /\ queue'["requestDeletion"] \in SUBSET queue["requestDeletion"]
        /\ faults' \in 0..MaxFault
    BY <1>2, HandledOnce
  <1>4. QED
    BY <1>1, <1>3 DEF Delete, QueueName, people

LEMMA HistoricizeStores ==
  ASSUME Shape, NEW m \in queue.requestHistoricization, Historicize(m)
  PROVE  /\ history' = {h \in history : h.id = m.id =>
                          h.document.modified_at # m.document.modified_at} \cup {m}
         /\ feed' = [feed EXCEPT !.history = @ \cup {<<m.id, m.document.modified_at>>}]
         /\ UNCHANGED <<cms, legacy, overriding, people, lost>>
         /\ queue' = [n \in QueueName |-> queue'[n]]
         /\ \A n \in QueueName \ {"requestHistoricization"} : queue'[n] = queue[n]
         /\ queue'.requestHistoricization \in
              {queue.requestHistoricization, queue.requestHistoricization \ {m}}
         /\ faults' \in 0..MaxFault
  <1>1. Handled("requestHistoricization", m) /\ "requestHistoricization" \in QueueName
    BY DEF Historicize, QueueName
  <1>2. QED
    BY <1>1, HandledOnce DEF Historicize

LEMMA GiveUpLoses ==
  ASSUME Shape, NEW name \in QueueName, NEW m \in queue[name], GiveUp(name, m)
  PROVE  /\ queue' = [n \in QueueName |-> queue'[n]]
         /\ \A n \in QueueName : queue'[n] \in SUBSET queue[n]
         /\ queue'.requestHistoricization \in
              {queue.requestHistoricization, queue.requestHistoricization \ {m}}
         /\ lost' = lost \cup {m.id} /\ m.id \in ServiceId
         /\ faults' \in 0..MaxFault
         /\ UNCHANGED <<cms, history, legacy, feed, overriding, people>>
  <1> USE ShapeParts
  <1>1. m.id \in ServiceId
    BY ItemTyped DEF QueueName, FromLegacy
  <1>2. /\ queue' = [queue EXCEPT ![name] = @ \ {m}]
        /\ faults < MaxFault /\ faults' = faults + 1
    BY DEF GiveUp
  <1>3. /\ queue' = [n \in QueueName |-> queue'[n]]
        /\ \A n \in QueueName : queue'[n] \in {queue[n], queue[n] \ {m}}
    BY <1>2
  <1>4. queue'.requestHistoricization \in
          {queue.requestHistoricization, queue.requestHistoricization \ {m}}
    BY <1>3 DEF QueueName
  <1>5. QED
    BY <1>1, <1>2, <1>3, <1>4, BoundAssumption DEF GiveUp

LEMMA FailOverrideRepeats ==
  ASSUME Shape, NEW m \in overriding, FailOverride(m)
  PROVE  /\ queue' = [n \in QueueName |-> queue'[n]]
         /\ \A n \in QueueName \ {"requestSyncCms"} : queue'[n] = queue[n]
         /\ FromLegacy' \in SUBSET FromLegacy
         /\ faults' \in 0..MaxFault
         /\ UNCHANGED <<cms, history, legacy, feed, people, lost>>
  <1> USE ShapeParts
  <1>1. /\ queue' = [queue EXCEPT !.requestSyncCms = @ \cup {m}]
        /\ overriding' = overriding \ {m}
        /\ faults < MaxFault /\ faults' = faults + 1
    BY DEF FailOverride
  <1>2. /\ queue' = [n \in QueueName |-> queue'[n]]
        /\ \A n \in QueueName \ {"requestSyncCms"} : queue'[n] = queue[n]
        /\ queue'.requestSyncCms = queue.requestSyncCms \cup {m}
    BY <1>1 DEF QueueName
  <1>3. FromLegacy' \in SUBSET FromLegacy
    BY <1>1, <1>2 DEF FromLegacy
  <1>4. QED
    BY <1>1, <1>2, <1>3, BoundAssumption DEF FailOverride

-----------------------------------------------------------------------------
(* The shape is kept                                                        *)

\* Every step is one of these.
LEMMA Steps ==
  ASSUME Shape, [Next]_vars
  PROVE  \/ \E s \in ServiceId : \E d : Writes(s, d)
         \/ \E s \in ServiceId : \E v : Appends(s, v)
         \/ \E m \in queue.requestDeletion : Delete(m)
         \/ \E s \in ServiceId : WatchLifecycle(s)
         \/ \E s \in ServiceId : WatchPublication(s)
         \/ \E key \in feed.history : WatchHistory(key)
         \/ \E key \in feed.legacy : WatchLegacy(key[1], key[2])
         \/ \E m \in queue.requestHistoricization : Historicize(m)
         \/ \E name \in QueueName : \E m \in queue[name] : GiveUp(name, m)
         \/ \E m \in overriding : FailOverride(m)
         \/ UNCHANGED vars
  <1>1. CASE People
    BY <1>1, ChangeLifecycleWrites, ChangePublicationWrites, ChangeLegacyAppends
    DEF People
  <1>2. CASE Watcher
    BY <1>2 DEF Watcher
  <1>3. CASE Handler
    BY <1>3, ReleaseWrites, OverrideWrites, SyncLegacyAppends DEF Handler
  <1>4. CASE Failure
    <2>1. DOMAIN queue = QueueName
      BY ShapeParts
    <2>2. QED
      BY <1>4, <2>1 DEF Failure
  <1>5. QED
    BY <1>1, <1>2, <1>3, <1>4 DEF Next

LEMMA ShapeInit ==
  ASSUME Init
  PROVE  Shape
  <1>1. PICK documents, versions :
          /\ InitWith(documents, versions)
          /\ \/ documents = {} /\ versions = <<>>
             \/ \E autoPublish \in BOOLEAN :
                  /\ documents = {Past("submitted", autoPublish)}
                  /\ versions = <<PastVersion(FALSE)>>
             \/ /\ documents = {Past("approved", TRUE), Past("published", FALSE)}
                /\ versions = <<PastVersion(TRUE)>>
    BY DEF Init
  <1>2. documents \in SUBSET Document /\ versions \in Seq(Version)
    <2>1. 0 \in Data
      BY BoundAssumption DEF Data
    <2>2. \A b \in BOOLEAN : PastVersion(b) \in Version
      BY <2>1 DEF PastVersion, Version
    <2>3. \A b \in BOOLEAN : \A state \in {"submitted", "approved", "published"} :
            Past(state, b) \in Document
      BY <2>1 DEF Past, Document, LifecycleState, PublicationState
    <2>4. /\ \A b \in BOOLEAN : Past("submitted", b) \in Document
          /\ Past("approved", TRUE) \in Document
          /\ Past("published", FALSE) \in Document
      BY <2>3
    <2>5. <<>> \in Seq(Version) /\ \A b \in BOOLEAN : <<PastVersion(b)>> \in Seq(Version)
      <3>1. ASSUME NEW v \in Version PROVE <<v>> \in Seq(Version)
        OBVIOUS
      <3>2. QED
        BY <2>2, <3>1
    <2>6. CASE documents = {} /\ versions = <<>>
      BY <2>5, <2>6
    <2>7. ASSUME NEW b \in BOOLEAN, documents = {Past("submitted", b)},
                 versions = <<PastVersion(FALSE)>>
          PROVE  documents \in SUBSET Document /\ versions \in Seq(Version)
      BY <2>4, <2>5, <2>7
    <2>8. CASE /\ documents = {Past("approved", TRUE), Past("published", FALSE)}
               /\ versions = <<PastVersion(TRUE)>>
      BY <2>4, <2>5, <2>8
    <2>9. QED
      BY <1>1, <2>6, <2>7, <2>8
  <1>3. documents # {} => \E d \in documents : d.state \in LifecycleState
    <2>1. /\ \A b \in BOOLEAN : Past("submitted", b).state \in LifecycleState
          /\ Past("approved", TRUE).state \in LifecycleState
      BY DEF Past, LifecycleState
    <2>2. ASSUME NEW b \in BOOLEAN, documents = {Past("submitted", b)}
          PROVE  \E d \in documents : d.state \in LifecycleState
      BY <2>1, <2>2
    <2>3. CASE documents = {Past("approved", TRUE), Past("published", FALSE)}
      BY <2>1, <2>3
    <2>4. QED
      BY <1>1, <2>2, <2>3
  <1>4. lifecycle \in [ServiceId -> Document \cup {NoItem}]
        /\ \A s \in ServiceId :
             lifecycle[s] # NoItem => lifecycle[s].state \in LifecycleState
    <2>1. CASE documents = {}
      BY <1>1, <2>1 DEF InitWith
    <2>2. CASE documents # {}
      <3>1. PICK d : /\ d = (CHOOSE c \in documents : c.state \in LifecycleState)
                     /\ d \in documents /\ d.state \in LifecycleState
        BY <1>3, <2>2
      <3>2. lifecycle = [s \in ServiceId |-> d]
        BY <1>1, <2>2, <3>1 DEF InitWith
      <3>3. QED
        BY <1>2, <3>1, <3>2
    <2>3. QED
      BY <2>1, <2>2
  <1>5. publication \in [ServiceId -> Document \cup {NoItem}]
        /\ \A s \in ServiceId :
             publication[s] # NoItem => publication[s].state \in PublicationState
    <2>1. CASE ~ \E d \in documents : d.state = "published"
      BY <1>1, <2>1 DEF InitWith
    <2>2. CASE \E d \in documents : d.state = "published"
      <3>1. PICK d : /\ d = (CHOOSE c \in documents : c.state = "published")
                     /\ d \in documents /\ d.state = "published"
        BY <2>2
      <3>2. publication = [s \in ServiceId |-> d]
        BY <1>1, <2>2, <3>1 DEF InitWith
      <3>3. QED
        BY <1>2, <3>1, <3>2 DEF PublicationState
    <2>3. QED
      BY <2>1, <2>2
  <1>6. stored \in SUBSET Items /\ history = stored
    BY <1>1, <1>2 DEF InitWith, Items
  <1>7. legacy \in [ServiceId -> Seq(Version)]
    BY <1>1, <1>2 DEF InitWith
  <1>8. /\ feed = [lifecycle |-> {}, publication |-> {}, history |-> {}, legacy |-> {}]
        /\ queue = [name \in QueueName |-> {}]
        /\ overriding = {}
        /\ clock = 2
        /\ changes = 0 /\ faults = 0 /\ lost = {} /\ hasty = FALSE
    BY DEF Init, QueueName
  <1>9. /\ feed \in Feed
        /\ queue = [name \in QueueName |-> queue[name]]
        /\ DOMAIN queue = QueueName
        /\ \A name \in QueueName : queue[name] = {}
        /\ FromLegacy = {}
    BY <1>8 DEF Feed, FromLegacy, QueueName
  <1>10. TypeOK
    <2>1. /\ \A name \in DOMAIN queue \ {"requestSyncCms"} : queue[name] \in SUBSET Items
          /\ \A m \in queue.requestSyncCms \cup overriding :
               m.id \in ServiceId /\ m.items \in SUBSET Document
      BY <1>9 DEF FromLegacy
    <2>2. faults \in 0..MaxFault /\ changes \in 0..MaxChange /\ clock \in Nat
      BY <1>8, BoundAssumption
    <2>3. /\ feed.lifecycle \in SUBSET ServiceId /\ feed.publication \in SUBSET ServiceId
          /\ feed.history \in SUBSET (ServiceId \X Nat)
          /\ feed.legacy \in SUBSET (ServiceId \X (Nat \ {0}))
          /\ lost \in SUBSET ServiceId /\ hasty \in BOOLEAN
      BY <1>8
    <2>4. /\ \A s \in ServiceId :
               /\ lifecycle[s] # NoItem => lifecycle[s].state \in LifecycleState
               /\ publication[s] # NoItem => publication[s].state \in PublicationState
      BY <1>4, <1>5
    <2>5. QED
      BY <1>4, <1>5, <1>6, <1>7, <2>1, <2>2, <2>3, <2>4 DEF TypeOK
  <1>11. QED
    BY <1>8, <1>9, <1>10 DEF Shape

LEMMA WritesKeepShape ==
  ASSUME Shape, NEW s \in ServiceId, NEW d, Writes(s, d)
  PROVE  Shape'
  <1> USE ShapeParts
  <1>1. d \in Document /\ d # NoItem /\ Item(s, d) \in Items
    BY MarkerAssumption, ItemTyped DEF Writes
  <1>2. stored' = stored \cup {Item(s, d)}
    BY DEF Writes, SaveLifecycle, SavePublication, Item
  <1>3. stored' \in SUBSET Items
    BY <1>1, <1>2
  <1>4. /\ UNCHANGED <<history, legacy, lost>>
        /\ queue' = [n \in QueueName |-> queue'[n]]
        /\ FromLegacy' \in SUBSET FromLegacy
        /\ changes' \in 0..MaxChange
        /\ clock' \in Nat /\ hasty' \in BOOLEAN /\ faults' \in 0..MaxFault
    BY DEF Writes
  <1>5. /\ queue'.requestPublication \in SUBSET Items
        /\ queue'.requestDeletion \in SUBSET Items
        /\ queue'.requestHistoricization \in SUBSET Items
        /\ queue'.requestSyncLegacy \in SUBSET Items
    BY DEF Writes, QueueName
  <1>6. /\ lifecycle' \in [ServiceId -> Document \cup {NoItem}]
        /\ publication' \in [ServiceId -> Document \cup {NoItem}]
        /\ \A r \in ServiceId :
             /\ lifecycle'[r] # NoItem => lifecycle'[r].state \in LifecycleState
             /\ publication'[r] # NoItem => publication'[r].state \in PublicationState
        /\ feed' \in Feed
        /\ feed'.legacy = feed.legacy
        /\ \A r \in feed'.lifecycle : lifecycle'[r] # NoItem
    <2>1. CASE d.state \in LifecycleState /\ SaveLifecycle(s, d)
      <3>1. /\ lifecycle' = [lifecycle EXCEPT ![s] = d]
            /\ publication' = publication
            /\ feed' = [feed EXCEPT !.lifecycle = @ \cup {s}]
        BY <2>1 DEF SaveLifecycle
      <3>2. feed' \in Feed /\ feed'.legacy = feed.legacy
            /\ feed'.lifecycle = feed.lifecycle \cup {s}
        BY <3>1 DEF Feed
      <3>3. QED
        BY <1>1, <2>1, <3>1, <3>2
    <2>2. CASE d.state \in PublicationState /\ SavePublication(s, d)
      <3>1. /\ publication' = [publication EXCEPT ![s] = d]
            /\ lifecycle' = lifecycle
            /\ feed' = [feed EXCEPT !.publication = @ \cup {s}]
        BY <2>2 DEF SavePublication
      <3>2. feed' \in Feed /\ feed'.legacy = feed.legacy
            /\ feed'.lifecycle = feed.lifecycle
        BY <3>1 DEF Feed
      <3>3. QED
        BY <1>1, <2>2, <3>1, <3>2
    <2>3. QED
      BY <2>1, <2>2 DEF Writes
  <1>7. /\ history' \in SUBSET Items /\ legacy' \in [ServiceId -> Seq(Version)]
        /\ lost' \in SUBSET ServiceId
        /\ \A m \in FromLegacy' : m.id \in ServiceId /\ m.items \in SUBSET Document
        /\ \A r \in ServiceId, i \in Nat :
              <<r, i>> \in feed'.legacy => i \in 1..Len(legacy'[r])
    BY <1>4, <1>6
  <1> HIDE ShapeParts
  <1>8. QED
    BY <1>3, <1>4, <1>5, <1>6, <1>7, ShapeOfParts

LEMMA AppendsKeepShape ==
  ASSUME Shape, NEW s \in ServiceId, NEW v, Appends(s, v)
  PROVE  Shape'
  <1> USE ShapeParts
  <1>1. /\ v \in Version
        /\ legacy' = [legacy EXCEPT ![s] = Append(@, v)]
        /\ feed' = [feed EXCEPT !.legacy = @ \cup {<<s, Len(legacy[s]) + 1>>}]
        /\ UNCHANGED <<lifecycle, publication, stored, history, overriding, lost>>
        /\ queue' = [n \in QueueName |-> queue'[n]]
        /\ queue'.requestSyncCms = queue.requestSyncCms
        /\ clock' \in Nat /\ hasty' \in BOOLEAN /\ faults' \in 0..MaxFault
        /\ changes' \in 0..MaxChange
    BY DEF Appends
  <1>2. /\ queue'.requestPublication \in SUBSET Items
        /\ queue'.requestDeletion \in SUBSET Items
        /\ queue'.requestHistoricization \in SUBSET Items
        /\ queue'.requestSyncLegacy \in SUBSET Items
    BY DEF Appends, QueueName
  <1>3. legacy[s] \in Seq(Version) /\ Append(legacy[s], v) \in Seq(Version)
    BY <1>1
  <1>4. legacy' \in [ServiceId -> Seq(Version)] /\ Len(legacy'[s]) = Len(legacy[s]) + 1
        /\ \A r \in ServiceId : r # s => legacy'[r] = legacy[r]
    BY <1>1, <1>3, LastOfAppend
  <1>5. Len(legacy[s]) \in Nat /\ <<s, Len(legacy[s]) + 1>> \in ServiceId \X (Nat \ {0})
    BY <1>3, LenProperties
  <1>6. /\ feed' \in Feed /\ feed'.lifecycle = feed.lifecycle
        /\ feed'.legacy = feed.legacy \cup {<<s, Len(legacy[s]) + 1>>}
    BY <1>1, <1>5 DEF Feed
  <1>7. ASSUME NEW r \in ServiceId, NEW i \in Nat, <<r, i>> \in feed'.legacy
        PROVE  i \in 1..Len(legacy'[r])
    <2>1. CASE r # s
      BY <1>4, <1>6, <1>7, <2>1
    <2>2. CASE r = s
      <3>1. i \in 1..Len(legacy[s]) \/ i = Len(legacy[s]) + 1
        BY <1>6, <1>7, <2>2
      <3>2. QED
        BY <1>4, <1>5, <2>2, <3>1
    <2>3. QED
      BY <2>1, <2>2
  <1>8. FromLegacy' = FromLegacy
    BY <1>1 DEF FromLegacy
  <1>9. /\ lifecycle' = lifecycle /\ publication' = publication /\ stored' = stored
        /\ history' = history /\ lost' = lost
    BY <1>1
  <1>10. QED
    BY <1>1, <1>2, <1>4, <1>6, <1>7, <1>8, <1>9, ShapeOfParts

\* The watchers leave the containers as they are, and only take from the feeds.
LEMMA WatchedKeepsShape ==
  ASSUME Shape,
         UNCHANGED <<cms, history, legacy, overriding, people, faults, lost>>,
         feed' \in Feed, feed'.lifecycle \in SUBSET feed.lifecycle,
         feed'.legacy \in SUBSET feed.legacy,
         queue' = [n \in QueueName |-> queue'[n]],
         queue'.requestPublication \in SUBSET Items,
         queue'.requestDeletion \in SUBSET Items,
         queue'.requestHistoricization \in SUBSET Items,
         queue'.requestSyncLegacy \in SUBSET Items,
         \A m \in queue'.requestSyncCms : m.id \in ServiceId /\ m.items \in SUBSET Document
  PROVE  Shape'
  <1> USE ShapeParts
  <1>1. /\ lifecycle' = lifecycle /\ publication' = publication /\ stored' = stored
        /\ history' = history /\ lost' = lost /\ legacy' = legacy
        /\ clock' = clock /\ hasty' = hasty /\ changes' = changes /\ faults' = faults
        /\ overriding' = overriding
    BY DEF cms, people
  <1>2. \A m \in FromLegacy' : m.id \in ServiceId /\ m.items \in SUBSET Document
    BY <1>1 DEF FromLegacy
  <1>3. QED
    BY <1>1, <1>2, ShapeOfParts

LEMMA WatchesItems ==
  ASSUME Shape, NEW s \in ServiceId, NEW d, Watches(s, d)
  PROVE  /\ queue' = [n \in QueueName |-> queue'[n]]
         /\ queue'.requestPublication \in SUBSET Items
         /\ queue'.requestDeletion \in SUBSET Items
         /\ queue'.requestHistoricization \in SUBSET Items
         /\ queue'.requestSyncLegacy \in SUBSET Items
         /\ \A m \in queue'.requestSyncCms : m.id \in ServiceId /\ m.items \in SUBSET Document
  <1>1. Item(s, d) \in Items
    BY ItemTyped DEF Watches
  <1>2. QED
    BY <1>1, ShapeParts DEF Watches, FromLegacy

LEMMA ShapeStep ==
  ASSUME Shape, [Next]_vars
  PROVE  Shape'
  <1>1. CASE \E s \in ServiceId : \E d : Writes(s, d)
    BY <1>1, WritesKeepShape
  <1>2. CASE \E s \in ServiceId : \E v : Appends(s, v)
    BY <1>2, AppendsKeepShape
  <1>3. ASSUME NEW m \in queue.requestDeletion, Delete(m)
        PROVE  Shape'
    <2> USE ShapeParts
    <2>1. /\ \E s \in ServiceId : publication' = [publication EXCEPT ![s] = NoItem]
          /\ lifecycle' = lifecycle /\ stored' = stored /\ clock' = clock
          /\ history' = history /\ legacy' = legacy /\ feed' = feed
          /\ overriding' = overriding /\ changes' = changes /\ hasty' = hasty
          /\ lost' = lost
          /\ queue' = [n \in QueueName |-> queue'[n]]
          /\ \A n \in QueueName : queue'[n] \in SUBSET queue[n]
          /\ queue'.requestSyncCms = queue.requestSyncCms
          /\ faults' \in 0..MaxFault
      BY <1>3, DeleteRemoves
    <2>2. /\ publication' \in [ServiceId -> Document \cup {NoItem}]
          /\ \A s \in ServiceId :
               publication'[s] # NoItem => publication'[s].state \in PublicationState
      BY <2>1
    <2>3. /\ queue'.requestPublication \in SUBSET Items
          /\ queue'.requestDeletion \in SUBSET Items
          /\ queue'.requestHistoricization \in SUBSET Items
          /\ queue'.requestSyncLegacy \in SUBSET Items
          /\ FromLegacy' = FromLegacy
      BY <2>1 DEF QueueName, FromLegacy
    <2>4. QED
      BY <2>1, <2>2, <2>3, ShapeOfParts
  <1>4. ASSUME NEW s \in ServiceId, WatchLifecycle(s)
        PROVE  Shape'
    <2>1. /\ feed' = [feed EXCEPT !.lifecycle = @ \ {s}]
          /\ UNCHANGED <<cms, history, legacy, overriding, people, faults, lost>>
          /\ Watches(s, lifecycle[s])
      BY <1>4, WatchLifecycleSends
    <2>2. /\ feed' \in Feed /\ feed'.lifecycle \in SUBSET feed.lifecycle
          /\ feed'.legacy \in SUBSET feed.legacy
      BY <2>1, ShapeParts DEF Feed
    <2>3. QED
      BY <2>1, <2>2, WatchesItems, WatchedKeepsShape
  <1>5. ASSUME NEW s \in ServiceId, WatchPublication(s)
        PROVE  Shape'
    <2>1. /\ feed' = [feed EXCEPT !.publication = @ \ {s}]
          /\ UNCHANGED <<cms, history, legacy, overriding, people, faults, lost>>
          /\ queue' = queue \/ Watches(s, publication[s])
      BY <1>5, WatchPublicationSends
    <2>2. /\ feed' \in Feed /\ feed'.lifecycle \in SUBSET feed.lifecycle
          /\ feed'.legacy \in SUBSET feed.legacy
      BY <2>1, ShapeParts DEF Feed
    <2>3. CASE queue' = queue
      BY <2>1, <2>2, <2>3, ShapeParts, WatchedKeepsShape DEF FromLegacy
    <2>4. QED
      BY <2>1, <2>2, <2>3, WatchesItems, WatchedKeepsShape
  <1>6. ASSUME NEW key \in feed.history, WatchHistory(key)
        PROVE  Shape'
    <2> USE ShapeParts
    <2>1. /\ queue' = [n \in QueueName |-> queue'[n]]
          /\ \A n \in QueueName \ {"requestSyncLegacy"} : queue'[n] = queue[n]
          /\ \/ queue'.requestSyncLegacy = queue.requestSyncLegacy
             \/ \E h \in history :
                  queue'.requestSyncLegacy = queue.requestSyncLegacy \cup {h}
          /\ feed' = [feed EXCEPT !.history = @ \ {key}]
          /\ UNCHANGED <<cms, history, legacy, overriding, people, faults, lost>>
      BY <1>6, WatchHistorySends
    <2>2. /\ feed' \in Feed /\ feed'.lifecycle = feed.lifecycle
          /\ feed'.legacy = feed.legacy
      BY <2>1 DEF Feed
    <2>3. /\ queue'.requestPublication = queue.requestPublication
          /\ queue'.requestDeletion = queue.requestDeletion
          /\ queue'.requestHistoricization = queue.requestHistoricization
          /\ queue'.requestSyncCms = queue.requestSyncCms
          /\ queue'.requestSyncLegacy \in SUBSET Items
      BY <2>1 DEF QueueName
    <2>4. QED
      BY <2>1, <2>2, <2>3, WatchedKeepsShape DEF FromLegacy
  <1>7. ASSUME NEW key \in feed.legacy, WatchLegacy(key[1], key[2])
        PROVE  Shape'
    <2> USE ShapeParts
    <2>1. PICK s \in ServiceId : \E i \in DOMAIN legacy[s] :
           /\ queue' = [n \in QueueName |-> queue'[n]]
           /\ \A n \in QueueName \ {"requestSyncCms"} : queue'[n] = queue[n]
           /\ \/ queue'.requestSyncCms = queue.requestSyncCms
              \/ \E m : /\ m.id = s /\ m.items = FromVersion(s, i)
                        /\ queue'.requestSyncCms = queue.requestSyncCms \cup {m}
           /\ feed' = [feed EXCEPT !.legacy = @ \ {<<s, i>>}]
           /\ UNCHANGED <<cms, history, legacy, overriding, people, faults, lost>>
      BY <1>7, WatchLegacySends
    <2>2. /\ feed' \in Feed /\ feed'.lifecycle = feed.lifecycle
          /\ feed'.legacy \in SUBSET feed.legacy
          /\ UNCHANGED <<cms, history, legacy, overriding, people, faults, lost>>
          /\ queue' = [n \in QueueName |-> queue'[n]]
      <3>1. PICK i \in DOMAIN legacy[s] : feed' = [feed EXCEPT !.legacy = @ \ {<<s, i>>}]
        BY <2>1
      <3>2. /\ feed' \in Feed /\ feed'.lifecycle = feed.lifecycle
            /\ feed'.legacy \in SUBSET feed.legacy
        BY <3>1 DEF Feed
      <3>3. QED
        BY <2>1, <3>2
    <2>3. /\ queue'.requestPublication = queue.requestPublication
          /\ queue'.requestDeletion = queue.requestDeletion
          /\ queue'.requestHistoricization = queue.requestHistoricization
          /\ queue'.requestSyncLegacy = queue.requestSyncLegacy
      BY <2>1 DEF QueueName
    <2>4. \A m \in queue'.requestSyncCms : m.id \in ServiceId /\ m.items \in SUBSET Document
      BY <2>1, VersionTyped DEF FromLegacy
    <2>5. QED
      BY <2>1, <2>2, <2>3, <2>4, WatchedKeepsShape
  <1>8. ASSUME NEW m \in queue.requestHistoricization, Historicize(m)
        PROVE  Shape'
    <2> USE ShapeParts
    <2>1. /\ history' \in SUBSET (history \cup {m})
          /\ feed' = [feed EXCEPT !.history = @ \cup {<<m.id, m.document.modified_at>>}]
          /\ UNCHANGED <<cms, legacy, overriding, people, lost>>
          /\ queue' = [n \in QueueName |-> queue'[n]]
          /\ \A n \in QueueName \ {"requestHistoricization"} : queue'[n] = queue[n]
          /\ queue'.requestHistoricization \in SUBSET queue.requestHistoricization
          /\ faults' \in 0..MaxFault
      BY <1>8, HistoricizeStores
    <2>2. m \in Items /\ m.id \in ServiceId /\ m.document.modified_at \in Nat
      BY ItemTyped, DocumentTyped
    <2>3. /\ feed' \in Feed /\ feed'.lifecycle = feed.lifecycle
          /\ feed'.legacy = feed.legacy
      <3>1. PICK key : key = <<m.id, m.document.modified_at>>
        OBVIOUS
      <3>2. key \in ServiceId \X Nat /\ feed' = [feed EXCEPT !.history = @ \cup {key}]
        BY <2>1, <2>2, <3>1
      <3>3. QED
        BY <3>2 DEF Feed
    <2>4. /\ queue'.requestPublication = queue.requestPublication
          /\ queue'.requestDeletion = queue.requestDeletion
          /\ queue'.requestHistoricization \in SUBSET Items
          /\ queue'.requestSyncLegacy = queue.requestSyncLegacy
          /\ queue'.requestSyncCms = queue.requestSyncCms
      BY <2>1 DEF QueueName
    <2>5. /\ lifecycle' = lifecycle /\ publication' = publication /\ stored' = stored
          /\ lost' = lost /\ legacy' = legacy /\ overriding' = overriding
          /\ clock' = clock /\ hasty' = hasty /\ changes' = changes
      BY <2>1 DEF cms, people
    <2>6. history' \in SUBSET Items /\ FromLegacy' = FromLegacy
      BY <2>1, <2>2, <2>4, <2>5 DEF FromLegacy
    <2>7. QED
      BY <2>1, <2>3, <2>4, <2>5, <2>6, ShapeOfParts
  <1>9. ASSUME NEW name \in QueueName, NEW m \in queue[name], GiveUp(name, m)
        PROVE  Shape'
    <2> USE ShapeParts
    <2>1. /\ queue' = [n \in QueueName |-> queue'[n]]
          /\ \A n \in QueueName : queue'[n] \in SUBSET queue[n]
          /\ lost' = lost \cup {m.id} /\ m.id \in ServiceId
          /\ faults' \in 0..MaxFault
          /\ UNCHANGED <<cms, history, legacy, feed, overriding, people>>
      BY <1>9, GiveUpLoses
    <2>2. /\ lifecycle' = lifecycle /\ publication' = publication /\ stored' = stored
          /\ history' = history /\ legacy' = legacy /\ overriding' = overriding
          /\ clock' = clock /\ hasty' = hasty /\ changes' = changes /\ feed' = feed
      BY <2>1 DEF cms, people
    <2>3. /\ queue'.requestPublication \in SUBSET Items
          /\ queue'.requestDeletion \in SUBSET Items
          /\ queue'.requestHistoricization \in SUBSET Items
          /\ queue'.requestSyncLegacy \in SUBSET Items
          /\ queue'.requestSyncCms \in SUBSET queue.requestSyncCms
      BY <2>1 DEF QueueName
    <2>4. \A n \in FromLegacy' : n.id \in ServiceId /\ n.items \in SUBSET Document
      BY <2>2, <2>3 DEF FromLegacy
    <2>5. QED
      BY <2>1, <2>2, <2>3, <2>4, ShapeOfParts
  <1>10. ASSUME NEW m \in overriding, FailOverride(m)
         PROVE  Shape'
    <2> USE ShapeParts
    <2>1. /\ queue' = [n \in QueueName |-> queue'[n]]
          /\ \A n \in QueueName \ {"requestSyncCms"} : queue'[n] = queue[n]
          /\ FromLegacy' \in SUBSET FromLegacy
          /\ faults' \in 0..MaxFault
          /\ UNCHANGED <<cms, history, legacy, feed, people, lost>>
      BY <1>10, FailOverrideRepeats
    <2>2. /\ lifecycle' = lifecycle /\ publication' = publication /\ stored' = stored
          /\ history' = history /\ legacy' = legacy /\ lost' = lost
          /\ clock' = clock /\ hasty' = hasty /\ changes' = changes /\ feed' = feed
      BY <2>1 DEF cms, people
    <2>3. /\ queue'.requestPublication = queue.requestPublication
          /\ queue'.requestDeletion = queue.requestDeletion
          /\ queue'.requestHistoricization = queue.requestHistoricization
          /\ queue'.requestSyncLegacy = queue.requestSyncLegacy
      BY <2>1 DEF QueueName
    <2>4. QED
      BY <2>1, <2>2, <2>3, ShapeOfParts
  <1>11. CASE UNCHANGED vars
    <2> USE ShapeParts
    <2>1. /\ UNCHANGED <<cms, history, legacy, overriding, people, faults, lost>>
          /\ feed' = feed /\ queue' = queue
      BY <1>11 DEF vars
    <2>2. QED
      BY <2>1, WatchedKeepsShape DEF FromLegacy
  <1>12. QED
    BY <1>1, <1>2, <1>3, <1>4, <1>5, <1>6, <1>7, <1>8, <1>9, <1>10, <1>11, Steps

THEOREM ShapeCorrect == Spec => []Shape
  BY ShapeInit, ShapeStep, PTL DEF Spec

\* The containers, the feeds and the queues always hold documents, services and
\* messages of their kind.
THEOREM TypeCorrect == Spec => []TypeOK
  <1>1. Shape => TypeOK
    BY DEF Shape
  <1>2. QED
    BY <1>1, ShapeCorrect, PTL

-----------------------------------------------------------------------------
(* What is stored, and what comes from the legacy system                    *)

\* A legacy user saved a version of which the watcher makes this item.
Originates(s, item) ==
  \E i \in DOMAIN legacy[s] : ~ legacy[s][i].cmsTag /\ item \in FromVersion(s, i)

\* What is on its way was stored, and comes from the containers.
Kept ==
  /\ \A s \in ServiceId : lifecycle[s] # NoItem => Item(s, lifecycle[s]) \in stored
  /\ \A s \in ServiceId : publication[s] # NoItem => Item(s, publication[s]) \in stored
  /\ history \in SUBSET stored
  /\ queue.requestHistoricization \in SUBSET stored
  /\ queue.requestSyncLegacy \in SUBSET stored
  /\ \A m \in queue.requestSyncLegacy : ~ m.document.fromLegacy

\* Each system says what the other one's users said.
Told ==
  /\ \A s \in ServiceId : \A i \in DOMAIN legacy[s] : legacy[s][i].cmsTag =>
       \E w \in stored : /\ w.id = s /\ ~ w.document.fromLegacy
                         /\ Says(legacy[s][i], w.document)
  /\ \A w \in stored : w.document.fromLegacy => Originates(w.id, w.document)
  /\ \A m \in FromLegacy : \A item \in m.items : Originates(m.id, item)

\* What a step can do to the containers and to the messages.
Effects ==
  /\ stored \in SUBSET stored'
  /\ \A w \in stored' \ stored : w.document.fromLegacy =>
       \E m \in FromLegacy : m.id = w.id /\ w.document \in m.items
  /\ \A s \in ServiceId :
       /\ lifecycle'[s] = lifecycle[s] \/ Item(s, lifecycle'[s]) \in stored'
       /\ \/ publication'[s] = publication[s] \/ publication'[s] = NoItem
          \/ Item(s, publication'[s]) \in stored'
  /\ history' \in SUBSET (history \cup queue.requestHistoricization)
  /\ \A w \in queue'.requestHistoricization \ queue.requestHistoricization :
       \E s \in ServiceId : \/ lifecycle[s] # NoItem /\ w = Item(s, lifecycle[s])
                            \/ publication[s] # NoItem /\ w = Item(s, publication[s])
  /\ \A w \in queue'.requestSyncLegacy \ queue.requestSyncLegacy :
       w \in history /\ ~ w.document.fromLegacy
  /\ \A m \in FromLegacy' \ FromLegacy :
       \E i \in DOMAIN legacy[m.id] :
         ~ legacy[m.id][i].cmsTag /\ m.items = FromVersion(m.id, i)
  /\ legacy' = legacy \/ \E s \in ServiceId : \E v : Appends(s, v)
  /\ changes' \in {changes, changes + 1}

LEMMA WritesEffects ==
  ASSUME Shape, NEW s \in ServiceId, NEW d, Writes(s, d)
  PROVE  Effects
  <1> USE ShapeParts
  <1>1. stored' = stored \cup {Item(s, d)}
    BY DEF Writes, SaveLifecycle, SavePublication, Item
  <1>2. \A r \in ServiceId :
          /\ lifecycle'[r] = lifecycle[r] \/ Item(r, lifecycle'[r]) = Item(s, d)
          /\ publication'[r] = publication[r] \/ Item(r, publication'[r]) = Item(s, d)
    BY DEF Writes, SaveLifecycle, SavePublication
  <1>3. /\ history' = history /\ legacy' = legacy
        /\ queue'.requestHistoricization = queue.requestHistoricization
        /\ queue'.requestSyncLegacy \in SUBSET queue.requestSyncLegacy
        /\ FromLegacy' \in SUBSET FromLegacy
        /\ changes' \in {changes, changes + 1}
        /\ d.fromLegacy => \E m \in FromLegacy : m.id = s /\ d \in m.items
    BY DEF Writes, QueueName
  <1>4. QED
    BY <1>1, <1>2, <1>3, ItemTyped DEF Effects

LEMMA AppendsEffects ==
  ASSUME Shape, NEW s \in ServiceId, NEW v, Appends(s, v)
  PROVE  Effects
  <1>1. /\ stored' = stored /\ history' = history
        /\ lifecycle' = lifecycle /\ publication' = publication
        /\ queue'.requestHistoricization = queue.requestHistoricization
        /\ queue'.requestSyncLegacy \in SUBSET queue.requestSyncLegacy
        /\ FromLegacy' = FromLegacy
        /\ changes' \in {changes, changes + 1}
    BY DEF Appends, QueueName, FromLegacy
  <1>2. QED
    BY <1>1 DEF Effects

\* The other steps change neither the documents of the CMS nor the versions.
LEMMA QuietEffects ==
  ASSUME Shape,
         UNCHANGED <<cms, legacy, people>>,
         history' \in SUBSET (history \cup queue.requestHistoricization),
         \A w \in queue'.requestHistoricization \ queue.requestHistoricization :
           \E s \in ServiceId : \/ lifecycle[s] # NoItem /\ w = Item(s, lifecycle[s])
                                \/ publication[s] # NoItem /\ w = Item(s, publication[s]),
         \A w \in queue'.requestSyncLegacy \ queue.requestSyncLegacy :
           w \in history /\ ~ w.document.fromLegacy,
         \A m \in FromLegacy' \ FromLegacy :
           \E i \in DOMAIN legacy[m.id] :
             ~ legacy[m.id][i].cmsTag /\ m.items = FromVersion(m.id, i)
  PROVE  Effects
  <1>1. /\ stored' = stored /\ lifecycle' = lifecycle /\ publication' = publication
        /\ legacy' = legacy /\ changes' = changes
    BY DEF cms, people
  <1>2. QED
    BY <1>1 DEF Effects

LEMMA StepEffects ==
  ASSUME Shape, [Next]_vars
  PROVE  Effects
  <1>1. CASE \E s \in ServiceId : \E d : Writes(s, d)
    BY <1>1, WritesEffects
  <1>2. CASE \E s \in ServiceId : \E v : Appends(s, v)
    BY <1>2, AppendsEffects
  <1>3. ASSUME NEW m \in queue.requestDeletion, Delete(m)
        PROVE  Effects
    <2>1. /\ \E s \in ServiceId : publication' = [publication EXCEPT ![s] = NoItem]
          /\ lifecycle' = lifecycle /\ stored' = stored /\ history' = history
          /\ legacy' = legacy /\ overriding' = overriding /\ changes' = changes
          /\ \A n \in QueueName : queue'[n] \in SUBSET queue[n]
          /\ queue'.requestHistoricization = queue.requestHistoricization
          /\ queue'.requestSyncCms = queue.requestSyncCms
      BY <1>3, DeleteRemoves
    <2>2. queue'.requestSyncLegacy \in SUBSET queue.requestSyncLegacy
      BY <2>1 DEF QueueName
    <2>3. \A s \in ServiceId : publication'[s] = publication[s] \/ publication'[s] = NoItem
      BY <2>1, ShapeParts
    <2>4. FromLegacy' = FromLegacy
      BY <2>1 DEF FromLegacy
    <2>5. QED
      BY <2>1, <2>2, <2>3, <2>4 DEF Effects
  <1>4. ASSUME NEW s \in ServiceId, WatchLifecycle(s)
        PROVE  Effects
    <2>1. /\ Watches(s, lifecycle[s])
          /\ UNCHANGED <<cms, history, legacy, overriding, people, faults, lost>>
      BY <1>4, WatchLifecycleSends
    <2>2. lifecycle[s] # NoItem
      BY <1>4, ShapeParts DEF WatchLifecycle
    <2>3. QED
      BY <2>1, <2>2, QuietEffects DEF Watches, FromLegacy
  <1>5. ASSUME NEW s \in ServiceId, WatchPublication(s)
        PROVE  Effects
    <2>1. /\ IF publication[s] = NoItem THEN queue' = queue
             ELSE Watches(s, publication[s])
          /\ UNCHANGED <<cms, history, legacy, overriding, people, faults, lost>>
      BY <1>5, WatchPublicationSends
    <2>2. QED
      BY <2>1, QuietEffects DEF Watches, FromLegacy
  <1>6. ASSUME NEW key \in feed.history, WatchHistory(key)
        PROVE  Effects
    <2>1. /\ queue'.requestHistoricization = queue.requestHistoricization
          /\ queue'.requestSyncCms = queue.requestSyncCms
          /\ \/ queue'.requestSyncLegacy = queue.requestSyncLegacy
             \/ \E h \in history :
                  /\ ~ h.document.fromLegacy
                  /\ queue'.requestSyncLegacy = queue.requestSyncLegacy \cup {h}
          /\ UNCHANGED <<cms, history, legacy, overriding, people, faults, lost>>
      BY <1>6, WatchHistorySends DEF QueueName
    <2>2. QED
      BY <2>1, QuietEffects DEF FromLegacy
  <1>7. ASSUME NEW key \in feed.legacy, WatchLegacy(key[1], key[2])
        PROVE  Effects
    <2>1. /\ queue'.requestHistoricization = queue.requestHistoricization
          /\ queue'.requestSyncLegacy = queue.requestSyncLegacy
          /\ \E s \in ServiceId : \E i \in DOMAIN legacy[s] :
               \/ queue'.requestSyncCms = queue.requestSyncCms
               \/ /\ ~ legacy[s][i].cmsTag
                  /\ \E m : /\ m.id = s /\ m.items = FromVersion(s, i)
                            /\ queue'.requestSyncCms = queue.requestSyncCms \cup {m}
          /\ UNCHANGED <<cms, history, legacy, overriding, people, faults, lost>>
      BY <1>7, WatchLegacySends DEF QueueName
    <2>2. QED
      BY <2>1, QuietEffects DEF FromLegacy
  <1>8. ASSUME NEW m \in queue.requestHistoricization, Historicize(m)
        PROVE  Effects
    <2>1. /\ history' \in SUBSET (history \cup {m})
          /\ UNCHANGED <<cms, legacy, overriding, people, lost>>
          /\ \A n \in QueueName \ {"requestHistoricization"} : queue'[n] = queue[n]
          /\ queue'.requestHistoricization \in SUBSET queue.requestHistoricization
      BY <1>8, HistoricizeStores
    <2>2. /\ queue'.requestSyncLegacy = queue.requestSyncLegacy
          /\ queue'.requestSyncCms = queue.requestSyncCms
      BY <2>1 DEF QueueName
    <2>3. QED
      BY <2>1, <2>2, QuietEffects DEF FromLegacy
  <1>9. ASSUME NEW name \in QueueName, NEW m \in queue[name], GiveUp(name, m)
        PROVE  Effects
    <2>1. /\ \A n \in QueueName : queue'[n] \in SUBSET queue[n]
          /\ UNCHANGED <<cms, history, legacy, feed, overriding, people>>
      BY <1>9, GiveUpLoses
    <2>2. /\ queue'.requestSyncLegacy \in SUBSET queue.requestSyncLegacy
          /\ queue'.requestHistoricization \in SUBSET queue.requestHistoricization
          /\ queue'.requestSyncCms \in SUBSET queue.requestSyncCms
      BY <2>1 DEF QueueName
    <2>3. QED
      BY <2>1, <2>2, QuietEffects DEF FromLegacy
  <1>10. ASSUME NEW m \in overriding, FailOverride(m)
         PROVE  Effects
    <2>1. /\ queue'.requestSyncLegacy = queue.requestSyncLegacy
          /\ queue'.requestHistoricization = queue.requestHistoricization
          /\ FromLegacy' \in SUBSET FromLegacy
          /\ UNCHANGED <<cms, history, legacy, feed, people, lost>>
      BY <1>10, FailOverrideRepeats DEF QueueName
    <2>2. QED
      BY <2>1, QuietEffects
  <1>11. CASE UNCHANGED vars
    BY <1>11, QuietEffects DEF vars, FromLegacy
  <1>12. QED
    BY <1>1, <1>2, <1>3, <1>4, <1>5, <1>6, <1>7, <1>8, <1>9, <1>10, <1>11, Steps

\* The versions of the legacy system never change, and new ones follow them.
LEMMA VersionsStay ==
  ASSUME Shape, Shape', Effects
  PROVE  \A s \in ServiceId : \A i \in DOMAIN legacy[s] :
           /\ i \in DOMAIN legacy'[s] /\ legacy'[s][i] = legacy[s][i]
           /\ FromVersion(s, i)' = FromVersion(s, i)
  <1>1. ASSUME NEW s \in ServiceId, NEW i \in DOMAIN legacy[s]
        PROVE  /\ i \in DOMAIN legacy'[s] /\ legacy'[s][i] = legacy[s][i]
    <2>1. CASE legacy' = legacy
      BY <1>1, <2>1
    <2>2. ASSUME NEW r \in ServiceId, NEW v, Appends(r, v)
          PROVE  /\ i \in DOMAIN legacy'[s] /\ legacy'[s][i] = legacy[s][i]
      <3>1. legacy[s] \in Seq(Version) /\ v \in Version
        BY <2>2, ShapeParts DEF Appends
      <3>2. legacy'[s] = IF s = r THEN Append(legacy[s], v) ELSE legacy[s]
        BY <2>2, ShapeParts DEF Appends
      <3>3. QED
        BY <3>1, <3>2, AppendProperties, LenProperties
    <2>3. QED
      BY <2>1, <2>2 DEF Effects
  <1>2. ASSUME NEW s \in ServiceId, NEW i \in DOMAIN legacy[s]
        PROVE  FromVersion(s, i)' = FromVersion(s, i)
    <2>1. legacy'[s][i] = legacy[s][i]
      BY <1>1
    <2>2. i > 1 => i - 1 \in DOMAIN legacy[s]
      <3>1. legacy[s] \in Seq(Version)
        BY ShapeParts
      <3>2. QED
        BY <3>1, LenProperties
    <2>3. i > 1 => legacy'[s][i - 1] = legacy[s][i - 1]
      BY <1>1, <2>2
    <2>4. wasPublished(s, i)' <=> wasPublished(s, i)
      BY <2>3 DEF wasPublished
    <2>5. getLegacyToCmsStatus(s, i)' = getLegacyToCmsStatus(s, i)
      BY <2>1, <2>4 DEF getLegacyToCmsStatus
    <2>6. QED
      BY <2>1, <2>5 DEF FromVersion
  <1>3. QED
    BY <1>1, <1>2

LEMMA OriginStays ==
  ASSUME Shape, Shape', Effects, NEW s \in ServiceId, NEW item, Originates(s, item)
  PROVE  Originates(s, item)'
  BY VersionsStay DEF Originates

LEMMA EchoInit ==
  ASSUME Init
  PROVE  Kept /\ Told
  <1>1. Shape
    BY ShapeInit
  <1>2. PICK documents, versions :
          /\ InitWith(documents, versions)
          /\ \/ documents = {} /\ versions = <<>>
             \/ \E autoPublish \in BOOLEAN :
                  /\ documents = {Past("submitted", autoPublish)}
                  /\ versions = <<PastVersion(FALSE)>>
             \/ /\ documents = {Past("approved", TRUE), Past("published", FALSE)}
                /\ versions = <<PastVersion(TRUE)>>
    BY DEF Init
  <1>3. /\ stored = [id : ServiceId, document : documents]
        /\ history = stored
        /\ legacy = [s \in ServiceId |-> versions]
    BY <1>2 DEF InitWith
  <1>4. /\ queue.requestHistoricization = {} /\ queue.requestSyncLegacy = {}
        /\ FromLegacy = {}
    BY DEF Init, FromLegacy
  <1>5. \A state, b : ~ Past(state, b).fromLegacy
    BY DEF Past
  <1>6. \A d \in documents : ~ d.fromLegacy
    <2>1. ASSUME NEW b \in BOOLEAN, documents = {Past("submitted", b)}
          PROVE  \A d \in documents : ~ d.fromLegacy
      BY <1>5, <2>1
    <2>2. CASE documents = {Past("approved", TRUE), Past("published", FALSE)}
      BY <1>5, <2>2
    <2>3. QED
      BY <1>2, <2>1, <2>2
  <1>7. \A s \in ServiceId, d \in documents :
          /\ Item(s, d) \in stored
          /\ Item(s, d).id = s /\ Item(s, d).document = d
    BY <1>3 DEF Item
  <1>8. \A w \in stored : ~ w.document.fromLegacy
    BY <1>3, <1>6
  <1>9. ASSUME NEW s \in ServiceId
        PROVE  lifecycle[s] # NoItem => Item(s, lifecycle[s]) \in stored
    <2>1. CASE documents = {}
      BY <1>2, <2>1 DEF InitWith
    <2>2. CASE documents # {}
      <3>1. \E d \in documents : d.state \in LifecycleState
        <4>1. /\ \A b \in BOOLEAN : Past("submitted", b).state \in LifecycleState
              /\ Past("approved", TRUE).state \in LifecycleState
          BY DEF Past, LifecycleState
        <4>2. ASSUME NEW b \in BOOLEAN, documents = {Past("submitted", b)}
              PROVE  \E d \in documents : d.state \in LifecycleState
          BY <4>1, <4>2
        <4>3. CASE documents = {Past("approved", TRUE), Past("published", FALSE)}
          BY <4>1, <4>3
        <4>4. QED
          BY <1>2, <2>2, <4>2, <4>3
      <3>2. PICK d \in documents : d = (CHOOSE c \in documents : c.state \in LifecycleState)
        BY <3>1
      <3>3. lifecycle = [r \in ServiceId |-> d]
        BY <1>2, <2>2, <3>2 DEF InitWith
      <3>4. lifecycle[s] = d
        BY <3>3
      <3>5. QED
        BY <1>7, <3>4
    <2>3. QED
      BY <2>1, <2>2
  <1>10. ASSUME NEW s \in ServiceId
         PROVE  publication[s] # NoItem => Item(s, publication[s]) \in stored
    <2>1. CASE ~ \E d \in documents : d.state = "published"
      BY <1>2, <2>1 DEF InitWith
    <2>2. CASE \E d \in documents : d.state = "published"
      <3>1. PICK d \in documents : d = (CHOOSE c \in documents : c.state = "published")
        BY <2>2
      <3>2. publication = [r \in ServiceId |-> d]
        BY <1>2, <2>2, <3>1 DEF InitWith
      <3>3. publication[s] = d
        BY <3>2
      <3>4. QED
        BY <1>7, <3>3
    <2>3. QED
      BY <2>1, <2>2
  <1>11. Kept
    BY <1>3, <1>4, <1>9, <1>10 DEF Kept
  <1>12. ASSUME NEW s \in ServiceId, NEW i \in DOMAIN legacy[s]
         PROVE  \E w \in stored : /\ w.id = s /\ ~ w.document.fromLegacy
                                  /\ Says(legacy[s][i], w.document)
    <2>1. \E d \in documents : \A j \in DOMAIN versions : Says(versions[j], d)
      <3>1. ASSUME NEW b \in BOOLEAN, documents = {Past("submitted", b)},
                   versions = <<PastVersion(FALSE)>>
            PROVE  \E d \in documents : \A j \in DOMAIN versions : Says(versions[j], d)
        <4>1. Says(PastVersion(FALSE), Past("submitted", b))
          BY DEF Says, PastVersion, Past
        <4>2. \A j \in DOMAIN versions : versions[j] = PastVersion(FALSE)
          BY <3>1, \A v : \A j \in DOMAIN <<v>> : <<v>>[j] = v
        <4>3. Past("submitted", b) \in documents
          BY <3>1
        <4>4. QED
          BY <4>1, <4>2, <4>3
      <3>2. CASE /\ documents = {Past("approved", TRUE), Past("published", FALSE)}
                 /\ versions = <<PastVersion(TRUE)>>
        <4>1. Says(PastVersion(TRUE), Past("published", FALSE))
          BY DEF Says, PastVersion, Past
        <4>2. \A j \in DOMAIN versions : versions[j] = PastVersion(TRUE)
          BY <3>2, \A v : \A j \in DOMAIN <<v>> : <<v>>[j] = v
        <4>3. Past("published", FALSE) \in documents
          BY <3>2
        <4>4. QED
          BY <4>1, <4>2, <4>3
      <3>3. CASE documents = {} /\ versions = <<>>
        BY <1>3, <1>12, <3>3
      <3>4. QED
        BY <1>2, <3>1, <3>2, <3>3
    <2>2. PICK d \in documents : Says(legacy[s][i], d)
      BY <1>3, <1>12, <2>1
    <2>3. QED
      BY <1>6, <1>7, <2>2
  <1>13. Told
    BY <1>4, <1>8, <1>12 DEF Told
  <1>14. QED
    BY <1>11, <1>13

LEMMA KeptStep ==
  ASSUME Shape, Shape', Effects, Kept
  PROVE  Kept'
  <1>1. \A s \in ServiceId : /\ lifecycle'[s] # NoItem => Item(s, lifecycle'[s]) \in stored'
                             /\ publication'[s] # NoItem => Item(s, publication'[s]) \in stored'
    BY DEF Kept, Effects
  <1>2. /\ history' \in SUBSET stored'
        /\ queue'.requestHistoricization \in SUBSET stored'
        /\ queue'.requestSyncLegacy \in SUBSET stored'
        /\ \A m \in queue'.requestSyncLegacy : ~ m.document.fromLegacy
    BY DEF Kept, Effects
  <1>3. QED
    BY <1>1, <1>2 DEF Kept, Item

LEMMA ToldStep ==
  ASSUME Shape, Shape', Effects, Kept, Told
  PROVE  Told'
  <1>1. ASSUME NEW s \in ServiceId, NEW i \in DOMAIN legacy'[s], legacy'[s][i].cmsTag
        PROVE  \E w \in stored' : /\ w.id = s /\ ~ w.document.fromLegacy
                                  /\ Says(legacy'[s][i], w.document)
    <2>1. CASE i \in DOMAIN legacy[s]
      <3>1. legacy'[s][i] = legacy[s][i]
        BY <2>1, VersionsStay
      <3>2. PICK w \in stored : /\ w.id = s /\ ~ w.document.fromLegacy
                                /\ Says(legacy[s][i], w.document)
        BY <1>1, <2>1, <3>1 DEF Told
      <3>3. QED
        BY <3>1, <3>2 DEF Effects
    <2>2. CASE i \notin DOMAIN legacy[s]
      <3>1. PICK r \in ServiceId : \E v : Appends(r, v)
        BY <2>2 DEF Effects
      <3> PICK v : Appends(r, v)
        BY <3>1
      <3>2. legacy[s] \in Seq(Version) /\ v \in Version
        BY ShapeParts DEF Appends
      <3>3. legacy'[s] = IF s = r THEN Append(legacy[s], v) ELSE legacy[s]
        BY ShapeParts DEF Appends
      <3>4. s = r /\ legacy'[s][i] = v
        BY <2>2, <3>2, <3>3, AppendProperties, LenProperties
      <3>5. PICK w \in queue.requestSyncLegacy : w.id = s /\ Says(v, w.document)
        BY <1>1, <3>4 DEF Appends
      <3>6. w \in stored' /\ ~ w.document.fromLegacy
        BY <3>5 DEF Kept, Effects
      <3>7. QED
        BY <3>4, <3>5, <3>6
    <2>3. QED
      BY <2>1, <2>2
  <1>2. ASSUME NEW w \in stored', w.document.fromLegacy
        PROVE  Originates(w.id, w.document)'
    <2>1. w.id \in ServiceId
      BY ShapeParts, ItemTyped, <1>2 DEF Shape, TypeOK
    <2>2. Originates(w.id, w.document)
      BY <1>2 DEF Effects, Told
    <2>3. QED
      BY <2>1, <2>2, OriginStays
  <1>3. ASSUME NEW m \in FromLegacy', NEW item \in m.items
        PROVE  Originates(m.id, item)'
    <2>1. m.id \in ServiceId
      BY <1>3 DEF Shape, TypeOK, FromLegacy
    <2>2. Originates(m.id, item)
      <3>1. CASE m \in FromLegacy
        BY <1>3, <3>1 DEF Told
      <3>2. CASE m \notin FromLegacy
        BY <1>3, <3>2 DEF Effects, Originates
      <3>3. QED
        BY <3>1, <3>2
    <2>3. QED
      BY <2>1, <2>2, OriginStays
  <1>4. QED
    BY <1>1, <1>2, <1>3 DEF Told, Says

LEMMA EchoStep ==
  ASSUME Shape, Kept, Told, [Next]_vars
  PROVE  (Shape /\ Kept /\ Told)'
  BY ShapeStep, StepEffects, KeptStep, ToldStep

THEOREM ToldCorrect == Spec => [](Shape /\ Kept /\ Told)
  BY ShapeInit, EchoInit, EchoStep, PTL DEF Spec

LEMMA ToldIsNoEcho ==
  ASSUME Shape, Told
  PROVE  NoEcho
  <1>1. ASSUME NEW w \in stored, w.document.fromLegacy
        PROVE  \E i \in DOMAIN legacy[w.id] :
                 /\ ~ legacy[w.id][i].cmsTag
                 /\ legacy[w.id][i].data = w.document.data
                 /\ w.document.state = "published" => legacy[w.id][i].isVisible
                 /\ w.document.state = "deleted" <=> legacy[w.id][i].deleted
    <2>1. PICK i \in DOMAIN legacy[w.id] :
            ~ legacy[w.id][i].cmsTag /\ w.document \in FromVersion(w.id, i)
      BY <1>1 DEF Told, Originates
    <2>2. PICK state \in getLegacyToCmsStatus(w.id, i) :
            w.document.state = state /\ w.document.data = legacy[w.id][i].data
      BY <2>1 DEF FromVersion
    <2>3. /\ state = "published" => legacy[w.id][i].isVisible
          /\ state = "deleted" <=> legacy[w.id][i].deleted
      BY <2>2 DEF getLegacyToCmsStatus
    <2>4. QED
      BY <2>1, <2>2, <2>3
  <1>2. QED
    BY <1>1 DEF Told, NoEcho

\* No change goes round in circles: what the CMS writes in the legacy system was
\* written in the CMS by its own users, and the other way round.
THEOREM EchoCorrect == Spec => []NoEcho
  BY ToldCorrect, ToldIsNoEcho, PTL

-----------------------------------------------------------------------------
(* What the history holds                                                   *)

\* Two versions of a service that legacy users saved have not the same content.
Distinct ==
  \A s \in ServiceId : \A i \in DOMAIN legacy[s] : ~ legacy[s][i].cmsTag =>
    /\ legacy[s][i].data <= changes
    /\ \A j \in DOMAIN legacy[s] :
         ~ legacy[s][j].cmsTag /\ legacy[s][i].data = legacy[s][j].data => i = j

\* A document of a container is in the history or on its way there.
Historicized(s, document, fed) ==
  \/ s \in fed
  \/ Item(s, document) \in queue.requestHistoricization
  \/ Item(s, document) \in history
  \/ Collided(s, document.modified_at)

Remembered ==
  \A s \in ServiceId \ lost :
    /\ lifecycle[s] # NoItem => Historicized(s, lifecycle[s], feed.lifecycle)
    /\ publication[s] # NoItem => Historicized(s, publication[s], feed.publication)

LEMMA DistinctInit ==
  ASSUME Init
  PROVE  Distinct
  <1>1. \E versions : /\ legacy = [s \in ServiceId |-> versions]
                      /\ versions = <<>> \/ \E b : versions = <<PastVersion(b)>>
    BY DEF Init, InitWith
  <1>2. PICK versions : /\ legacy = [s \in ServiceId |-> versions]
                        /\ versions = <<>> \/ \E b : versions = <<PastVersion(b)>>
    BY <1>1
  <1>3. \A j \in DOMAIN versions : versions[j].cmsTag
    <2>1. CASE versions = <<>>
      BY <2>1
    <2>2. ASSUME NEW b, versions = <<PastVersion(b)>>
          PROVE  \A j \in DOMAIN versions : versions[j].cmsTag
      <3>1. \A j \in DOMAIN versions : versions[j] = PastVersion(b)
        BY <2>2, \A v : \A j \in DOMAIN <<v>> : <<v>>[j] = v
      <3>2. QED
        BY <3>1 DEF PastVersion
    <2>3. QED
      BY <1>2, <2>1, <2>2
  <1>4. QED
    BY <1>2, <1>3 DEF Distinct

LEMMA DistinctStep ==
  ASSUME Shape, Shape', Effects, Distinct
  PROVE  Distinct'
  <1>1. changes \in Nat /\ changes' \in {changes, changes + 1}
    BY ShapeParts, BoundAssumption DEF Effects
  <1>2. CASE legacy' = legacy
    <2>1. ASSUME NEW s \in ServiceId, NEW i \in DOMAIN legacy[s]
          PROVE  legacy[s][i].data \in Nat
      BY VersionTyped, BoundAssumption DEF Version, Data
    <2>2. QED
      BY <1>1, <1>2, <2>1 DEF Distinct
  <1>3. ASSUME NEW r \in ServiceId, NEW v, Appends(r, v)
        PROVE  Distinct'
    <2>1. /\ v \in Version
          /\ ~ v.cmsTag => v.data = changes' /\ changes' = changes + 1
          /\ v.data \in Nat
      BY <1>3, BoundAssumption DEF Appends, Version, Data
    <2>2. \A s \in ServiceId :
            legacy'[s] = IF s = r THEN Append(legacy[s], v) ELSE legacy[s]
      BY <1>3, ShapeParts DEF Appends
    <2>3. ASSUME NEW s \in ServiceId, NEW i \in DOMAIN legacy'[s], ~ legacy'[s][i].cmsTag
          PROVE  \/ i \in DOMAIN legacy[s] /\ legacy'[s][i] = legacy[s][i]
                    /\ legacy[s][i].data <= changes /\ legacy[s][i].data \in Nat
                 \/ s = r /\ i = Len(legacy[s]) + 1 /\ legacy'[s][i].data = changes + 1
                    /\ changes' = changes + 1
      <3>1. legacy[s] \in Seq(Version)
        BY ShapeParts
      <3>2. CASE i \in DOMAIN legacy[s]
        <4>1. legacy'[s][i] = legacy[s][i]
          BY <3>2, VersionsStay
        <4>2. legacy[s][i].data <= changes
          BY <2>3, <3>2, <4>1 DEF Distinct
        <4>3. legacy[s][i].data \in Nat
          <5>1. legacy[s][i] \in Version
            BY <3>2, VersionTyped
          <5>2. QED
            BY <5>1, BoundAssumption DEF Version, Data
        <4>4. QED
          BY <3>2, <4>1, <4>2, <4>3
      <3>3. CASE i \notin DOMAIN legacy[s]
        <4>1. s = r /\ i = Len(legacy[s]) + 1 /\ legacy'[s][i] = v
          <5>1. s = r /\ legacy'[s] = Append(legacy[s], v)
            BY <2>2, <2>3, <3>3
          <5>2. i \in DOMAIN Append(legacy[s], v)
            BY <2>3, <5>1
          <5>3. /\ DOMAIN legacy[s] = 1..Len(legacy[s]) /\ Len(legacy[s]) \in Nat
                /\ DOMAIN Append(legacy[s], v) = 1..(Len(legacy[s]) + 1)
                /\ Append(legacy[s], v)[Len(legacy[s]) + 1] = v
            BY <2>1, <3>1, AppendProperties, LenProperties
          <5>4. i = Len(legacy[s]) + 1
            BY <3>3, <5>2, <5>3
          <5>5. QED
            BY <5>1, <5>3, <5>4
        <4>2. QED
          BY <2>1, <2>3, <4>1
      <3>4. QED
        BY <3>2, <3>3
    <2>4. ASSUME NEW s \in ServiceId, NEW i \in DOMAIN legacy'[s], ~ legacy'[s][i].cmsTag
          PROVE  legacy'[s][i].data <= changes'
      BY <1>1, <2>3, <2>4
    <2>5. ASSUME NEW s \in ServiceId, NEW i \in DOMAIN legacy'[s],
                 NEW j \in DOMAIN legacy'[s],
                 ~ legacy'[s][i].cmsTag, ~ legacy'[s][j].cmsTag,
                 legacy'[s][i].data = legacy'[s][j].data
          PROVE  i = j
      <3>1. CASE i \in DOMAIN legacy[s] /\ j \in DOMAIN legacy[s]
        <4>1. legacy'[s][i] = legacy[s][i] /\ legacy'[s][j] = legacy[s][j]
          BY <3>1, VersionsStay
        <4>2. QED
          BY <2>5, <3>1, <4>1 DEF Distinct
      <3>2. CASE ~ (i \in DOMAIN legacy[s] /\ j \in DOMAIN legacy[s])
        BY <1>1, <2>3, <2>5, <3>2
      <3>3. QED
        BY <3>1, <3>2
    <2>6. QED
      BY <2>4, <2>5 DEF Distinct
  <1>4. QED
    BY <1>2, <1>3 DEF Effects

\* The items of one version have not the same modified_at.
LEMMA OneOfEach ==
  ASSUME Shape, NEW s \in ServiceId, NEW i \in DOMAIN legacy[s],
         NEW v \in FromVersion(s, i), NEW w \in FromVersion(s, i),
         v.modified_at = w.modified_at
  PROVE  v = w
  <1>1. legacy[s][i].ts \in Nat
    BY VersionTyped DEF Version
  <1> DEFINE Made(state) ==
        [data |-> legacy[s][i].data, state |-> state, autoPublish |-> FALSE,
         fromLegacy |-> TRUE,
         modified_at |-> calculateModifiedAt(legacy[s][i].ts, state)]
  <1>2. PICK a \in getLegacyToCmsStatus(s, i) : v = Made(a)
    BY DEF FromVersion
  <1>3. PICK b \in getLegacyToCmsStatus(s, i) : w = Made(b)
    BY DEF FromVersion
  <1>4. calculateModifiedAt(legacy[s][i].ts, a) = calculateModifiedAt(legacy[s][i].ts, b)
    BY <1>2, <1>3
  <1>5. a \in PublicationState <=> b \in PublicationState
    BY <1>1, <1>4, SecondsType
  <1>6. a = b
    BY <1>2, <1>3, <1>5 DEF getLegacyToCmsStatus, PublicationState
  <1>7. QED
    BY <1>2, <1>3, <1>6

\* An item that takes the place of another one in the history collides with it.
LEMMA ReplacedCollides ==
  ASSUME Shape, Told, Distinct, NEW v \in stored, NEW w \in stored,
         v.id = w.id, v.document.modified_at = w.document.modified_at, v # w
  PROVE  Collided(v.id, v.document.modified_at)
  <1>1. /\ v.id \in ServiceId /\ v = Item(v.id, v.document) /\ w = Item(w.id, w.document)
    BY ShapeParts, ItemTyped
  <1>2. CASE ~ (v.document.fromLegacy /\ w.document.fromLegacy
                /\ v.document.data = w.document.data)
    BY <1>2 DEF Collided
  <1>3. CASE v.document.fromLegacy /\ w.document.fromLegacy
             /\ v.document.data = w.document.data
    <2>1. PICK i \in DOMAIN legacy[v.id] :
            ~ legacy[v.id][i].cmsTag /\ v.document \in FromVersion(v.id, i)
      BY <1>3 DEF Told, Originates
    <2>2. PICK j \in DOMAIN legacy[v.id] :
            ~ legacy[v.id][j].cmsTag /\ w.document \in FromVersion(v.id, j)
      BY <1>3 DEF Told, Originates
    <2>3. v.document.data = legacy[v.id][i].data /\ w.document.data = legacy[v.id][j].data
      BY <2>1, <2>2 DEF FromVersion
    <2>4. i = j
      BY <1>1, <1>3, <2>1, <2>2, <2>3 DEF Distinct
    <2>5. v.document = w.document
      BY <1>1, <2>1, <2>2, <2>4, OneOfEach
    <2>6. QED
      BY <1>1, <2>5
  <1>4. QED
    BY <1>2, <1>3

\* What keeps every document on its way to the history.
Carried ==
  /\ lost \in SUBSET lost' /\ stored \in SUBSET stored'
  /\ \A s \in ServiceId :
       /\ lifecycle'[s] = lifecycle[s] \/ s \in feed'.lifecycle
       /\ publication'[s] \in {publication[s], NoItem} \/ s \in feed'.publication
       /\ s \in feed.lifecycle =>
            s \in feed'.lifecycle \/ Item(s, lifecycle[s]) \in queue'.requestHistoricization
       /\ s \in feed.publication =>
            \/ s \in feed'.publication \/ publication[s] = NoItem
            \/ Item(s, publication[s]) \in queue'.requestHistoricization
  /\ \A w \in queue.requestHistoricization :
       w.id \in lost' \/ w \in queue'.requestHistoricization \/ w \in history'
  /\ \A w \in history : w \in history' \/ Collided(w.id, w.document.modified_at)

LEMMA CarriedIsRemembered ==
  ASSUME Remembered, Carried
  PROVE  Remembered'
  <1>1. ASSUME NEW s, NEW t, Collided(s, t)
        PROVE  Collided(s, t)'
    BY <1>1 DEF Collided, Carried
  <1>2. ASSUME NEW s \in ServiceId, s \notin lost', NEW d, NEW fed, NEW fed2,
               Historicized(s, d, fed),
               s \in fed => s \in fed2 \/ Item(s, d) \in queue'.requestHistoricization
        PROVE  \/ s \in fed2
               \/ Item(s, d) \in queue'.requestHistoricization
               \/ Item(s, d) \in history'
               \/ Collided(s, d.modified_at)'
    <2>1. Item(s, d).id = s /\ Item(s, d).document = d
      BY ItemTyped
    <2>2. PICK item : item = Item(s, d)
      OBVIOUS
    <2>3. CASE s \in fed
      BY <1>2, <2>3
    <2>4. CASE item \in queue.requestHistoricization
      BY <1>2, <2>1, <2>2, <2>4 DEF Carried
    <2>5. CASE item \in history
      <3>1. item \in history' \/ Collided(s, d.modified_at)
        BY <2>1, <2>2, <2>5 DEF Carried
      <3>2. QED
        BY <1>1, <2>2, <3>1
    <2>6. CASE Collided(s, d.modified_at)
      BY <1>1, <2>6
    <2>7. QED
      BY <1>2, <2>2, <2>3, <2>4, <2>5, <2>6 DEF Historicized
  <1>3. ASSUME NEW s \in ServiceId, s \notin lost', lifecycle'[s] # NoItem
        PROVE  \/ s \in feed'.lifecycle
               \/ Item(s, lifecycle'[s]) \in queue'.requestHistoricization
               \/ Item(s, lifecycle'[s]) \in history'
               \/ Collided(s, lifecycle[s].modified_at)'
    <2>1. PICK d : d = lifecycle'[s]
      OBVIOUS
    <2>2. CASE s \in feed'.lifecycle
      BY <2>2
    <2>3. CASE s \notin feed'.lifecycle
      <3>1. d = lifecycle[s] /\ d # NoItem /\ s \notin lost
        BY <1>3, <2>1, <2>3 DEF Carried
      <3>2. Historicized(s, d, feed.lifecycle)
        BY <3>1 DEF Remembered
      <3>3. s \in feed.lifecycle => Item(s, d) \in queue'.requestHistoricization
        BY <2>3, <3>1 DEF Carried
      <3>4. \/ Item(s, d) \in queue'.requestHistoricization
            \/ Item(s, d) \in history'
            \/ Collided(s, d.modified_at)'
        BY <1>2, <1>3, <2>3, <3>2, <3>3
      <3>5. QED
        BY <2>1, <3>4 DEF Collided
    <2>4. QED
      BY <2>2, <2>3
  <1>4. ASSUME NEW s \in ServiceId, s \notin lost', publication'[s] # NoItem
        PROVE  \/ s \in feed'.publication
               \/ Item(s, publication'[s]) \in queue'.requestHistoricization
               \/ Item(s, publication'[s]) \in history'
               \/ Collided(s, publication[s].modified_at)'
    <2>1. PICK d : d = publication'[s]
      OBVIOUS
    <2>2. CASE s \in feed'.publication
      BY <2>2
    <2>3. CASE s \notin feed'.publication
      <3>1. d = publication[s] /\ d # NoItem /\ s \notin lost
        BY <1>4, <2>1, <2>3 DEF Carried
      <3>2. Historicized(s, d, feed.publication)
        BY <3>1 DEF Remembered
      <3>3. s \in feed.publication => Item(s, d) \in queue'.requestHistoricization
        BY <2>3, <3>1 DEF Carried
      <3>4. \/ Item(s, d) \in queue'.requestHistoricization
            \/ Item(s, d) \in history'
            \/ Collided(s, d.modified_at)'
        BY <1>2, <1>4, <2>3, <3>2, <3>3
      <3>5. QED
        BY <2>1, <3>4 DEF Collided
    <2>4. QED
      BY <2>2, <2>3
  <1>5. QED
    BY <1>3, <1>4 DEF Remembered, Historicized, Item, Collided

\* A step that leaves the documents, the history and their feeds as they are.
LEMMA QuietCarries ==
  ASSUME lifecycle' = lifecycle, publication' = publication, stored' = stored,
         history' = history, lost' = lost,
         feed'.lifecycle = feed.lifecycle, feed'.publication = feed.publication,
         queue'.requestHistoricization = queue.requestHistoricization
  PROVE  Carried
  BY DEF Carried

LEMMA WritesCarry ==
  ASSUME Shape, NEW s \in ServiceId, NEW d, Writes(s, d)
  PROVE  Carried
  <1> USE ShapeParts
  <1>1. /\ history' = history /\ lost' = lost
        /\ queue'.requestHistoricization = queue.requestHistoricization
    BY DEF Writes
  <1>2. CASE SaveLifecycle(s, d)
    <2>1. /\ stored \in SUBSET stored' /\ publication' = publication
          /\ lifecycle' = [lifecycle EXCEPT ![s] = d]
          /\ feed' = [feed EXCEPT !.lifecycle = @ \cup {s}]
      BY <1>2 DEF SaveLifecycle
    <2>2. /\ feed'.lifecycle = feed.lifecycle \cup {s}
          /\ feed'.publication = feed.publication
      BY <2>1 DEF Feed
    <2>3. QED
      BY <1>1, <2>1, <2>2 DEF Carried
  <1>3. CASE SavePublication(s, d)
    <2>1. /\ stored \in SUBSET stored' /\ lifecycle' = lifecycle
          /\ publication' = [publication EXCEPT ![s] = d]
          /\ feed' = [feed EXCEPT !.publication = @ \cup {s}]
      BY <1>3 DEF SavePublication
    <2>2. /\ feed'.publication = feed.publication \cup {s}
          /\ feed'.lifecycle = feed.lifecycle
      BY <2>1 DEF Feed
    <2>3. QED
      BY <1>1, <2>1, <2>2 DEF Carried
  <1>4. QED
    BY <1>2, <1>3 DEF Writes

LEMMA HistoricizeCarries ==
  ASSUME Shape, Kept, Told, Distinct, NEW m \in queue.requestHistoricization, Historicize(m)
  PROVE  Carried
  <1>1. /\ history' = {h \in history : h.id = m.id =>
                          h.document.modified_at # m.document.modified_at} \cup {m}
        /\ feed' = [feed EXCEPT !.history = @ \cup {<<m.id, m.document.modified_at>>}]
        /\ UNCHANGED <<cms, legacy, overriding, people, lost>>
        /\ queue'.requestHistoricization \in
             {queue.requestHistoricization, queue.requestHistoricization \ {m}}
    BY HistoricizeStores
  <1>2. /\ lifecycle' = lifecycle /\ publication' = publication /\ stored' = stored
        /\ lost' = lost
        /\ feed'.lifecycle = feed.lifecycle /\ feed'.publication = feed.publication
    BY <1>1, ShapeParts DEF cms, Feed
  <1>3. ASSUME NEW w \in history
        PROVE  w \in history' \/ Collided(w.id, w.document.modified_at)
    <2>1. CASE w = m
      BY <1>1, <2>1
    <2>2. CASE w # m /\ w.id = m.id /\ w.document.modified_at = m.document.modified_at
      <3>1. w \in stored /\ m \in stored
        BY DEF Kept
      <3>2. QED
        BY <2>2, <3>1, ReplacedCollides
    <2>3. CASE ~ (w.id = m.id /\ w.document.modified_at = m.document.modified_at)
      BY <1>1, <2>3
    <2>4. QED
      BY <2>1, <2>2, <2>3
  <1>4. \A w \in queue.requestHistoricization :
          w \in queue'.requestHistoricization \/ w \in history'
    BY <1>1
  <1>5. QED
    BY <1>2, <1>3, <1>4 DEF Carried

LEMMA CarriedStep ==
  ASSUME Shape, Kept, Told, Distinct, [Next]_vars
  PROVE  Carried
  <1>1. CASE \E s \in ServiceId : \E d : Writes(s, d)
    BY <1>1, WritesCarry
  <1>2. ASSUME NEW s \in ServiceId, NEW v, Appends(s, v)
        PROVE  Carried
    <2>1. /\ lifecycle' = lifecycle /\ publication' = publication /\ stored' = stored
          /\ history' = history /\ lost' = lost
          /\ feed' = [feed EXCEPT !.legacy = @ \cup {<<s, Len(legacy[s]) + 1>>}]
          /\ queue'.requestHistoricization = queue.requestHistoricization
      BY <1>2 DEF Appends
    <2>2. feed'.lifecycle = feed.lifecycle /\ feed'.publication = feed.publication
      BY <2>1, ShapeParts DEF Feed
    <2>3. QED
      BY <2>1, <2>2, QuietCarries
  <1>3. ASSUME NEW m \in queue.requestDeletion, Delete(m)
        PROVE  Carried
    <2>1. /\ \E s \in ServiceId : publication' = [publication EXCEPT ![s] = NoItem]
          /\ lifecycle' = lifecycle /\ stored' = stored /\ history' = history
          /\ lost' = lost /\ feed' = feed
          /\ queue'.requestHistoricization = queue.requestHistoricization
      BY <1>3, DeleteRemoves
    <2>2. \A s \in ServiceId : publication'[s] \in {publication[s], NoItem}
      BY <2>1, ShapeParts
    <2>3. QED
      BY <2>1, <2>2 DEF Carried
  <1>4. ASSUME NEW s \in ServiceId, WatchLifecycle(s)
        PROVE  Carried
    <2>1. /\ Watches(s, lifecycle[s])
          /\ feed' = [feed EXCEPT !.lifecycle = @ \ {s}]
          /\ UNCHANGED <<cms, history, legacy, overriding, people, faults, lost>>
      BY <1>4, WatchLifecycleSends
    <2>2. /\ feed'.lifecycle = feed.lifecycle \ {s} /\ feed'.publication = feed.publication
      BY <2>1, ShapeParts DEF Feed
    <2>3. queue'.requestHistoricization =
            queue.requestHistoricization \cup {Item(s, lifecycle[s])}
      BY <2>1 DEF Watches
    <2>4. QED
      BY <2>1, <2>2, <2>3 DEF Carried, cms
  <1>5. ASSUME NEW s \in ServiceId, WatchPublication(s)
        PROVE  Carried
    <2>1. /\ IF publication[s] = NoItem THEN queue' = queue
             ELSE Watches(s, publication[s])
          /\ feed' = [feed EXCEPT !.publication = @ \ {s}]
          /\ UNCHANGED <<cms, history, legacy, overriding, people, faults, lost>>
      BY <1>5, WatchPublicationSends
    <2>2. /\ feed'.publication = feed.publication \ {s} /\ feed'.lifecycle = feed.lifecycle
      BY <2>1, ShapeParts DEF Feed
    <2>3. /\ queue.requestHistoricization \in SUBSET queue'.requestHistoricization
          /\ \/ publication[s] = NoItem
             \/ Item(s, publication[s]) \in queue'.requestHistoricization
      BY <2>1 DEF Watches
    <2>4. QED
      BY <2>1, <2>2, <2>3 DEF Carried, cms
  <1>6. ASSUME NEW key \in feed.history, WatchHistory(key)
        PROVE  Carried
    <2>1. /\ queue'.requestHistoricization = queue.requestHistoricization
          /\ feed' = [feed EXCEPT !.history = @ \ {key}]
          /\ UNCHANGED <<cms, history, legacy, overriding, people, faults, lost>>
      BY <1>6, WatchHistorySends DEF QueueName
    <2>2. feed'.lifecycle = feed.lifecycle /\ feed'.publication = feed.publication
      BY <2>1, ShapeParts DEF Feed
    <2>3. QED
      BY <2>1, <2>2, QuietCarries DEF cms
  <1>7. ASSUME NEW key \in feed.legacy, WatchLegacy(key[1], key[2])
        PROVE  Carried
    <2>1. PICK s \in ServiceId : \E i \in DOMAIN legacy[s] :
            /\ queue'.requestHistoricization = queue.requestHistoricization
            /\ feed' = [feed EXCEPT !.legacy = @ \ {<<s, i>>}]
            /\ UNCHANGED <<cms, history, legacy, overriding, people, faults, lost>>
      BY <1>7, WatchLegacySends DEF QueueName
    <2>2. feed'.lifecycle = feed.lifecycle /\ feed'.publication = feed.publication
      BY <2>1, ShapeParts DEF Feed
    <2>3. QED
      BY <2>1, <2>2, QuietCarries DEF cms
  <1>8. CASE \E m \in queue.requestHistoricization : Historicize(m)
    BY <1>8, HistoricizeCarries
  <1>9. ASSUME NEW name \in QueueName, NEW m \in queue[name], GiveUp(name, m)
        PROVE  Carried
    <2>1. /\ queue'.requestHistoricization \in
               {queue.requestHistoricization, queue.requestHistoricization \ {m}}
          /\ lost' = lost \cup {m.id}
          /\ UNCHANGED <<cms, history, legacy, feed, overriding, people>>
      BY <1>9, GiveUpLoses
    <2>2. QED
      BY <2>1 DEF Carried, cms
  <1>10. ASSUME NEW m \in overriding, FailOverride(m)
         PROVE  Carried
    <2>1. /\ queue'.requestHistoricization = queue.requestHistoricization
          /\ UNCHANGED <<cms, history, legacy, feed, people, lost>>
      BY <1>10, FailOverrideRepeats DEF QueueName
    <2>2. QED
      BY <2>1, QuietCarries DEF cms
  <1>11. CASE UNCHANGED vars
    BY <1>11, QuietCarries DEF vars, cms
  <1>12. QED
    BY <1>1, <1>2, <1>3, <1>4, <1>5, <1>6, <1>7, <1>8, <1>9, <1>10, <1>11, Steps

\* The inductive invariant of the history.
HistoryInv == Shape /\ Kept /\ Told /\ Distinct /\ Remembered

LEMMA HistoryInit ==
  ASSUME Init
  PROVE  HistoryInv
  <1>1. history = stored
    BY DEF Init, InitWith
  <1>2. Kept
    BY EchoInit
  <1>3. Remembered
    BY <1>1, <1>2 DEF Kept, Remembered, Historicized
  <1>4. QED
    BY <1>3, ShapeInit, EchoInit, DistinctInit DEF HistoryInv

LEMMA HistoryStep ==
  ASSUME HistoryInv, [Next]_vars
  PROVE  HistoryInv'
  <1>1. Shape' /\ Kept' /\ Told' /\ Effects
    BY EchoStep, StepEffects DEF HistoryInv
  <1>2. Distinct'
    BY <1>1, DistinctStep DEF HistoryInv
  <1>3. Remembered'
    BY CarriedStep, CarriedIsRemembered DEF HistoryInv
  <1>4. QED
    BY <1>1, <1>2, <1>3 DEF HistoryInv

THEOREM HistoryInvCorrect == Spec => []HistoryInv
  BY HistoryInit, HistoryStep, PTL DEF Spec

LEMMA RememberedIsHeld ==
  ASSUME HistoryInv
  PROVE  HistoryHoldsLatest
  <1>1. ASSUME Settled, NEW s \in ServiceId \ lost,
               NEW document \in {lifecycle[s], publication[s]} \ {NoItem}
        PROVE  Item(s, document) \in history \/ Collided(s, document.modified_at)
    <2>1. /\ queue.requestHistoricization = {}
          /\ feed.lifecycle = {} /\ feed.publication = {}
      <3>1. DOMAIN queue = QueueName /\ feed \in Feed
        BY ShapeParts DEF HistoryInv
      <3>2. {"lifecycle", "publication"} \in SUBSET DOMAIN feed
        BY <3>1 DEF Feed
      <3>3. QED
        BY <1>1, <3>1, <3>2 DEF Settled, QueueName
    <2>2. \/ Historicized(s, document, feed.lifecycle)
          \/ Historicized(s, document, feed.publication)
      BY <1>1 DEF HistoryInv, Remembered
    <2>3. QED
      BY <2>1, <2>2 DEF Historicized
  <1>2. QED
    BY <1>1 DEF HistoryHoldsLatest

\* When everything has settled, the history holds the current documents, unless
\* two changes of a service had the same time.
THEOREM HistoryCorrect == Spec => []HistoryHoldsLatest
  BY HistoryInvCorrect, RememberedIsHeld, PTL

-----------------------------------------------------------------------------
(* What both systems show                                                   *)

\* What a step can see of a service s: the versions of it that nobody heard of,
\* and its documents on their way.
Fed(s) == {i \in Nat : <<s, i>> \in feed.legacy /\ ~ legacy[s][i].cmsTag}
Overriding(s) == {m \in FromLegacy : m.id = s}
Unheard(s) == Fed(s) # {} \/ Overriding(s) # {}

InQueue(name, s) == {d \in Document : Item(s, d) \in queue[name]}
Way(s) ==
  {d \in Document :
     \/ s \in feed.lifecycle /\ d = lifecycle[s]
     \/ s \in feed.publication /\ d = publication[s]
     \/ d \in InQueue("requestHistoricization", s)
     \/ Item(s, d) \in history /\ <<s, d.modified_at>> \in feed.history
     \/ d \in InQueue("requestSyncLegacy", s)}
Releasing(s) == InQueue("requestPublication", s)
Deleting(s) == s \in feed.lifecycle \/ InQueue("requestDeletion", s) # {}

\* The legacy system will hear of s, if only of a change that it knows.
Telling(s) ==
  \/ \E d \in Way(s) : ~ d.fromLegacy /\ d.state \in PublicationState \cup {"deleted"}
  \/ InQueue("requestSyncLegacy", s) # {}

Newest(s) == legacy[s][Len(legacy[s])]
FromNewest(s) == FromVersion(s, Len(legacy[s]))
WasVisible(s) == wasPublished(s, Len(legacy[s]))
Deleted(s) == Is(lifecycle[s], "deleted")
Alike(d, e) == d.data = e.data /\ d.state = e.state /\ (d.fromLegacy <=> e.fromLegacy)
Released(d) == IF d.autoPublish THEN "published" ELSE "unpublished"

\* Only the last version of the legacy system is unheard of.
LastUnheard(s) ==
  /\ \A i \in Fed(s) : i = Len(legacy[s])
  /\ \A m \in Overriding(s) : m.items = FromNewest(s)
  /\ Unheard(s) => legacy[s] # <<>> /\ ~ Newest(s).cmsTag

\* The documents on their way are the current ones, all of one origin.
Current(s) ==
  /\ s \in feed.publication => publication[s] # NoItem
  /\ \A d \in Way(s) :
       /\ d.state \in LifecycleState => d = lifecycle[s]
       /\ d.state \in PublicationState =>
            publication[s] # NoItem /\ Alike(d, publication[s]) /\ ~ Deleted(s)
       /\ Unheard(s) => d \in FromNewest(s)
       /\ \A e \in Way(s) : d.fromLegacy <=> e.fromLegacy
  /\ \A d \in InQueue("requestSyncLegacy", s) : d \in Way(s) /\ ~ d.fromLegacy

\* The messages to the publicator and to the deletor are of the current lifecycle.
Decided(s) ==
  /\ \A r \in Releasing(s) :
       /\ r = lifecycle[s] /\ r.state = "approved" /\ ~ r.fromLegacy
       /\ ~ Unheard(s)
       /\ \A d \in Way(s) :
            /\ ~ d.fromLegacy
            /\ d.state \in PublicationState => d.data = r.data /\ d.state = Released(r)
  /\ InQueue("requestDeletion", s) # {} => Deleted(s)
  /\ s \in feed.lifecycle /\ ~ lifecycle[s].fromLegacy =>
       Releasing(s) = {} /\ \A d \in Way(s) : d.state \notin PublicationState

\* A deletion reaches the other system and the publication.
Ended(s) ==
  /\ Deleted(s) => /\ (legacy[s] # <<>> /\ Newest(s).deleted) \/ Telling(s)
                   /\ publication[s] = NoItem \/ Deleting(s)
  /\ legacy[s] # <<>> /\ Newest(s).deleted => Deleted(s) \/ Unheard(s)

\* Where the systems do not agree, one of them will hear of the other.
Agrees(s) ==
  legacy[s] # <<>> =>
    /\ Newest(s).isVisible =>
         \/ (Is(publication[s], "published") /\ publication[s].data = Newest(s).data)
         \/ Unheard(s) \/ Telling(s)
    /\ WasVisible(s) /\ ~ Newest(s).isVisible /\ ~ Newest(s).cmsTag =>
         ~ Is(publication[s], "published") \/ Unheard(s) \/ Telling(s) \/ Newest(s).deleted

Calm(s) == LastUnheard(s) /\ Current(s) /\ Decided(s) /\ Ended(s) /\ Agrees(s)

\* Two documents of the history have not the same key.
OneKey ==
  \A g, h \in history :
    g.id = h.id /\ g.document.modified_at = h.document.modified_at => g = h

\* A deleted version is not visible.
DeletedAreHidden ==
  \A s \in ServiceId : \A i \in DOMAIN legacy[s] :
    legacy[s][i].deleted => ~ legacy[s][i].isVisible

\* The inductive invariant.
MirrorInv ==
  /\ HistoryInv /\ OneKey /\ DeletedAreHidden
  /\ ~ hasty => \A s \in ServiceId \ lost : ~ Together(s) => Calm(s)

LEMMA FeedParts ==
  ASSUME Shape
  PROVE  feed = [lifecycle |-> feed.lifecycle, publication |-> feed.publication,
                 history |-> feed.history, legacy |-> feed.legacy]
  BY ShapeParts DEF Feed

LEMMA NewestTyped ==
  ASSUME Shape, NEW s \in ServiceId, legacy[s] # <<>>
  PROVE  /\ Len(legacy[s]) \in DOMAIN legacy[s] /\ Len(legacy[s]) \in Nat \ {0}
         /\ Newest(s) \in Version /\ Newest(s) = Last(legacy[s])
  <1>1. legacy[s] \in Seq(Version)
    BY ShapeParts
  <1>2. Len(legacy[s]) \in DOMAIN legacy[s] /\ Len(legacy[s]) \in Nat \ {0}
    BY <1>1, LenProperties, EmptySeq
  <1>3. Newest(s) \in Version
    BY <1>2, VersionTyped DEF Newest
  <1>4. QED
    BY <1>2, <1>3 DEF Newest, Last

\* The items of the last version: a lifecycle, and a publication if it is or was
\* visible.
LEMMA NewestItems ==
  ASSUME Shape, NEW s \in ServiceId, legacy[s] # <<>>
  PROVE  /\ FromNewest(s) \in SUBSET Document
         /\ \A d \in FromNewest(s) :
              /\ d.fromLegacy /\ d.data = Newest(s).data
              /\ d.state = "deleted" <=> Newest(s).deleted
              /\ d.state \in PublicationState =>
                   ~ Newest(s).deleted /\ (d.state = "published" <=> Newest(s).isVisible)
         /\ \A d, e \in FromNewest(s) :
              (d.state \in PublicationState <=> e.state \in PublicationState) => d = e
         /\ ~ Newest(s).deleted /\ (Newest(s).isVisible \/ WasVisible(s)) =>
              \E d \in FromNewest(s) : d.state \in PublicationState
  <1> DEFINE i == Len(legacy[s])
  <1> DEFINE Made(state) ==
        [data |-> legacy[s][i].data, state |-> state, autoPublish |-> FALSE,
         fromLegacy |-> TRUE,
         modified_at |-> calculateModifiedAt(legacy[s][i].ts, state)]
  <1>1. /\ FromNewest(s) \in SUBSET Document
        /\ Newest(s).deleted \in BOOLEAN /\ Newest(s).isVisible \in BOOLEAN
    BY NewestTyped, VersionTyped DEF FromNewest, Version
  <1>2. FromNewest(s) = {Made(state) : state \in getLegacyToCmsStatus(s, i)}
    BY DEF FromNewest, FromVersion
  <1>3. getLegacyToCmsStatus(s, i) =
          IF Newest(s).deleted THEN {"deleted"}
          ELSE IF Newest(s).isVisible THEN {"approved", "published"}
          ELSE IF WasVisible(s) THEN {"approved", "unpublished"}
          ELSE {"draft"}
    BY DEF getLegacyToCmsStatus, Newest, WasVisible
  <1>4. \A state : /\ Made(state).state = state /\ Made(state).fromLegacy
                   /\ Made(state).data = Newest(s).data
    BY DEF Newest
  <1> HIDE DEF Made, i
  <1>5. QED
    BY <1>1, <1>2, <1>3, <1>4 DEF PublicationState

LEMMA LegacySame ==
  ASSUME NEW s, legacy'[s] = legacy[s]
  PROVE  /\ Newest(s)' = Newest(s) /\ FromNewest(s)' = FromNewest(s)
         /\ WasVisible(s)' <=> WasVisible(s)
  <1>1. \A i : wasPublished(s, i)' <=> wasPublished(s, i)
    BY DEF wasPublished
  <1>2. \A i : getLegacyToCmsStatus(s, i)' = getLegacyToCmsStatus(s, i)
    BY <1>1 DEF getLegacyToCmsStatus
  <1>3. \A i : FromVersion(s, i)' = FromVersion(s, i)
    BY <1>2 DEF FromVersion
  <1>4. QED
    BY <1>1, <1>3 DEF Newest, FromNewest, WasVisible

\* A lifecycle is not a publication.
LEMMA StatesApart ==
  /\ LifecycleState \cap PublicationState = {}
  /\ "deleted" \in LifecycleState /\ "approved" \in LifecycleState
  /\ "deleted" \notin PublicationState
  BY DEF LifecycleState, PublicationState

\* Steps that take documents of s from their way, and nothing that is not told.
LEMMA CalmLess ==
  ASSUME NEW s \in ServiceId, Calm(s),
         lifecycle'[s] = lifecycle[s], publication'[s] = publication[s],
         legacy'[s] = legacy[s],
         Way(s)' \in SUBSET Way(s),
         \A d \in InQueue("requestSyncLegacy", s)' : d \in Way(s)' /\ ~ d.fromLegacy,
         Telling(s) => Telling(s)',
         Fed(s)' \in SUBSET Fed(s),
         \A m \in Overriding(s)' : m.items = FromNewest(s),
         Unheard(s)' <=> Unheard(s),
         Releasing(s)' \in SUBSET Releasing(s),
         InQueue("requestDeletion", s)' = InQueue("requestDeletion", s),
         s \in feed'.lifecycle <=> s \in feed.lifecycle,
         s \in feed'.publication => s \in feed.publication
  PROVE  Calm(s)'
  <1>1. /\ Newest(s)' = Newest(s) /\ FromNewest(s)' = FromNewest(s)
        /\ WasVisible(s)' <=> WasVisible(s)
        /\ Deleted(s)' <=> Deleted(s)
        /\ Deleting(s)' <=> Deleting(s)
    BY LegacySame DEF Deleted, Is, Deleting
  <1>2. LastUnheard(s)'
    BY <1>1 DEF Calm, LastUnheard
  <1>3. Current(s)'
    BY <1>1 DEF Calm, Current
  <1>4. Decided(s)'
    BY <1>1 DEF Calm, Decided
  <1>5. Ended(s)'
    BY <1>1 DEF Calm, Ended
  <1>6. Agrees(s)'
    BY <1>1 DEF Calm, Agrees, Is
  <1>7. QED
    BY <1>2, <1>3, <1>4, <1>5, <1>6 DEF Calm

\* Steps on other services.
Untouched(s) ==
  /\ lifecycle'[s] = lifecycle[s] /\ publication'[s] = publication[s]
  /\ legacy'[s] = legacy[s]
  /\ s \in feed'.lifecycle <=> s \in feed.lifecycle
  /\ s \in feed'.publication <=> s \in feed.publication
  /\ \A d \in Document, name \in QueueName \ {"requestSyncCms"} :
       Item(s, d) \in queue'[name] <=> Item(s, d) \in queue[name]
  /\ \A d \in Document : /\ Item(s, d) \in history' <=> Item(s, d) \in history
                         /\ <<s, d.modified_at>> \in feed'.history <=>
                            <<s, d.modified_at>> \in feed.history
  /\ \A i \in Nat : <<s, i>> \in feed'.legacy <=> <<s, i>> \in feed.legacy
  /\ Overriding(s)' = Overriding(s)

LEMMA UntouchedStaysCalm ==
  ASSUME NEW s \in ServiceId, Untouched(s), Calm(s)
  PROVE  Calm(s)'
  <1>1. \A name \in QueueName \ {"requestSyncCms"} : InQueue(name, s)' = InQueue(name, s)
    BY DEF Untouched, InQueue
  <1>2. /\ InQueue("requestSyncLegacy", s)' = InQueue("requestSyncLegacy", s)
        /\ InQueue("requestHistoricization", s)' = InQueue("requestHistoricization", s)
        /\ InQueue("requestDeletion", s)' = InQueue("requestDeletion", s)
        /\ Releasing(s)' = Releasing(s)
    BY <1>1 DEF QueueName, Releasing
  <1>3. Way(s)' = Way(s)
    BY <1>2 DEF Untouched, Way
  <1>4. Fed(s)' = Fed(s)
    BY DEF Untouched, Fed
  <1>5. /\ Telling(s)' <=> Telling(s)
        /\ Unheard(s)' <=> Unheard(s)
    BY <1>2, <1>3, <1>4 DEF Telling, Unheard, Untouched
  <1>6. \A m \in Overriding(s)' : m.items = FromNewest(s)
    BY DEF Untouched, Calm, LastUnheard
  <1>7. \A d \in InQueue("requestSyncLegacy", s)' : d \in Way(s)' /\ ~ d.fromLegacy
    BY <1>2, <1>3 DEF Calm, Current
  <1>8. QED
    BY <1>2, <1>3, <1>4, <1>5, <1>6, <1>7, CalmLess DEF Untouched

LEMMA SettledViews ==
  ASSUME Shape, NEW s \in ServiceId, Settled
  PROVE  /\ Way(s) = {} /\ \A name \in QueueName : InQueue(name, s) = {}
         /\ Fed(s) = {} /\ Overriding(s) = {}
         /\ s \notin feed.lifecycle /\ s \notin feed.publication
         /\ ~ Unheard(s) /\ ~ Telling(s)
  <1>1. DOMAIN queue = QueueName
    BY ShapeParts
  <1>2. {"lifecycle", "publication", "history", "legacy"} \in SUBSET DOMAIN feed
    BY FeedParts
  <1>3. /\ feed.lifecycle = {} /\ feed.publication = {}
        /\ feed.history = {} /\ feed.legacy = {} /\ overriding = {}
        /\ \A name \in QueueName : queue[name] = {}
    BY <1>1, <1>2 DEF Settled
  <1>4. \A name \in QueueName : InQueue(name, s) = {}
    BY <1>3 DEF InQueue
  <1>5. /\ InQueue("requestHistoricization", s) = {}
        /\ InQueue("requestSyncLegacy", s) = {}
        /\ queue.requestSyncCms = {}
    BY <1>3, <1>4 DEF QueueName
  <1>6. Way(s) = {} /\ Fed(s) = {} /\ Overriding(s) = {}
    BY <1>3, <1>5 DEF Way, Fed, Overriding, FromLegacy
  <1>7. QED
    BY <1>3, <1>4, <1>5, <1>6 DEF Unheard, Telling

\* A write of one of the containers, seen by each service.
LEMMA LifecycleSaved ==
  ASSUME Shape, NEW r \in ServiceId, NEW d \in Document, SaveLifecycle(r, d),
         UNCHANGED <<history, legacy>>,
         \A name \in QueueName \ {"requestSyncCms"} : queue'[name] = queue[name],
         \A m : m.id # r => (m \in FromLegacy' <=> m \in FromLegacy)
  PROVE  /\ lifecycle'[r] = d /\ publication'[r] = publication[r]
         /\ legacy'[r] = legacy[r]
         /\ r \in feed'.lifecycle
         /\ r \in feed'.publication <=> r \in feed.publication
         /\ Way(r)' \in SUBSET (Way(r) \cup {d}) /\ d \in Way(r)'
         /\ InQueue("requestSyncLegacy", r) \in SUBSET Way(r)'
         /\ \A name \in QueueName \ {"requestSyncCms"} : InQueue(name, r)' = InQueue(name, r)
         /\ Fed(r)' = Fed(r)
         /\ \A s \in ServiceId : s # r => Untouched(s)
  <1> USE ShapeParts
  <1>1. /\ lifecycle' = [lifecycle EXCEPT ![r] = d] /\ publication' = publication
        /\ feed' = [feed EXCEPT !.lifecycle = @ \cup {r}]
        /\ history' = history /\ legacy' = legacy
    BY DEF SaveLifecycle
  <1>2. /\ feed'.lifecycle = feed.lifecycle \cup {r}
        /\ feed'.publication = feed.publication /\ feed'.history = feed.history
        /\ feed'.legacy = feed.legacy
    BY <1>1, FeedParts
  <1>3. \A s \in ServiceId : lifecycle'[s] = IF s = r THEN d ELSE lifecycle[s]
    BY <1>1
  <1>4. \A name \in QueueName \ {"requestSyncCms"} : InQueue(name, r)' = InQueue(name, r)
    BY DEF InQueue
  <1>5. /\ InQueue("requestSyncLegacy", r)' = InQueue("requestSyncLegacy", r)
        /\ InQueue("requestHistoricization", r)' = InQueue("requestHistoricization", r)
    BY <1>4 DEF QueueName
  <1>6. /\ Way(r)' \in SUBSET (Way(r) \cup {d}) /\ d \in Way(r)'
        /\ InQueue("requestSyncLegacy", r) \in SUBSET Way(r)'
    BY <1>1, <1>2, <1>3, <1>5 DEF Way, InQueue
  <1>7. Fed(r)' = Fed(r)
    BY <1>1, <1>2 DEF Fed
  <1>8. ASSUME NEW s \in ServiceId, s # r
        PROVE  Untouched(s)
    <2>1. Overriding(s)' = Overriding(s)
      BY <1>8 DEF Overriding
    <2>2. QED
      BY <1>1, <1>2, <1>3, <1>8, <2>1 DEF Untouched
  <1>9. QED
    BY <1>1, <1>2, <1>3, <1>4, <1>6, <1>7, <1>8

LEMMA PublicationSaved ==
  ASSUME Shape, NEW r \in ServiceId, NEW d \in Document, SavePublication(r, d),
         UNCHANGED <<history, legacy>>,
         \A name \in QueueName \ {"requestSyncCms", "requestPublication"} :
           queue'[name] = queue[name],
         \A w : w.id # r => (w \in queue'.requestPublication <=>
                             w \in queue.requestPublication),
         \A m : m.id # r => (m \in FromLegacy' <=> m \in FromLegacy)
  PROVE  /\ lifecycle'[r] = lifecycle[r] /\ publication'[r] = d
         /\ legacy'[r] = legacy[r]
         /\ r \in feed'.publication
         /\ r \in feed'.lifecycle <=> r \in feed.lifecycle
         /\ Way(r)' \in SUBSET (Way(r) \cup {d}) /\ d \in Way(r)'
         /\ InQueue("requestSyncLegacy", r) \in SUBSET Way(r)'
         /\ InQueue("requestSyncLegacy", r)' = InQueue("requestSyncLegacy", r)
         /\ InQueue("requestDeletion", r)' = InQueue("requestDeletion", r)
         /\ Fed(r)' = Fed(r)
         /\ \A s \in ServiceId : s # r => Untouched(s)
  <1> USE ShapeParts
  <1>1. /\ publication' = [publication EXCEPT ![r] = d] /\ lifecycle' = lifecycle
        /\ feed' = [feed EXCEPT !.publication = @ \cup {r}]
        /\ history' = history /\ legacy' = legacy
    BY DEF SavePublication
  <1>2. /\ feed'.publication = feed.publication \cup {r}
        /\ feed'.lifecycle = feed.lifecycle /\ feed'.history = feed.history
        /\ feed'.legacy = feed.legacy
    BY <1>1, FeedParts
  <1>3. \A s \in ServiceId : publication'[s] = IF s = r THEN d ELSE publication[s]
    BY <1>1
  <1>4. /\ queue'.requestSyncLegacy = queue.requestSyncLegacy
        /\ queue'.requestHistoricization = queue.requestHistoricization
        /\ queue'.requestDeletion = queue.requestDeletion
    BY DEF QueueName
  <1>5. /\ InQueue("requestSyncLegacy", r)' = InQueue("requestSyncLegacy", r)
        /\ InQueue("requestHistoricization", r)' = InQueue("requestHistoricization", r)
        /\ InQueue("requestDeletion", r)' = InQueue("requestDeletion", r)
    BY <1>4 DEF InQueue
  <1>6. /\ Way(r)' \in SUBSET (Way(r) \cup {d}) /\ d \in Way(r)'
        /\ InQueue("requestSyncLegacy", r) \in SUBSET Way(r)'
    BY <1>1, <1>2, <1>3, <1>5 DEF Way, InQueue
  <1>7. Fed(r)' = Fed(r)
    BY <1>1, <1>2 DEF Fed
  <1>8. ASSUME NEW s \in ServiceId, s # r
        PROVE  Untouched(s)
    <2>1. Overriding(s)' = Overriding(s)
      BY <1>8 DEF Overriding
    <2>2. \A e \in Document, name \in QueueName \ {"requestSyncCms"} :
            Item(s, e) \in queue'[name] <=> Item(s, e) \in queue[name]
      <3>1. \A e \in Document : Item(s, e).id # r
        BY <1>8, ItemTyped
      <3>2. \A e \in Document : Item(s, e) \in queue'["requestPublication"] <=>
                                Item(s, e) \in queue["requestPublication"]
        BY <3>1
      <3>3. QED
        BY <3>2
    <2>3. QED
      BY <1>1, <1>2, <1>3, <1>8, <2>1, <2>2 DEF Untouched
  <1>9. QED
    BY <1>1, <1>2, <1>3, <1>5, <1>6, <1>7, <1>8

-----------------------------------------------------------------------------
(* Each step keeps it                                                       *)

\* A deleted service is deleted in the legacy system, when nothing is on its way.
LEMMA ChangeLifecycleCalm ==
  ASSUME Shape, NEW r \in ServiceId, ChangeLifecycle(r), ~ hasty',
         NEW s \in ServiceId, Calm(s)
  PROVE  Calm(s)'
  <1> USE ShapeParts
  <1>1. Change /\ Settled
    BY DEF ChangeLifecycle, Change
  <1>2. PICK arrow \in Diagram!Arrows, autoPublish \in BOOLEAN :
          /\ arrow.from = IF lifecycle[r] = NoItem THEN "*" ELSE lifecycle[r].state
          /\ SaveLifecycle(r, Own(IF arrow.to = "draft" THEN Fresh ELSE lifecycle[r].data,
                                  arrow.to, autoPublish))
    BY DEF ChangeLifecycle
  <1>3. /\ arrow.to \in LifecycleState /\ (arrow.from = "*" => arrow.to = "draft")
        /\ arrow.from # "deleted"
    BY <1>2 DEF Diagram!Arrows, Diagram!Arrow, LifecycleState
  <1> DEFINE data == IF arrow.to = "draft" THEN Fresh ELSE lifecycle[r].data
  <1>4. data \in Data
    BY <1>1, <1>2, <1>3, Changed, DocumentTyped
  <1>5. PICK d : d = Own(data, arrow.to, autoPublish)
    OBVIOUS
  <1>6. SaveLifecycle(r, d)
    BY <1>2, <1>5
  <1> HIDE DEF data
  <1>7. d \in Document /\ d.state \in LifecycleState /\ ~ d.fromLegacy
    BY <1>3, <1>4, <1>5, OwnTyped
  <1>8. UNCHANGED <<history, legacy, queue, overriding, faults, lost>>
    BY DEF ChangeLifecycle
  <1>9. FromLegacy' = FromLegacy
    BY <1>8 DEF FromLegacy
  <1>10. /\ lifecycle'[r] = d /\ publication'[r] = publication[r]
         /\ legacy'[r] = legacy[r]
         /\ r \in feed'.lifecycle
         /\ r \in feed'.publication <=> r \in feed.publication
         /\ Way(r)' \in SUBSET (Way(r) \cup {d}) /\ d \in Way(r)'
         /\ \A name \in QueueName \ {"requestSyncCms"} : InQueue(name, r)' = InQueue(name, r)
         /\ Fed(r)' = Fed(r)
         /\ \A t \in ServiceId : t # r => Untouched(t)
    BY <1>6, <1>7, <1>8, <1>9, LifecycleSaved
  <1>11. CASE s # r
    BY <1>10, <1>11, UntouchedStaysCalm
  <1>12. CASE s = r
    <2>1. /\ Way(s) = {} /\ \A name \in QueueName : InQueue(name, s) = {}
          /\ Fed(s) = {} /\ Overriding(s) = {}
          /\ s \notin feed.publication /\ ~ Unheard(s) /\ ~ Telling(s)
      BY <1>1, SettledViews
    <2>2. /\ Way(s)' = {d} /\ Fed(s)' = {} /\ Overriding(s)' = {}
          /\ InQueue("requestSyncLegacy", s)' = {} /\ Releasing(s)' = {}
          /\ InQueue("requestDeletion", s)' = {}
          /\ s \notin feed'.publication /\ ~ Unheard(s)'
      BY <1>9, <1>10, <1>12, <2>1, ZenonT(40) DEF QueueName, Releasing, Unheard, Overriding
    <2>3. /\ Newest(s)' = Newest(s) /\ FromNewest(s)' = FromNewest(s)
          /\ WasVisible(s)' <=> WasVisible(s)
      BY <1>10, <1>12, LegacySame
    <2>4. ~ Deleted(s)
      BY <1>2, <1>3, <1>12 DEF Deleted, Is
    <2>5. ~ (legacy[s] # <<>> /\ Newest(s).deleted)
      BY <2>1, <2>4 DEF Calm, Ended
    <2>6. Deleted(s)' <=> d.state = "deleted"
      BY <1>7, <1>10, <1>12, MarkerAssumption DEF Deleted, Is
    <2>7. Telling(s)' <=> d.state = "deleted"
      BY <1>7, <2>2, StatesApart DEF Telling
    <2>8. LastUnheard(s)'
      BY <2>2 DEF LastUnheard
    <2>9. Current(s)'
      BY <1>7, <1>10, <1>12, <2>2, StatesApart DEF Current
    <2>10. Decided(s)'
      BY <1>7, <2>2, StatesApart DEF Decided
    <2>11. Ended(s)'
      BY <1>10, <1>12, <2>3, <2>5, <2>6, <2>7 DEF Ended, Deleting
    <2>12. Agrees(s)'
      BY <1>10, <1>12, <2>1, <2>3 DEF Calm, Agrees, Is
    <2>13. QED
      BY <2>8, <2>9, <2>10, <2>11, <2>12 DEF Calm
  <1>13. QED
    BY <1>11, <1>12

LEMMA ChangePublicationCalm ==
  ASSUME Shape, NEW r \in ServiceId, ChangePublication(r), ~ hasty',
         NEW s \in ServiceId, Calm(s)
  PROVE  Calm(s)'
  <1> USE ShapeParts
  <1>1. Change /\ Settled /\ publication[r] # NoItem /\ ~ Deleted(r)
    BY DEF ChangePublication, Change, Deleted
  <1>2. PICK state \in PublicationState :
          SavePublication(r, Own(publication[r].data, state, FALSE))
    BY DEF ChangePublication
  <1>3. publication[r].data \in Data
    BY <1>1, DocumentTyped
  <1>4. PICK d : d = Own(publication[r].data, state, FALSE)
    OBVIOUS
  <1>5. d \in Document /\ d.state \in PublicationState /\ ~ d.fromLegacy
    BY <1>3, <1>4, OwnTyped
  <1>6. UNCHANGED <<history, legacy, queue, overriding, faults, lost>>
    BY DEF ChangePublication
  <1>7. FromLegacy' = FromLegacy
    BY <1>6 DEF FromLegacy
  <1>8. /\ lifecycle'[r] = lifecycle[r] /\ publication'[r] = d
        /\ legacy'[r] = legacy[r]
        /\ r \in feed'.publication
        /\ r \in feed'.lifecycle <=> r \in feed.lifecycle
        /\ Way(r)' \in SUBSET (Way(r) \cup {d}) /\ d \in Way(r)'
        /\ InQueue("requestSyncLegacy", r)' = InQueue("requestSyncLegacy", r)
        /\ InQueue("requestDeletion", r)' = InQueue("requestDeletion", r)
        /\ Fed(r)' = Fed(r)
        /\ \A t \in ServiceId : t # r => Untouched(t)
    BY <1>2, <1>4, <1>5, <1>6, <1>7, PublicationSaved
  <1>9. CASE s # r
    BY <1>8, <1>9, UntouchedStaysCalm
  <1>10. CASE s = r
    <2>1. /\ Way(s) = {} /\ \A name \in QueueName : InQueue(name, s) = {}
          /\ Fed(s) = {} /\ Overriding(s) = {} /\ s \notin feed.lifecycle
          /\ ~ Unheard(s) /\ ~ Telling(s)
      BY <1>1, SettledViews
    <2>2. Releasing(s)' = Releasing(s)
      BY <1>6 DEF Releasing, InQueue
    <2>3. /\ Way(s)' = {d} /\ Fed(s)' = {} /\ Overriding(s)' = {}
          /\ InQueue("requestSyncLegacy", s)' = {} /\ Releasing(s)' = {}
          /\ InQueue("requestDeletion", s)' = {}
          /\ s \notin feed'.lifecycle /\ ~ Unheard(s)'
      BY <1>7, <1>8, <1>10, <2>1, <2>2 DEF QueueName, Releasing, Unheard, Overriding
    <2>4. /\ Newest(s)' = Newest(s) /\ ~ Deleted(s)'
      BY <1>1, <1>8, <1>10, LegacySame DEF Deleted, Is
    <2>5. ~ (legacy[s] # <<>> /\ Newest(s).deleted)
      BY <1>1, <1>10, <2>1 DEF Calm, Ended
    <2>6. Telling(s)'
      BY <1>5, <2>3 DEF Telling
    <2>7. LastUnheard(s)'
      BY <2>3 DEF LastUnheard
    <2>8. Current(s)'
      BY <1>5, <1>8, <1>10, <2>3, <2>4, StatesApart, MarkerAssumption DEF Current, Alike
    <2>9. Decided(s)'
      BY <2>3 DEF Decided
    <2>10. Ended(s)'
      BY <1>8, <1>10, <2>4, <2>5 DEF Ended
    <2>11. Agrees(s)'
      BY <2>6 DEF Agrees
    <2>12. QED
      BY <2>7, <2>8, <2>9, <2>10, <2>11 DEF Calm
  <1>11. QED
    BY <1>9, <1>10

\* Versions that are added to the legacy container, seen by each service.
LEMMA VersionAdded ==
  ASSUME Shape, NEW r \in ServiceId, NEW v \in Version,
         legacy' = [legacy EXCEPT ![r] = Append(@, v)],
         feed' = [feed EXCEPT !.legacy = @ \cup {<<r, Len(legacy'[r])>>}],
         UNCHANGED <<lifecycle, publication, history, overriding>>,
         \A name \in QueueName \ {"requestSyncLegacy"} : queue'[name] = queue[name],
         \A w : w.id # r => (w \in queue'.requestSyncLegacy <=>
                             w \in queue.requestSyncLegacy)
  PROVE  /\ lifecycle'[r] = lifecycle[r] /\ publication'[r] = publication[r]
         /\ legacy'[r] # <<>> /\ Newest(r)' = v /\ Len(legacy'[r]) \in Nat
         /\ \A i \in DOMAIN legacy'[r] :
              i = Len(legacy'[r]) \/ (i \in DOMAIN legacy[r] /\ legacy'[r][i] = legacy[r][i])
         /\ feed'.lifecycle = feed.lifecycle /\ feed'.publication = feed.publication
         /\ \A name \in QueueName \ {"requestSyncLegacy", "requestSyncCms"} :
              InQueue(name, r)' = InQueue(name, r)
         /\ Overriding(r)' = Overriding(r)
         /\ Fed(r)' = Fed(r) \cup (IF v.cmsTag THEN {} ELSE {Len(legacy'[r])})
         /\ InQueue("requestSyncLegacy", r)' \in SUBSET InQueue("requestSyncLegacy", r)
              => Way(r)' \in SUBSET Way(r)
         /\ \A s \in ServiceId : s # r => Untouched(s)
  <1> USE ShapeParts
  <1>1. /\ feed'.lifecycle = feed.lifecycle /\ feed'.publication = feed.publication
        /\ feed'.history = feed.history
        /\ feed'.legacy = feed.legacy \cup {<<r, Len(legacy'[r])>>}
    BY FeedParts
  <1>2. \A s \in ServiceId : legacy'[s] = IF s = r THEN Append(legacy[s], v) ELSE legacy[s]
    OBVIOUS
  <1>3. /\ legacy[r] \in Seq(Version) /\ legacy'[r] = Append(legacy[r], v)
    BY <1>2
  <1>4. /\ legacy'[r] # <<>> /\ legacy'[r][Len(legacy'[r])] = v /\ Len(legacy'[r]) \in Nat
        /\ Len(legacy'[r]) = Len(legacy[r]) + 1 /\ Len(legacy[r]) \in Nat
        /\ DOMAIN legacy[r] = 1..Len(legacy[r])
        /\ DOMAIN legacy'[r] = 1..(Len(legacy[r]) + 1)
        /\ \A i \in 1..Len(legacy[r]) : legacy'[r][i] = legacy[r][i]
    <2>1. /\ Append(legacy[r], v) \in Seq(Version) \ {<<>>}
          /\ Len(Append(legacy[r], v)) = Len(legacy[r]) + 1
          /\ Append(legacy[r], v)[Len(legacy[r]) + 1] = v
          /\ \A i \in 1..Len(legacy[r]) : Append(legacy[r], v)[i] = legacy[r][i]
      BY <1>3, AppendProperties
    <2>2. /\ Len(legacy[r]) \in Nat /\ DOMAIN legacy[r] = 1..Len(legacy[r])
          /\ DOMAIN Append(legacy[r], v) = 1..Len(Append(legacy[r], v))
      BY <1>3, <2>1, LenProperties
    <2>3. QED
      BY <1>3, <2>1, <2>2
  <1>5. \A i \in DOMAIN legacy'[r] :
          i = Len(legacy'[r]) \/ (i \in DOMAIN legacy[r] /\ legacy'[r][i] = legacy[r][i])
    BY <1>4
  <1>6. \A name \in QueueName \ {"requestSyncLegacy", "requestSyncCms"} :
          InQueue(name, r)' = InQueue(name, r)
    BY DEF InQueue
  <1>7. FromLegacy' = FromLegacy
    BY DEF FromLegacy, QueueName
  <1>8. Fed(r)' = Fed(r) \cup (IF v.cmsTag THEN {} ELSE {Len(legacy'[r])})
    <2>1. \A i \in Nat : <<r, i>> \in feed.legacy => i \in 1..Len(legacy[r])
      OBVIOUS
    <2>2. QED
      BY <1>1, <1>4, <2>1 DEF Fed
  <1>9. InQueue("requestHistoricization", r)' = InQueue("requestHistoricization", r)
    BY <1>6 DEF QueueName
  <1>10. InQueue("requestSyncLegacy", r)' \in SUBSET InQueue("requestSyncLegacy", r)
              => Way(r)' \in SUBSET Way(r)
    BY <1>1, <1>9 DEF Way
  <1>11. ASSUME NEW s \in ServiceId, s # r
         PROVE  Untouched(s)
    <2>1. Overriding(s)' = Overriding(s)
      BY <1>7 DEF Overriding
    <2>2. \A e \in Document, name \in QueueName \ {"requestSyncCms"} :
            Item(s, e) \in queue'[name] <=> Item(s, e) \in queue[name]
      <3>1. \A e \in Document : Item(s, e).id # r
        BY <1>11, ItemTyped
      <3>2. \A e \in Document : Item(s, e) \in queue'["requestSyncLegacy"] <=>
                                Item(s, e) \in queue["requestSyncLegacy"]
        BY <3>1
      <3>3. QED
        BY <3>2
    <2>3. QED
      BY <1>1, <1>2, <1>11, <2>1, <2>2 DEF Untouched
  <1>12. Newest(r)' = v
    BY <1>4 DEF Newest
  <1>13. QED
    BY <1>1, <1>4, <1>5, <1>6, <1>7, <1>8, <1>10, <1>11, <1>12 DEF Overriding

LEMMA ChangeLegacyCalm ==
  ASSUME Shape, NEW r \in ServiceId, ChangeLegacy(r), ~ hasty',
         NEW s \in ServiceId, Calm(s)
  PROVE  Calm(s)'
  <1> USE ShapeParts
  <1>1. Change /\ Settled /\ (legacy[r] # <<>> => ~ Newest(r).deleted)
    BY NewestTyped DEF ChangeLegacy, Change
  <1>2. PICK look \in {"visible", "hidden", "deleted"} :
          legacy' = [legacy EXCEPT ![r] = Append(@,
            [data |-> Fresh, isVisible |-> look = "visible",
             deleted |-> look = "deleted", cmsTag |-> FALSE, ts |-> unixSeconds])]
    BY DEF ChangeLegacy
  <1>3. PICK v : v = [data |-> Fresh, isVisible |-> look = "visible",
                      deleted |-> look = "deleted", cmsTag |-> FALSE, ts |-> unixSeconds]
    OBVIOUS
  <1>4. v \in Version /\ ~ v.cmsTag
    BY <1>1, <1>3, Changed, SecondsType DEF Version
  <1>5. legacy' = [legacy EXCEPT ![r] = Append(@, v)]
    BY <1>2, <1>3
  <1>6. /\ feed' = [feed EXCEPT !.legacy = @ \cup {<<r, Len(legacy'[r])>>}]
        /\ UNCHANGED <<lifecycle, publication, history, queue, overriding>>
    BY DEF ChangeLegacy
  <1>7. /\ lifecycle'[r] = lifecycle[r] /\ publication'[r] = publication[r]
        /\ legacy'[r] # <<>> /\ Newest(r)' = v /\ Len(legacy'[r]) \in Nat
        /\ feed'.lifecycle = feed.lifecycle /\ feed'.publication = feed.publication
        /\ Overriding(r)' = Overriding(r)
        /\ Fed(r)' = Fed(r) \cup {Len(legacy'[r])}
        /\ InQueue("requestSyncLegacy", r)' \in SUBSET InQueue("requestSyncLegacy", r)
             => Way(r)' \in SUBSET Way(r)
        /\ \A t \in ServiceId : t # r => Untouched(t)
    BY <1>4, <1>5, <1>6, VersionAdded
  <1>8. CASE s # r
    BY <1>7, <1>8, UntouchedStaysCalm
  <1>9. CASE s = r
    <2>1. /\ Way(s) = {} /\ \A name \in QueueName : InQueue(name, s) = {}
          /\ Fed(s) = {} /\ Overriding(s) = {} /\ s \notin feed.lifecycle
          /\ s \notin feed.publication /\ ~ Unheard(s) /\ ~ Telling(s)
      BY <1>1, SettledViews
    <2>2. \A name \in QueueName : InQueue(name, s)' = {}
      BY <1>6, <2>1 DEF InQueue
    <2>3. /\ InQueue("requestSyncLegacy", s)' = {} /\ Releasing(s)' = {}
          /\ InQueue("requestDeletion", s)' = {}
      BY <2>2 DEF QueueName, Releasing
    <2>4. /\ Way(s)' = {} /\ Fed(s)' = {Len(legacy'[s])} /\ Overriding(s)' = {}
          /\ s \notin feed'.lifecycle /\ s \notin feed'.publication /\ Unheard(s)'
      BY <1>7, <1>9, <2>1, <2>3 DEF Unheard
    <2>5. ~ Deleted(s) /\ ~ Deleted(s)'
      BY <1>1, <1>7, <1>9, <2>1 DEF Calm, Ended, Deleted, Is
    <2>6. LastUnheard(s)'
      BY <1>4, <1>7, <1>9, <2>4 DEF LastUnheard
    <2>7. Current(s)'
      BY <2>3, <2>4 DEF Current
    <2>8. Decided(s)'
      BY <2>3, <2>4 DEF Decided
    <2>9. Ended(s)'
      BY <2>4, <2>5 DEF Ended
    <2>10. Agrees(s)'
      BY <2>4 DEF Agrees
    <2>11. QED
      BY <2>6, <2>7, <2>8, <2>9, <2>10 DEF Calm
  <1>10. QED
    BY <1>8, <1>9

\* Items of one service are not items of another one.
LEMMA OtherItem ==
  ASSUME NEW r \in ServiceId, NEW s \in ServiceId, s # r, NEW d, NEW e
  PROVE  Item(s, e) # Item(r, d)
  BY ItemTyped

LEMMA WatchLifecycleCalm ==
  ASSUME Shape, NEW r \in ServiceId, WatchLifecycle(r),
         NEW s \in ServiceId, Calm(s)
  PROVE  Calm(s)'
  <1> USE ShapeParts
  <1>1. PICK d : d = lifecycle[r]
    OBVIOUS
  <1>2. r \in feed.lifecycle /\ d \in Document
    BY <1>1 DEF WatchLifecycle
  <1>3. PICK w : w = Item(r, d)
    OBVIOUS
  <1>4. queue' =
         [queue EXCEPT
            !.requestHistoricization = @ \cup {w},
            !.requestPublication = IF (~ d.fromLegacy \/ d.state = "deleted") /\ d.state = "approved"
                                   THEN @ \cup {w} ELSE @,
            !.requestDeletion = IF (~ d.fromLegacy \/ d.state = "deleted") /\ d.state = "deleted"
                                THEN @ \cup {w} ELSE @]
    BY <1>1, <1>3 DEF WatchLifecycle
  <1>5. /\ feed' = [feed EXCEPT !.lifecycle = @ \ {r}]
        /\ UNCHANGED <<lifecycle, publication, history, legacy, overriding>>
    BY DEF WatchLifecycle, cms
  <1>6. /\ queue'.requestHistoricization = queue.requestHistoricization \cup {w}
        /\ queue'.requestPublication =
             queue.requestPublication \cup
             (IF ~ d.fromLegacy /\ d.state = "approved" THEN {w} ELSE {})
        /\ queue'.requestDeletion =
             queue.requestDeletion \cup (IF d.state = "deleted" THEN {w} ELSE {})
        /\ queue'.requestSyncLegacy = queue.requestSyncLegacy
        /\ queue'.requestSyncCms = queue.requestSyncCms
    BY <1>4 DEF QueueName
  <1>7. /\ feed'.lifecycle = feed.lifecycle \ {r}
        /\ feed'.publication = feed.publication /\ feed'.history = feed.history
        /\ feed'.legacy = feed.legacy
    BY <1>5, FeedParts
  <1>8. FromLegacy' = FromLegacy
    BY <1>5, <1>6 DEF FromLegacy
  <1>9. CASE s # r
    <2>1. \A e \in Document : Item(s, e) # w
      BY <1>3, <1>9, OtherItem
    <2>2. \A e \in Document, name \in QueueName \ {"requestSyncCms"} :
            Item(s, e) \in queue'[name] <=> Item(s, e) \in queue[name]
      BY <1>6, <2>1 DEF QueueName
    <2>3. Untouched(s)
      BY <1>5, <1>7, <1>8, <1>9, <2>2 DEF Untouched, Overriding
    <2>4. QED
      BY <2>3, UntouchedStaysCalm
  <1>10. CASE s = r
    <2>1. \A e : Item(s, e) = w <=> e = d
      BY <1>3, <1>10, ItemTyped
    <2>2. /\ InQueue("requestSyncLegacy", s)' = InQueue("requestSyncLegacy", s)
          /\ InQueue("requestHistoricization", s)' =
               InQueue("requestHistoricization", s) \cup {d}
          /\ Releasing(s)' = Releasing(s) \cup
               (IF ~ d.fromLegacy /\ d.state = "approved" THEN {d} ELSE {})
          /\ InQueue("requestDeletion", s)' = InQueue("requestDeletion", s) \cup
               (IF d.state = "deleted" THEN {d} ELSE {})
      BY <1>2, <1>6, <2>1 DEF InQueue, Releasing
    <2>3. Way(s)' = Way(s) /\ d \in Way(s)
      BY <1>1, <1>2, <1>5, <1>7, <1>10, <2>2 DEF Way
    <2>4. Fed(s)' = Fed(s) /\ Overriding(s)' = Overriding(s)
      BY <1>5, <1>7, <1>8 DEF Fed, Overriding
    <2>5. /\ Unheard(s)' <=> Unheard(s)
          /\ Telling(s)' <=> Telling(s)
      BY <2>2, <2>3, <2>4 DEF Unheard, Telling
    <2>6. /\ Newest(s)' = Newest(s) /\ FromNewest(s)' = FromNewest(s)
          /\ WasVisible(s)' <=> WasVisible(s)
          /\ Deleted(s)' <=> Deleted(s)
          /\ lifecycle'[s] = d /\ lifecycle[s] = d
          /\ Deleted(s) <=> d.state = "deleted"
      BY <1>1, <1>2, <1>5, <1>10, LegacySame, MarkerAssumption DEF Deleted, Is
    <2>7. s \notin feed'.lifecycle /\ s \in feed.lifecycle
      BY <1>2, <1>7, <1>10
    <2>8. LastUnheard(s)'
      BY <1>5, <2>4, <2>5, <2>6 DEF Calm, LastUnheard
    <2>9. Current(s)'
      BY <1>5, <1>7, <2>2, <2>3, <2>5, <2>6 DEF Calm, Current
    <2>10. ASSUME ~ d.fromLegacy
           PROVE  /\ ~ Unheard(s) /\ Releasing(s) = {}
                  /\ \A e \in Way(s) : ~ e.fromLegacy /\ e.state \notin PublicationState
      <3>1. \A e \in Way(s) : ~ e.fromLegacy
        BY <2>3, <2>10, DocumentTyped DEF Calm, Current, Way
      <3>2. ~ Unheard(s)
        BY <2>3, <2>10, NewestItems DEF Calm, Current, LastUnheard
      <3>3. QED
        BY <2>6, <2>7, <2>10, <3>1, <3>2 DEF Calm, Decided
    <2>11. Decided(s)'
      BY <2>2, <2>3, <2>5, <2>6, <2>7, <2>10 DEF Calm, Decided
    <2>12. Ended(s)'
      BY <1>5, <2>2, <2>5, <2>6, <2>7 DEF Calm, Ended, Deleting
    <2>13. Agrees(s)'
      BY <1>5, <2>5, <2>6 DEF Calm, Agrees, Is
    <2>14. QED
      BY <2>8, <2>9, <2>11, <2>12, <2>13 DEF Calm
  <1>11. QED
    BY <1>9, <1>10

LEMMA WatchPublicationCalm ==
  ASSUME Shape, NEW r \in ServiceId, WatchPublication(r),
         NEW s \in ServiceId, Calm(s)
  PROVE  Calm(s)'
  <1> USE ShapeParts
  <1>1. PICK d : d = publication[r]
    OBVIOUS
  <1>2. PICK w : w = Item(r, d)
    OBVIOUS
  <1>3. queue' = IF d = NoItem THEN queue
                 ELSE [queue EXCEPT !.requestHistoricization = @ \cup {w}]
    BY <1>1, <1>2 DEF WatchPublication
  <1>4. /\ r \in feed.publication
        /\ feed' = [feed EXCEPT !.publication = @ \ {r}]
        /\ UNCHANGED <<lifecycle, publication, history, legacy, overriding>>
    BY DEF WatchPublication, cms
  <1>5. /\ queue'.requestHistoricization = queue.requestHistoricization \cup
             (IF d = NoItem THEN {} ELSE {w})
        /\ queue'.requestPublication = queue.requestPublication
        /\ queue'.requestDeletion = queue.requestDeletion
        /\ queue'.requestSyncLegacy = queue.requestSyncLegacy
        /\ queue'.requestSyncCms = queue.requestSyncCms
    BY <1>3 DEF QueueName
  <1>6. /\ feed'.publication = feed.publication \ {r}
        /\ feed'.lifecycle = feed.lifecycle /\ feed'.history = feed.history
        /\ feed'.legacy = feed.legacy
    BY <1>4, FeedParts
  <1>7. FromLegacy' = FromLegacy
    BY <1>4, <1>5 DEF FromLegacy
  <1>8. CASE s # r
    <2>1. \A e \in Document : Item(s, e) # w
      BY <1>2, <1>8, OtherItem
    <2>2. \A e \in Document, name \in QueueName \ {"requestSyncCms"} :
            Item(s, e) \in queue'[name] <=> Item(s, e) \in queue[name]
      BY <1>5, <2>1 DEF QueueName
    <2>3. Untouched(s)
      BY <1>4, <1>6, <1>7, <1>8, <2>2 DEF Untouched, Overriding
    <2>4. QED
      BY <2>3, UntouchedStaysCalm
  <1>9. CASE s = r
    <2>1. d # NoItem /\ d \in Document
      BY <1>1, <1>4, <1>9 DEF Calm, Current
    <2>2. \A e : Item(s, e) = w <=> e = d
      BY <1>2, <1>9, ItemTyped
    <2>3. /\ InQueue("requestSyncLegacy", s)' = InQueue("requestSyncLegacy", s)
          /\ InQueue("requestHistoricization", s)' =
               InQueue("requestHistoricization", s) \cup {d}
          /\ Releasing(s)' = Releasing(s)
          /\ InQueue("requestDeletion", s)' = InQueue("requestDeletion", s)
      BY <1>5, <2>1, <2>2 DEF InQueue, Releasing
    <2>4. Way(s)' = Way(s)
      BY <1>1, <1>4, <1>6, <1>9, <2>1, <2>3 DEF Way
    <2>5. Fed(s)' = Fed(s) /\ Overriding(s)' = Overriding(s)
      BY <1>4, <1>6, <1>7 DEF Fed, Overriding
    <2>6. /\ Unheard(s)' <=> Unheard(s)
          /\ Telling(s)' <=> Telling(s)
      BY <2>3, <2>4, <2>5 DEF Unheard, Telling
    <2>7. /\ \A m \in Overriding(s)' : m.items = FromNewest(s)
          /\ \A e \in InQueue("requestSyncLegacy", s)' : e \in Way(s)' /\ ~ e.fromLegacy
      BY <2>3, <2>4, <2>5 DEF Calm, LastUnheard, Current
    <2>8. QED
      BY <1>4, <1>6, <2>3, <2>4, <2>5, <2>6, <2>7, CalmLess
  <1>10. QED
    BY <1>8, <1>9

LEMMA ReleaseCalm ==
  ASSUME Shape, NEW n \in queue.requestPublication, Release(n),
         NEW s \in ServiceId, Calm(s)
  PROVE  Calm(s)'
  <1> USE ShapeParts
  <1>1. n \in Items
    OBVIOUS
  <1>2. PICK r \in ServiceId, a \in Document : n = Item(r, a) /\ n.id = r /\ n.document = a
    BY <1>1, ItemTyped
  <1>3. PICK d : d = Own(a.data, Released(a), FALSE)
    OBVIOUS
  <1>4. SavePublication(r, d)
    BY <1>2, <1>3 DEF Release, Released
  <1>5. /\ d \in Document /\ d.state = Released(a) /\ d.state \in PublicationState
        /\ ~ d.fromLegacy /\ d.data = a.data
    <2>1. a.data \in Data /\ Released(a) \in PublicationState
      BY <1>2, DocumentTyped DEF Released, PublicationState
    <2>2. QED
      BY <1>3, <2>1, OwnTyped DEF Own
  <1>6. /\ \A name \in QueueName : name # "requestPublication" => queue'[name] = queue[name]
        /\ queue'["requestPublication"] \in
             {queue["requestPublication"], queue["requestPublication"] \ {n}}
        /\ UNCHANGED <<history, legacy, overriding>>
    BY HandledOnce DEF Release, QueueName
  <1>7. \A w : w.id # r => (w \in queue'.requestPublication <=>
                            w \in queue.requestPublication)
    BY <1>2, <1>6
  <1>8. FromLegacy' = FromLegacy
    BY <1>6 DEF FromLegacy, QueueName
  <1>9. /\ lifecycle'[r] = lifecycle[r] /\ publication'[r] = d
        /\ legacy'[r] = legacy[r]
        /\ r \in feed'.publication
        /\ r \in feed'.lifecycle <=> r \in feed.lifecycle
        /\ Way(r)' \in SUBSET (Way(r) \cup {d}) /\ d \in Way(r)'
        /\ InQueue("requestSyncLegacy", r) \in SUBSET Way(r)'
        /\ InQueue("requestSyncLegacy", r)' = InQueue("requestSyncLegacy", r)
        /\ InQueue("requestDeletion", r)' = InQueue("requestDeletion", r)
        /\ Fed(r)' = Fed(r)
        /\ \A t \in ServiceId : t # r => Untouched(t)
    BY <1>4, <1>5, <1>6, <1>7, <1>8, PublicationSaved
  <1>10. CASE s # r
    BY <1>9, <1>10, UntouchedStaysCalm
  <1>11. CASE s = r
    <2>1. Releasing(s)' \in SUBSET Releasing(s) /\ a \in Releasing(s)
      BY <1>2, <1>6, <1>11 DEF Releasing, InQueue
    <2>2. /\ a = lifecycle[s] /\ a.state = "approved" /\ ~ a.fromLegacy /\ ~ Unheard(s)
          /\ \A e \in Way(s) : ~ e.fromLegacy /\ (e.state \in PublicationState =>
               e.data = a.data /\ e.state = Released(a))
          /\ s \notin feed.lifecycle
      BY <2>1 DEF Calm, Decided
    <2>3. Overriding(s)' = Overriding(s)
      BY <1>8 DEF Overriding
    <2>4. ~ Unheard(s)' /\ Telling(s)' /\ ~ Deleted(s) /\ ~ Deleted(s)'
      BY <1>5, <1>9, <1>11, <2>2, <2>3 DEF Unheard, Telling, Deleted, Is
    <2>5. Newest(s)' = Newest(s)
      BY <1>9, <1>11, LegacySame
    <2>6. LastUnheard(s)'
      BY <1>9, <1>11, <2>3, <2>4, <2>5 DEF LastUnheard, Unheard
    <2>7. Current(s)'
      <3>1. \A e \in Way(s)' : e = d \/ e \in Way(s)
        BY <1>9, <1>11
      <3>2. \A e \in Way(s) :
              /\ e.state \in LifecycleState => e = lifecycle[s]
              /\ ~ e.fromLegacy /\ e.fromLegacy \in BOOLEAN
              /\ e.state \in PublicationState => Alike(e, d)
        <4>1. \A e \in Way(s) : e.fromLegacy \in BOOLEAN
          BY DocumentTyped DEF Way
        <4>2. d.fromLegacy \in BOOLEAN
          BY <1>5, DocumentTyped
        <4>3. QED
          BY <1>5, <2>2, <4>1, <4>2 DEF Calm, Current, Alike
      <3>3. \A e \in Way(s)' :
              /\ ~ e.fromLegacy
              /\ e.state \in LifecycleState => e = lifecycle'[s]
              /\ e.state \in PublicationState => Alike(e, publication'[s])
        BY <1>5, <1>9, <1>11, <3>1, <3>2, StatesApart, DocumentTyped DEF Alike
      <3>4. \A e \in InQueue("requestSyncLegacy", s)' : e \in Way(s)' /\ ~ e.fromLegacy
        BY <1>9, <1>11 DEF Calm, Current
      <3>5. publication'[s] # NoItem
        BY <1>5, <1>9, <1>11, MarkerAssumption
      <3>6. \A e, f \in Way(s)' : e.fromLegacy <=> f.fromLegacy
        BY <3>3
      <3>7. QED
        BY <2>4, <3>3, <3>4, <3>5, <3>6 DEF Current
    <2>8. Decided(s)'
      BY <1>5, <1>9, <1>11, <2>1, <2>2, <2>4 DEF Calm, Decided, Deleted, Is
    <2>9. Ended(s)'
      BY <1>9, <1>11, <2>2, <2>4, <2>5 DEF Calm, Ended
    <2>10. Agrees(s)'
      BY <2>4 DEF Agrees
    <2>11. QED
      BY <2>6, <2>7, <2>8, <2>9, <2>10 DEF Calm
  <1>12. QED
    BY <1>10, <1>11

LEMMA DeleteCalm ==
  ASSUME Shape, DeletedAreHidden, NEW n \in queue.requestDeletion, Delete(n),
         NEW s \in ServiceId, Calm(s)
  PROVE  Calm(s)'
  <1> USE ShapeParts
  <1>1. PICK r \in ServiceId, a \in Document : n = Item(r, a)
    BY ItemTyped
  <1>2. /\ publication' = [publication EXCEPT ![r] = NoItem]
        /\ UNCHANGED <<lifecycle, history, legacy, feed, overriding>>
    BY <1>1, ItemTyped DEF Delete
  <1>3. /\ \A name \in QueueName : name # "requestDeletion" => queue'[name] = queue[name]
        /\ queue'["requestDeletion"] \in
             {queue["requestDeletion"], queue["requestDeletion"] \ {n}}
    BY HandledOnce DEF Delete, QueueName
  <1>4. FromLegacy' = FromLegacy
    BY <1>2, <1>3 DEF FromLegacy, QueueName
  <1>5. CASE s # r
    <2>1. \A e \in Document : Item(s, e) # n
      BY <1>1, <1>5, OtherItem
    <2>2. \A e \in Document, name \in QueueName \ {"requestSyncCms"} :
            Item(s, e) \in queue'[name] <=> Item(s, e) \in queue[name]
      BY <1>3, <2>1
    <2>3. Untouched(s)
      BY <1>2, <1>4, <1>5, <2>2 DEF Untouched, Overriding
    <2>4. QED
      BY <2>3, UntouchedStaysCalm
  <1>6. CASE s = r
    <2>1. a \in InQueue("requestDeletion", s)
      BY <1>1, <1>6 DEF InQueue
    <2>2. Deleted(s)
      BY <2>1 DEF Calm, Decided
    <2>3. s \notin feed.publication
      <3>1. ASSUME s \in feed.publication
            PROVE  FALSE
        <4>1. publication[s] \in Way(s) /\ publication[s].state \in PublicationState
          BY <3>1 DEF Calm, Current, Way
        <4>2. QED
          BY <2>2, <4>1 DEF Calm, Current
      <3>2. QED
        BY <3>1
    <2>4. publication'[s] = NoItem
      BY <1>2, <1>6
    <2>5. /\ queue'.requestHistoricization = queue.requestHistoricization
          /\ queue'.requestSyncLegacy = queue.requestSyncLegacy
          /\ queue'.requestPublication = queue.requestPublication
          /\ queue'.requestDeletion \in SUBSET queue.requestDeletion
      BY <1>3 DEF QueueName
    <2>6. /\ InQueue("requestHistoricization", s)' = InQueue("requestHistoricization", s)
          /\ InQueue("requestSyncLegacy", s)' = InQueue("requestSyncLegacy", s)
          /\ Releasing(s)' = Releasing(s)
          /\ InQueue("requestDeletion", s)' \in SUBSET InQueue("requestDeletion", s)
      BY <2>5 DEF InQueue, Releasing
    <2>7. Way(s)' = Way(s)
      BY <1>2, <2>3, <2>6 DEF Way
    <2>8. Fed(s)' = Fed(s) /\ Overriding(s)' = Overriding(s)
      BY <1>2, <1>4 DEF Fed, Overriding
    <2>9. /\ Unheard(s)' <=> Unheard(s)
          /\ Telling(s)' <=> Telling(s)
      BY <2>6, <2>7, <2>8 DEF Unheard, Telling
    <2>10. /\ Newest(s)' = Newest(s) /\ FromNewest(s)' = FromNewest(s)
           /\ Deleted(s)'
           /\ lifecycle'[s] = lifecycle[s] /\ legacy'[s] = legacy[s]
           /\ feed' = feed
      BY <1>2, <2>2, LegacySame DEF Deleted, Is
    <2>11. \A e \in Way(s) : e.state \notin PublicationState
      BY <2>2 DEF Calm, Current
    <2>12. LastUnheard(s)'
      BY <2>8, <2>9, <2>10 DEF Calm, LastUnheard
    <2>13. Current(s)'
      <3>1. \A e \in Way(s)' :
              /\ e.state \in LifecycleState => e = lifecycle'[s]
              /\ e.state \notin PublicationState
              /\ Unheard(s)' => e \in FromNewest(s)'
              /\ \A f \in Way(s)' : e.fromLegacy <=> f.fromLegacy
        BY <2>7, <2>9, <2>10, <2>11 DEF Calm, Current
      <3>2. \A e \in InQueue("requestSyncLegacy", s)' : e \in Way(s)' /\ ~ e.fromLegacy
        BY <2>6, <2>7 DEF Calm, Current
      <3>3. s \notin feed'.publication
        BY <2>3, <2>10
      <3>4. QED
        BY <3>1, <3>2, <3>3 DEF Current
    <2>14. Decided(s)'
      BY <2>6, <2>7, <2>9, <2>10 DEF Calm, Decided
    <2>15. Ended(s)'
      BY <2>2, <2>4, <2>9, <2>10 DEF Calm, Ended
    <2>16. Agrees(s)'
      <3>1. legacy[s] # <<>> /\ Newest(s).deleted => ~ Newest(s).isVisible
        BY NewestTyped DEF DeletedAreHidden, Newest
      <3>2. Telling(s) \/ (legacy[s] # <<>> /\ Newest(s).deleted)
        BY <2>2 DEF Calm, Ended
      <3>3. ~ Is(publication[s], "published")'
        BY <2>4 DEF Is
      <3>4. QED
        BY <2>9, <2>10, <3>1, <3>2, <3>3 DEF Agrees
    <2>17. QED
      BY <2>12, <2>13, <2>14, <2>15, <2>16 DEF Calm
  <1>7. QED
    BY <1>5, <1>6

\* What takes a place in the history tells what the replaced document told,
\* unless the two were written together.
LEMMA ReplacedTells ==
  ASSUME Shape, Kept, NEW s \in ServiceId, Current(s), ~ Together(s),
         NEW d \in Way(s), NEW e \in Way(s),
         Item(s, d) \in stored, Item(s, e) \in stored,
         d.modified_at = e.modified_at,
         ~ d.fromLegacy, d.state \in PublicationState \cup {"deleted"}
  PROVE  ~ e.fromLegacy /\ e.state \in PublicationState \cup {"deleted"}
  <1>1. d \in Document /\ e \in Document
    BY DEF Way
  <1>2. ~ e.fromLegacy
    BY <1>1, DocumentTyped DEF Current
  <1>3. CASE d.state \in LifecycleState /\ e.state \in LifecycleState
    BY <1>3 DEF Current
  <1>4. CASE d.state \in PublicationState /\ e.state \in PublicationState
    BY <1>2, <1>4
  <1>5. CASE d.state \in LifecycleState /\ e.state \in PublicationState
    BY <1>2, <1>5
  <1>6. CASE d.state \in PublicationState /\ e.state \in LifecycleState
    BY <1>2, <1>6, ItemTyped DEF Together
  <1>7. QED
    BY <1>1, <1>2, <1>3, <1>4, <1>5, <1>6, DocumentTyped

LEMMA HistoricizeCalm ==
  ASSUME Shape, Kept, NEW n \in queue.requestHistoricization, Historicize(n),
         NEW s \in ServiceId, ~ Together(s), Calm(s)
  PROVE  Calm(s)'
  <1> USE ShapeParts
  <1>1. PICK r \in ServiceId, a \in Document : n = Item(r, a) /\ n.id = r /\ n.document = a
    BY ItemTyped
  <1>2. PICK key : key = <<r, a.modified_at>>
    OBVIOUS
  <1>3. /\ history' = {h \in history : h.id = r =>
                          h.document.modified_at # a.modified_at} \cup {n}
        /\ feed' = [feed EXCEPT !.history = @ \cup {key}]
        /\ UNCHANGED <<lifecycle, publication, legacy, overriding>>
    BY <1>1, <1>2 DEF Historicize, cms
  <1>4. /\ \A name \in QueueName : name # "requestHistoricization" => queue'[name] = queue[name]
        /\ queue'["requestHistoricization"] \in
             {queue["requestHistoricization"], queue["requestHistoricization"] \ {n}}
    BY HandledOnce DEF Historicize, QueueName
  <1>5. /\ feed'.history = feed.history \cup {key}
        /\ feed'.lifecycle = feed.lifecycle /\ feed'.publication = feed.publication
        /\ feed'.legacy = feed.legacy
    BY <1>3, FeedParts
  <1>6. FromLegacy' = FromLegacy
    BY <1>3, <1>4 DEF FromLegacy, QueueName
  <1>7. CASE s # r
    <2>1. \A e \in Document : Item(s, e) # n /\ Item(s, e).id # r
      BY <1>1, <1>7, ItemTyped
    <2>2. \A e \in Document, name \in QueueName \ {"requestSyncCms"} :
            Item(s, e) \in queue'[name] <=> Item(s, e) \in queue[name]
      BY <1>4, <2>1
    <2>3. \A e \in Document : Item(s, e) \in history' <=> Item(s, e) \in history
      BY <1>3, <2>1
    <2>4. \A x : <<s, x>> # key
      BY <1>2, <1>7
    <2>5. Untouched(s)
      BY <1>3, <1>5, <1>6, <2>2, <2>3, <2>4 DEF Untouched, Overriding
    <2>6. QED
      BY <2>5, UntouchedStaysCalm
  <1>8. CASE s = r
    <2>1. /\ queue'.requestSyncLegacy = queue.requestSyncLegacy
          /\ queue'.requestPublication = queue.requestPublication
          /\ queue'.requestDeletion = queue.requestDeletion
          /\ queue'.requestHistoricization \in SUBSET queue.requestHistoricization
          /\ \A w \in queue.requestHistoricization : w # n => w \in queue'.requestHistoricization
      BY <1>4 DEF QueueName
    <2>2. /\ InQueue("requestSyncLegacy", s)' = InQueue("requestSyncLegacy", s)
          /\ Releasing(s)' = Releasing(s)
          /\ InQueue("requestDeletion", s)' = InQueue("requestDeletion", s)
          /\ InQueue("requestHistoricization", s)' \in SUBSET InQueue("requestHistoricization", s)
          /\ a \in InQueue("requestHistoricization", s)
      BY <1>1, <1>8, <2>1 DEF InQueue, Releasing
    <2>3. \A e \in Document :
            /\ Item(s, e) = n <=> e = a
            /\ Item(s, e).id = r /\ Item(s, e).document = e
            /\ <<s, e.modified_at>> = key <=> e.modified_at = a.modified_at
      BY <1>1, <1>2, <1>8, ItemTyped
    <2>4. Way(s)' \in SUBSET Way(s)
      BY <1>3, <1>5, <2>2, <2>3 DEF Way
    <2>5. a \in Way(s)' /\ a \in Way(s)
      BY <1>3, <1>5, <2>2, <2>3 DEF Way
    <2>6. \A e \in Way(s) : e \in Way(s)' \/ (e.modified_at = a.modified_at /\ Item(s, e) \in history)
      <3>1. \A e \in InQueue("requestHistoricization", s) :
              e \in InQueue("requestHistoricization", s)' \/ e = a
        BY <2>1, <2>3 DEF InQueue
      <3>2. QED
        BY <1>3, <1>5, <2>2, <2>3, <2>5, <3>1 DEF Way
    <2>7. Telling(s) => Telling(s)'
      <3>1. ASSUME NEW d \in Way(s), ~ d.fromLegacy,
                   d.state \in PublicationState \cup {"deleted"}, d \notin Way(s)'
            PROVE  Telling(s)'
        <4>1. Item(s, d) \in stored /\ Item(s, a) \in stored
          BY <1>1, <1>8, <2>6, <3>1 DEF Kept
        <4>2. ~ a.fromLegacy /\ a.state \in PublicationState \cup {"deleted"}
          BY <2>5, <2>6, <3>1, <4>1, ReplacedTells DEF Calm
        <4>3. QED
          BY <2>5, <4>2 DEF Telling
      <3>2. QED
        BY <2>2, <3>1 DEF Telling
    <2>8. Fed(s)' = Fed(s) /\ Overriding(s)' = Overriding(s)
      BY <1>3, <1>5, <1>6 DEF Fed, Overriding
    <2>9. Unheard(s)' <=> Unheard(s)
      BY <2>8 DEF Unheard
    <2>10. \A m \in Overriding(s)' : m.items = FromNewest(s)
      BY <2>8 DEF Calm, LastUnheard
    <2>11. \A e \in InQueue("requestSyncLegacy", s)' : e \in Way(s)' /\ ~ e.fromLegacy
      BY <2>2 DEF Calm, Current, Way
    <2>12. QED
      BY <1>3, <1>5, <2>2, <2>4, <2>7, <2>8, <2>9, <2>10, <2>11, CalmLess
  <1>9. QED
    BY <1>7, <1>8

\* What is not sent to the legacy system was not to be told.
LEMMA WatchHistoryCalm ==
  ASSUME Shape, OneKey, NEW key \in feed.history, WatchHistory(key),
         NEW s \in ServiceId, Calm(s)
  PROVE  Calm(s)'
  <1> USE ShapeParts
  <1>1. PICK h \in history :
          /\ <<h.id, h.document.modified_at>> = key
          /\ queue' = IF shouldServiceBeSynced(h)
                      THEN [queue EXCEPT !.requestSyncLegacy = @ \cup {h}]
                      ELSE queue
    BY DEF WatchHistory
  <1>2. PICK r \in ServiceId, a \in Document : h = Item(r, a) /\ h.id = r /\ h.document = a
    BY ItemTyped
  <1>3. /\ feed' = [feed EXCEPT !.history = @ \ {key}]
        /\ UNCHANGED <<lifecycle, publication, history, legacy, overriding>>
    BY DEF WatchHistory, cms
  <1>4. /\ queue'.requestHistoricization = queue.requestHistoricization
        /\ queue'.requestPublication = queue.requestPublication
        /\ queue'.requestDeletion = queue.requestDeletion
        /\ queue'.requestSyncLegacy = queue.requestSyncLegacy \cup
             (IF shouldServiceBeSynced(h) THEN {h} ELSE {})
        /\ queue'.requestSyncCms = queue.requestSyncCms
    BY <1>1 DEF QueueName
  <1>5. /\ feed'.history = feed.history \ {key}
        /\ feed'.lifecycle = feed.lifecycle /\ feed'.publication = feed.publication
        /\ feed'.legacy = feed.legacy
    BY <1>3, FeedParts
  <1>6. FromLegacy' = FromLegacy
    BY <1>3, <1>4 DEF FromLegacy
  <1>7. CASE s # r
    <2>1. \A e \in Document : Item(s, e) # h
      BY <1>2, <1>7, OtherItem
    <2>2. \A e \in Document, name \in QueueName \ {"requestSyncCms"} :
            Item(s, e) \in queue'[name] <=> Item(s, e) \in queue[name]
      BY <1>4, <2>1 DEF QueueName
    <2>3. \A x : <<s, x>> # key
      BY <1>1, <1>2, <1>7
    <2>4. Untouched(s)
      BY <1>3, <1>5, <1>6, <2>2, <2>3 DEF Untouched, Overriding
    <2>5. QED
      BY <2>4, UntouchedStaysCalm
  <1>8. CASE s = r
    <2>1. \A e \in Document : Item(s, e) = h <=> e = a
      BY <1>2, <1>8, ItemTyped
    <2>2. /\ InQueue("requestSyncLegacy", s)' = InQueue("requestSyncLegacy", s) \cup
               (IF shouldServiceBeSynced(h) THEN {a} ELSE {})
          /\ Releasing(s)' = Releasing(s)
          /\ InQueue("requestDeletion", s)' = InQueue("requestDeletion", s)
          /\ InQueue("requestHistoricization", s)' = InQueue("requestHistoricization", s)
      BY <1>4, <2>1 DEF InQueue, Releasing
    <2>3. \A e \in Document :
            Item(s, e) \in history /\ <<s, e.modified_at>> = key => e = a
      <3>1. \A e \in Document :
              /\ Item(s, e).id = r /\ Item(s, e).document = e
              /\ <<s, e.modified_at>> = key => e.modified_at = a.modified_at
        BY <1>1, <1>2, <1>8, ItemTyped
      <3>2. QED
        BY <1>1, <1>2, <1>8, <2>1, <3>1 DEF OneKey
    <2>4. a \in Way(s)
      BY <1>1, <1>2, <1>8 DEF Way
    <2>5. Way(s)' \in SUBSET Way(s)
      BY <1>3, <1>5, <2>2, <2>4 DEF Way
    <2>6. \A e \in Way(s) : e \in Way(s)' \/ (e = a /\ ~ shouldServiceBeSynced(h))
      BY <1>3, <1>5, <2>2, <2>3 DEF Way
    <2>7. shouldServiceBeSynced(h) => ~ a.fromLegacy
      BY <1>2 DEF shouldServiceBeSynced
    <2>8. ~ a.fromLegacy /\ a.state \in PublicationState \cup {"deleted"} =>
            shouldServiceBeSynced(h)
      BY <1>2 DEF shouldServiceBeSynced
    <2>9. Telling(s) => Telling(s)'
      BY <2>2, <2>6, <2>8 DEF Telling
    <2>10. Fed(s)' = Fed(s) /\ Overriding(s)' = Overriding(s)
      BY <1>3, <1>5, <1>6 DEF Fed, Overriding
    <2>11. Unheard(s)' <=> Unheard(s)
      BY <2>10 DEF Unheard
    <2>12. \A m \in Overriding(s)' : m.items = FromNewest(s)
      BY <2>10 DEF Calm, LastUnheard
    <2>13. \A e \in InQueue("requestSyncLegacy", s)' : e \in Way(s)' /\ ~ e.fromLegacy
      BY <2>2, <2>7 DEF Calm, Current, Way
    <2>14. QED
      BY <1>3, <1>5, <2>2, <2>5, <2>9, <2>10, <2>11, <2>12, <2>13, CalmLess
  <1>9. QED
    BY <1>7, <1>8

\* The legacy system hears of the current document.
LEMMA SyncLegacyCalm ==
  ASSUME Shape, NEW n \in queue.requestSyncLegacy, SyncLegacy(n),
         NEW s \in ServiceId, Calm(s)
  PROVE  Calm(s)'
  <1> USE ShapeParts
  <1>1. PICK r \in ServiceId, a \in Document : n = Item(r, a) /\ n.id = r /\ n.document = a
    BY ItemTyped
  <1>2. PICK v : v = [data |-> a.data, isVisible |-> a.state = "published",
                      deleted |-> a.state = "deleted", cmsTag |-> TRUE, ts |-> unixSeconds]
    OBVIOUS
  <1>3. /\ v \in Version /\ v.cmsTag /\ v.data = a.data
        /\ v.isVisible <=> a.state = "published"
        /\ v.deleted <=> a.state = "deleted"
    BY <1>1, <1>2, DocumentTyped, SecondsType DEF Version
  <1>4. legacy' = [legacy EXCEPT ![r] = Append(@, v)]
    BY <1>1, <1>2 DEF SyncLegacy
  <1>5. /\ feed' = [feed EXCEPT !.legacy = @ \cup {<<r, Len(legacy'[r])>>}]
        /\ UNCHANGED <<lifecycle, publication, history, overriding>>
    BY <1>1 DEF SyncLegacy, cms
  <1>6. /\ \A name \in QueueName : name # "requestSyncLegacy" => queue'[name] = queue[name]
        /\ queue'["requestSyncLegacy"] \in
             {queue["requestSyncLegacy"], queue["requestSyncLegacy"] \ {n}}
    BY HandledOnce DEF SyncLegacy, QueueName
  <1>7. \A w : w.id # r => (w \in queue'.requestSyncLegacy <=>
                            w \in queue.requestSyncLegacy)
    BY <1>1, <1>6
  <1>8. /\ lifecycle'[r] = lifecycle[r] /\ publication'[r] = publication[r]
        /\ legacy'[r] # <<>> /\ Newest(r)' = v
        /\ feed'.lifecycle = feed.lifecycle /\ feed'.publication = feed.publication
        /\ \A name \in QueueName \ {"requestSyncLegacy", "requestSyncCms"} :
             InQueue(name, r)' = InQueue(name, r)
        /\ Overriding(r)' = Overriding(r)
        /\ Fed(r)' = Fed(r)
        /\ InQueue("requestSyncLegacy", r)' \in SUBSET InQueue("requestSyncLegacy", r)
             => Way(r)' \in SUBSET Way(r)
        /\ \A t \in ServiceId : t # r => Untouched(t)
    <2>1. \A name \in QueueName \ {"requestSyncLegacy"} : queue'[name] = queue[name]
      BY <1>6
    <2>2. /\ lifecycle'[r] = lifecycle[r] /\ publication'[r] = publication[r]
          /\ legacy'[r] # <<>> /\ Newest(r)' = v
          /\ feed'.lifecycle = feed.lifecycle /\ feed'.publication = feed.publication
          /\ \A name \in QueueName \ {"requestSyncLegacy", "requestSyncCms"} :
               InQueue(name, r)' = InQueue(name, r)
          /\ Overriding(r)' = Overriding(r)
          /\ Fed(r)' = Fed(r) \cup (IF v.cmsTag THEN {} ELSE {Len(legacy'[r])})
          /\ InQueue("requestSyncLegacy", r)' \in SUBSET InQueue("requestSyncLegacy", r)
               => Way(r)' \in SUBSET Way(r)
          /\ \A t \in ServiceId : t # r => Untouched(t)
      BY <1>3, <1>4, <1>5, <1>7, <2>1, VersionAdded
    <2>3. Fed(r)' = Fed(r)
      BY <1>3, <2>2
    <2>4. QED
      BY <2>2, <2>3
  <1>9. CASE s # r
    BY <1>8, <1>9, UntouchedStaysCalm
  <1>10. CASE s = r
    <2>1. /\ InQueue("requestSyncLegacy", s)' \in SUBSET InQueue("requestSyncLegacy", s)
          /\ a \in InQueue("requestSyncLegacy", s)
      BY <1>1, <1>6, <1>10 DEF InQueue
    <2>2. /\ InQueue("requestDeletion", s)' = InQueue("requestDeletion", s)
          /\ Releasing(s)' = Releasing(s)
          /\ Way(s)' \in SUBSET Way(s)
      BY <1>8, <1>10, <2>1 DEF Releasing, QueueName
    <2>3. a \in Way(s) /\ ~ a.fromLegacy
      BY <2>1 DEF Calm, Current
    <2>4. ~ Unheard(s)
      BY <2>3, NewestItems DEF Calm, Current, LastUnheard
    <2>5. ~ Unheard(s)' /\ Fed(s)' = {} /\ Overriding(s)' = {}
      BY <1>8, <1>10, <2>4 DEF Unheard
    <2>6. Deleted(s)' <=> Deleted(s)
      BY <1>8, <1>10 DEF Deleted, Is
    <2>7. Deleted(s) <=> a.state = "deleted"
      <3>1. a.state = "deleted" => a = lifecycle[s]
        BY <2>3, StatesApart DEF Calm, Current
      <3>2. Deleted(s) => a.state \notin PublicationState
        BY <2>3 DEF Calm, Current
      <3>3. a.state \in LifecycleState => a = lifecycle[s]
        BY <2>3 DEF Calm, Current
      <3>4. QED
        BY <3>1, <3>2, <3>3, DocumentTyped, MarkerAssumption DEF Deleted, Is
    <2>8. \A e \in InQueue("requestSyncLegacy", s)' : e \in Way(s)' /\ ~ e.fromLegacy
      BY <2>1 DEF Calm, Current, Way
    <2>9. LastUnheard(s)'
      BY <2>5 DEF LastUnheard
    <2>10. Current(s)'
      BY <1>8, <1>10, <2>2, <2>5, <2>6, <2>8 DEF Calm, Current
    <2>11. Decided(s)'
      BY <1>8, <1>10, <2>2, <2>5, <2>6 DEF Calm, Decided
    <2>12. Ended(s)'
      <3>1. Deleting(s)' <=> Deleting(s)
        BY <1>8, <1>10, <2>2 DEF Deleting
      <3>2. QED
        BY <1>3, <1>8, <1>10, <2>6, <2>7, <3>1 DEF Calm, Ended
    <2>13. Agrees(s)'
      <3>1. a.state = "published" =>
              publication[s] # NoItem /\ publication[s].state = "published"
              /\ publication[s].data = a.data
        BY <2>3 DEF Calm, Current, Alike, PublicationState
      <3>2. QED
        BY <1>3, <1>8, <1>10, <3>1 DEF Agrees, Is
    <2>14. QED
      BY <2>9, <2>10, <2>11, <2>12, <2>13 DEF Calm
  <1>11. QED
    BY <1>9, <1>10

LEMMA WatchLegacyCalm ==
  ASSUME Shape, NEW key \in feed.legacy, WatchLegacy(key[1], key[2]),
         NEW s \in ServiceId, Calm(s)
  PROVE  Calm(s)'
  <1> USE ShapeParts
  <1>1. PICK r \in ServiceId, i \in Nat : key = <<r, i>>
    OBVIOUS
  <1>2. WatchLegacy(r, i)
    BY <1>1
  <1>3. PICK n : n = [id |-> r, items |-> FromVersion(r, i)]
    OBVIOUS
  <1>4. n.id = r /\ n.items = FromVersion(r, i)
    BY <1>3
  <1>5. queue' = IF legacy[r][i].cmsTag THEN queue
                 ELSE [queue EXCEPT !.requestSyncCms = @ \cup {n}]
    BY <1>2, <1>3 DEF WatchLegacy, FromVersion
  <1>6. /\ feed' = [feed EXCEPT !.legacy = @ \ {key}]
        /\ UNCHANGED <<lifecycle, publication, history, legacy, overriding>>
    BY <1>1, <1>2 DEF WatchLegacy, cms
  <1>7. /\ feed'.legacy = feed.legacy \ {key}
        /\ feed'.lifecycle = feed.lifecycle /\ feed'.publication = feed.publication
        /\ feed'.history = feed.history
    BY <1>6, FeedParts
  <1>8. /\ \A name \in QueueName \ {"requestSyncCms"} : queue'[name] = queue[name]
        /\ queue'.requestSyncCms =
             queue.requestSyncCms \cup (IF legacy[r][i].cmsTag THEN {} ELSE {n})
    BY <1>5 DEF QueueName
  <1>9. FromLegacy' = FromLegacy \cup (IF legacy[r][i].cmsTag THEN {} ELSE {n})
    BY <1>6, <1>8 DEF FromLegacy
  <1>10. CASE s # r
    <2>1. \A x : <<s, x>> # key
      BY <1>1, <1>10
    <2>2. Overriding(s)' = Overriding(s)
      BY <1>4, <1>9, <1>10 DEF Overriding
    <2>3. Untouched(s)
      BY <1>6, <1>7, <1>8, <2>1, <2>2 DEF Untouched
    <2>4. QED
      BY <2>3, UntouchedStaysCalm
  <1>11. CASE s = r
    <2>1. \A name \in QueueName \ {"requestSyncCms"} : InQueue(name, s)' = InQueue(name, s)
      BY <1>8 DEF InQueue
    <2>2. /\ InQueue("requestSyncLegacy", s)' = InQueue("requestSyncLegacy", s)
          /\ Releasing(s)' = Releasing(s)
          /\ InQueue("requestDeletion", s)' = InQueue("requestDeletion", s)
          /\ InQueue("requestHistoricization", s)' = InQueue("requestHistoricization", s)
      BY <2>1 DEF Releasing, QueueName
    <2>3. Way(s)' = Way(s)
      BY <1>6, <1>7, <2>2 DEF Way
    <2>4. Telling(s)' <=> Telling(s)
      BY <2>2, <2>3 DEF Telling
    <2>5. /\ Fed(s)' \in SUBSET Fed(s)
          /\ legacy[s][i].cmsTag => Fed(s)' = Fed(s)
          /\ ~ legacy[s][i].cmsTag => i \in Fed(s)
      <3>1. \A j \in Nat : <<s, j>> = key <=> j = i
        BY <1>1, <1>11
      <3>2. key \in feed.legacy
        OBVIOUS
      <3>3. QED
        BY <1>1, <1>6, <1>7, <1>11, <3>1, <3>2 DEF Fed
    <2>6. Overriding(s)' = Overriding(s) \cup (IF legacy[s][i].cmsTag THEN {} ELSE {n})
      BY <1>4, <1>9, <1>11 DEF Overriding
    <2>7. Unheard(s)' <=> Unheard(s)
      BY <2>5, <2>6 DEF Unheard
    <2>8. ~ legacy[s][i].cmsTag => n.items = FromNewest(s)
      BY <1>4, <1>11, <2>5 DEF Calm, LastUnheard, FromNewest
    <2>9. \A m \in Overriding(s)' : m.items = FromNewest(s)
      BY <2>6, <2>8 DEF Calm, LastUnheard
    <2>10. \A e \in InQueue("requestSyncLegacy", s)' : e \in Way(s)' /\ ~ e.fromLegacy
      BY <2>2, <2>3 DEF Calm, Current
    <2>11. QED
      BY <1>6, <1>7, <2>2, <2>3, <2>4, <2>5, <2>7, <2>9, <2>10, CalmLess
  <1>12. QED
    BY <1>10, <1>11

\* The override of a container, by an item of the last version.
LEMMA OverrideLifecycleCalm ==
  ASSUME Shape, DeletedAreHidden,
         NEW n \in queue.requestSyncCms, OverrideLifecycle(n),
         NEW s \in ServiceId, Calm(s)
  PROVE  Calm(s)'
  <1> USE ShapeParts
  <1>1. PICK r \in ServiceId : n.id = r
    BY DEF FromLegacy
  <1>2. n.items \in SUBSET Document /\ n \in FromLegacy
    BY DEF FromLegacy
  <1>3. PICK d \in n.items \ PublicationItems(n) : SaveLifecycle(r, d)
    BY <1>1 DEF OverrideLifecycle
  <1>4. d \in Document /\ d.state \notin PublicationState /\ d.state \in LifecycleState
    BY <1>2, <1>3, DocumentTyped DEF PublicationItems
  <1>5. /\ \A name \in QueueName \ {"requestSyncCms"} : queue'[name] = queue[name]
        /\ FromLegacy' \in SUBSET FromLegacy
        /\ \A m \in FromLegacy : m # n => m \in FromLegacy'
        /\ PublicationItems(n) # {} => n \in FromLegacy'
        /\ UNCHANGED <<history, legacy>>
    <2>1. UNCHANGED <<history, legacy>>
      BY DEF OverrideLifecycle
    <2>2. CASE PublicationItems(n) = {}
      <3>1. overriding' = overriding /\ Handled("requestSyncCms", n)
        BY <2>2 DEF OverrideLifecycle
      <3>2. /\ \A name \in QueueName : name # "requestSyncCms" => queue'[name] = queue[name]
            /\ queue'["requestSyncCms"] \in
                 {queue["requestSyncCms"], queue["requestSyncCms"] \ {n}}
        BY <3>1, HandledOnce DEF QueueName
      <3>3. QED
        BY <2>1, <2>2, <3>1, <3>2 DEF FromLegacy
    <2>3. CASE PublicationItems(n) # {}
      <3>1. /\ overriding' = overriding \cup {n}
            /\ queue' = [queue EXCEPT !.requestSyncCms = @ \ {n}]
        BY <2>3 DEF OverrideLifecycle
      <3>2. /\ \A name \in QueueName \ {"requestSyncCms"} : queue'[name] = queue[name]
            /\ queue'.requestSyncCms = queue.requestSyncCms \ {n}
        BY <3>1 DEF QueueName
      <3>3. QED
        BY <1>2, <2>1, <2>3, <3>1, <3>2 DEF FromLegacy
    <2>4. QED
      BY <2>2, <2>3
  <1>6. \A m : m.id # r => (m \in FromLegacy' <=> m \in FromLegacy)
    BY <1>1, <1>5
  <1>7. /\ lifecycle'[r] = d /\ publication'[r] = publication[r]
        /\ legacy'[r] = legacy[r]
        /\ r \in feed'.lifecycle
        /\ r \in feed'.publication <=> r \in feed.publication
        /\ Way(r)' \in SUBSET (Way(r) \cup {d}) /\ d \in Way(r)'
        /\ InQueue("requestSyncLegacy", r) \in SUBSET Way(r)'
        /\ \A name \in QueueName \ {"requestSyncCms"} : InQueue(name, r)' = InQueue(name, r)
        /\ Fed(r)' = Fed(r)
        /\ \A t \in ServiceId : t # r => Untouched(t)
    BY <1>3, <1>4, <1>5, <1>6, LifecycleSaved
  <1>8. CASE s # r
    BY <1>7, <1>8, UntouchedStaysCalm
  <1>9. CASE s = r
    <2>1. n \in Overriding(s) /\ Unheard(s)
      BY <1>1, <1>2, <1>9 DEF Overriding, Unheard
    <2>2. /\ legacy[s] # <<>> /\ ~ Newest(s).cmsTag /\ n.items = FromNewest(s)
      BY <2>1 DEF Calm, LastUnheard
    <2>3. d \in FromNewest(s)
      BY <1>3, <2>2
    <2>4. /\ d.fromLegacy
          /\ d.state = "deleted" <=> Newest(s).deleted
          /\ \A e \in FromNewest(s) :
               /\ e.fromLegacy
               /\ e.state \notin PublicationState => e = d
               /\ e.state \in PublicationState => ~ Newest(s).deleted
          /\ ~ Newest(s).deleted /\ (Newest(s).isVisible \/ WasVisible(s)) =>
               \E e \in FromNewest(s) : e.state \in PublicationState
      BY <1>4, <2>2, <2>3, NewestItems
    <2>5. \A e \in Way(s) : e \in FromNewest(s)
      BY <2>1 DEF Calm, Current
    <2>6. InQueue("requestSyncLegacy", s) = {} /\ Releasing(s) = {} /\ ~ Telling(s)
      <3>1. InQueue("requestSyncLegacy", s) = {}
        BY <2>4, <2>5 DEF Calm, Current
      <3>2. Releasing(s) = {}
        BY <2>1 DEF Calm, Decided
      <3>3. QED
        BY <2>4, <2>5, <3>1, <3>2 DEF Telling
    <2>7. /\ InQueue("requestSyncLegacy", s)' = {} /\ Releasing(s)' = {}
          /\ InQueue("requestDeletion", s)' = InQueue("requestDeletion", s)
      BY <1>7, <1>9, <2>6 DEF Releasing, QueueName
    <2>8. Overriding(s)' \in SUBSET Overriding(s)
      BY <1>5 DEF Overriding
    <2>9. /\ PublicationItems(n) # {} => Unheard(s)'
          /\ Unheard(s)' => Unheard(s)
      BY <1>1, <1>5, <1>7, <1>9, <2>8 DEF Overriding, Unheard
    <2>10. (\E e \in FromNewest(s) : e.state \in PublicationState) => Unheard(s)'
      BY <2>2, <2>9 DEF PublicationItems
    <2>11. /\ Newest(s)' = Newest(s) /\ FromNewest(s)' = FromNewest(s)
           /\ WasVisible(s)' <=> WasVisible(s)
      BY <1>7, <1>9, LegacySame
    <2>12. Deleted(s)' <=> Newest(s).deleted
      BY <1>4, <1>7, <1>9, <2>4, MarkerAssumption DEF Deleted, Is
    <2>13. Deleted(s) => Newest(s).deleted
      BY <2>6 DEF Calm, Ended
    <2>14. LastUnheard(s)'
      BY <1>7, <1>9, <2>2, <2>8, <2>9, <2>11 DEF Calm, LastUnheard
    <2>15. Current(s)'
      <3>1. \A e \in Way(s)' : e \in FromNewest(s) /\ (e = d \/ e \in Way(s))
        BY <1>7, <1>9, <2>3, <2>5
      <3>2. \A e \in Way(s)' :
              /\ e.fromLegacy
              /\ e.state \in LifecycleState => e = lifecycle'[s]
        BY <1>7, <1>9, <2>4, <3>1, StatesApart
      <3>3. \A e \in Way(s)' : e.state \in PublicationState =>
              publication'[s] # NoItem /\ Alike(e, publication'[s]) /\ ~ Deleted(s)'
        <4>1. \A e \in Way(s)' : e.state \in PublicationState => e \in Way(s) /\ ~ Deleted(s)'
          BY <1>4, <2>4, <2>12, <3>1
        <4>2. QED
          BY <1>7, <1>9, <4>1 DEF Calm, Current
      <3>4. s \in feed'.publication => publication'[s] # NoItem
        BY <1>7, <1>9 DEF Calm, Current
      <3>5. QED
        BY <2>7, <2>11, <3>1, <3>2, <3>3, <3>4 DEF Current
    <2>16. Decided(s)'
      BY <1>7, <1>9, <2>4, <2>7, <2>12, <2>13 DEF Calm, Decided
    <2>17. Ended(s)'
      BY <1>7, <1>9, <2>2, <2>11, <2>12 DEF Ended, Deleting
    <2>18. Agrees(s)'
      <3>1. ~ (Newest(s).isVisible /\ Newest(s).deleted)
        BY <2>2, NewestTyped DEF DeletedAreHidden, Newest
      <3>2. QED
        BY <1>7, <1>9, <2>4, <2>10, <2>11, <3>1 DEF Agrees, Is
    <2>19. QED
      BY <2>14, <2>15, <2>16, <2>17, <2>18 DEF Calm
  <1>10. QED
    BY <1>8, <1>9

LEMMA OverridePublicationCalm ==
  ASSUME Shape, NEW n \in overriding, OverridePublication(n),
         NEW s \in ServiceId, Calm(s)
  PROVE  Calm(s)'
  <1> USE ShapeParts
  <1>1. PICK r \in ServiceId : n.id = r
    BY DEF FromLegacy
  <1>2. n.items \in SUBSET Document /\ n \in FromLegacy
    BY DEF FromLegacy
  <1>3. PICK d \in PublicationItems(n) : SavePublication(r, d)
    BY <1>1 DEF OverridePublication
  <1>4. d \in n.items /\ d \in Document /\ d.state \in PublicationState
    BY <1>2, <1>3 DEF PublicationItems
  <1>5. /\ UNCHANGED <<history, legacy, queue>> /\ overriding' = overriding \ {n}
        /\ FromLegacy' \in SUBSET FromLegacy
        /\ \A m \in FromLegacy : m # n => m \in FromLegacy'
    BY DEF OverridePublication, FromLegacy
  <1>6. \A m : m.id # r => (m \in FromLegacy' <=> m \in FromLegacy)
    BY <1>1, <1>5
  <1>7. /\ lifecycle'[r] = lifecycle[r] /\ publication'[r] = d
        /\ legacy'[r] = legacy[r]
        /\ r \in feed'.publication
        /\ r \in feed'.lifecycle <=> r \in feed.lifecycle
        /\ Way(r)' \in SUBSET (Way(r) \cup {d}) /\ d \in Way(r)'
        /\ InQueue("requestSyncLegacy", r) \in SUBSET Way(r)'
        /\ InQueue("requestSyncLegacy", r)' = InQueue("requestSyncLegacy", r)
        /\ InQueue("requestDeletion", r)' = InQueue("requestDeletion", r)
        /\ Fed(r)' = Fed(r)
        /\ \A t \in ServiceId : t # r => Untouched(t)
    BY <1>3, <1>4, <1>5, <1>6, PublicationSaved
  <1>8. CASE s # r
    BY <1>7, <1>8, UntouchedStaysCalm
  <1>9. CASE s = r
    <2>1. n \in Overriding(s) /\ Unheard(s)
      BY <1>1, <1>2, <1>9 DEF Overriding, Unheard
    <2>2. /\ legacy[s] # <<>> /\ ~ Newest(s).cmsTag /\ n.items = FromNewest(s)
      BY <2>1 DEF Calm, LastUnheard
    <2>3. /\ d.fromLegacy /\ d \in FromNewest(s) /\ d.data = Newest(s).data
          /\ d.state = "published" <=> Newest(s).isVisible
          /\ ~ Newest(s).deleted
          /\ \A e \in FromNewest(s) :
               /\ e.fromLegacy
               /\ e.state \in PublicationState => e = d
      BY <1>4, <2>2, NewestItems
    <2>4. \A e \in Way(s) : e \in FromNewest(s)
      BY <2>1 DEF Calm, Current
    <2>5. InQueue("requestSyncLegacy", s) = {} /\ Releasing(s) = {} /\ ~ Telling(s)
      <3>1. InQueue("requestSyncLegacy", s) = {}
        BY <2>3, <2>4 DEF Calm, Current
      <3>2. Releasing(s) = {}
        BY <2>1 DEF Calm, Decided
      <3>3. QED
        BY <2>3, <2>4, <3>1, <3>2 DEF Telling
    <2>6. Releasing(s)' = Releasing(s)
      BY <1>5 DEF Releasing, InQueue
    <2>7. /\ Newest(s)' = Newest(s) /\ FromNewest(s)' = FromNewest(s)
          /\ Deleted(s)' <=> Deleted(s)
      BY <1>7, <1>9, LegacySame DEF Deleted, Is
    <2>8. ~ Deleted(s)
      BY <2>3, <2>5 DEF Calm, Ended
    <2>9. Overriding(s)' \in SUBSET Overriding(s) /\ (Unheard(s)' => Unheard(s))
      BY <1>5, <1>7, <1>9 DEF Overriding, Unheard
    <2>10. LastUnheard(s)'
      BY <1>7, <1>9, <2>2, <2>7, <2>9 DEF Calm, LastUnheard
    <2>11. Current(s)'
      <3>1. \A e \in Way(s)' : e \in FromNewest(s) /\ (e = d \/ e \in Way(s))
        BY <1>7, <1>9, <2>3, <2>4
      <3>2. \A e \in Way(s)' :
              /\ e.fromLegacy
              /\ e.state \in LifecycleState => e = lifecycle'[s]
              /\ e.state \in PublicationState => Alike(e, publication'[s])
        BY <1>4, <1>7, <1>9, <2>3, <3>1, StatesApart DEF Calm, Current, Alike
      <3>3. publication'[s] # NoItem
        BY <1>4, <1>7, <1>9, MarkerAssumption
      <3>4. QED
        BY <1>7, <1>9, <2>5, <2>7, <2>8, <3>1, <3>2, <3>3 DEF Current
    <2>12. Decided(s)'
      <3>1. s \in feed'.lifecycle => lifecycle'[s].fromLegacy
        <4>1. ASSUME s \in feed.lifecycle
              PROVE  lifecycle[s].fromLegacy
          <5>1. lifecycle[s] \in Way(s)
            BY <4>1 DEF Way
          <5>2. QED
            BY <2>3, <2>4, <5>1
        <4>2. QED
          BY <1>7, <1>9, <4>1
      <3>2. QED
        BY <1>7, <1>9, <2>5, <2>6, <2>7, <3>1 DEF Calm, Decided
    <2>13. Ended(s)'
      BY <1>7, <1>9, <2>3, <2>7, <2>8 DEF Ended
    <2>14. Agrees(s)'
      BY <1>4, <1>7, <1>9, <2>3, <2>7, MarkerAssumption DEF Agrees, Is
    <2>15. QED
      BY <2>10, <2>11, <2>12, <2>13, <2>14 DEF Calm
  <1>10. QED
    BY <1>8, <1>9

LEMMA GiveUpCalm ==
  ASSUME Shape, NEW name \in QueueName, NEW m \in queue[name], GiveUp(name, m),
         NEW s \in ServiceId \ lost', Calm(s)
  PROVE  Calm(s)'
  <1> USE ShapeParts
  <1>1. /\ queue' = [queue EXCEPT ![name] = @ \ {m}]
        /\ lost' = lost \cup {m.id}
        /\ UNCHANGED <<lifecycle, publication, history, legacy, feed, overriding>>
    BY DEF GiveUp, cms
  <1>2. m.id # s
    BY <1>1
  <1>3. \A n \in QueueName : \A w : w # m => (w \in queue'[n] <=> w \in queue[n])
    BY <1>1
  <1>4. \A e \in Document : Item(s, e) # m
    BY <1>2, ItemTyped
  <1>5. \A w : w # m => (w \in FromLegacy' <=> w \in FromLegacy)
    BY <1>1, <1>3 DEF FromLegacy, QueueName
  <1>6. Overriding(s)' = Overriding(s)
    BY <1>2, <1>5 DEF Overriding
  <1>7. Untouched(s)
    BY <1>1, <1>3, <1>4, <1>6 DEF Untouched
  <1>8. QED
    BY <1>7, UntouchedStaysCalm

LEMMA FailOverrideCalm ==
  ASSUME Shape, NEW m \in overriding, FailOverride(m),
         NEW s \in ServiceId, Calm(s)
  PROVE  Calm(s)'
  <1> USE ShapeParts
  <1>1. /\ queue' = [queue EXCEPT !.requestSyncCms = @ \cup {m}]
        /\ overriding' = overriding \ {m}
        /\ UNCHANGED <<lifecycle, publication, history, legacy, feed>>
    BY DEF FailOverride, cms
  <1>2. /\ \A name \in QueueName \ {"requestSyncCms"} : queue'[name] = queue[name]
        /\ queue'.requestSyncCms = queue.requestSyncCms \cup {m}
    BY <1>1 DEF QueueName
  <1>3. Overriding(s)' = Overriding(s)
    BY <1>1, <1>2 DEF Overriding, FromLegacy
  <1>4. Untouched(s)
    BY <1>1, <1>2, <1>3 DEF Untouched
  <1>5. QED
    BY <1>4, UntouchedStaysCalm

LEMMA CalmStep ==
  ASSUME Shape, Kept, OneKey, DeletedAreHidden, [Next]_vars, ~ hasty',
         NEW s \in ServiceId \ lost', ~ Together(s), Calm(s)
  PROVE  Calm(s)'
  <1>1. CASE People
    BY <1>1, ChangeLifecycleCalm, ChangePublicationCalm, ChangeLegacyCalm DEF People
  <1>2. CASE Watcher
    BY <1>2, WatchLifecycleCalm, WatchPublicationCalm, WatchHistoryCalm, WatchLegacyCalm
    DEF Watcher
  <1>3. CASE Handler
    BY <1>3, ReleaseCalm, DeleteCalm, HistoricizeCalm, SyncLegacyCalm,
       OverrideLifecycleCalm, OverridePublicationCalm DEF Handler
  <1>4. CASE Failure
    <2>1. DOMAIN queue = QueueName
      BY ShapeParts
    <2>2. QED
      BY <1>4, <2>1, GiveUpCalm, FailOverrideCalm DEF Failure
  <1>5. CASE UNCHANGED vars
    <2>1. Untouched(s)
      BY <1>5 DEF vars, cms, Untouched, Overriding, FromLegacy
    <2>2. QED
      BY <2>1, UntouchedStaysCalm
  <1>6. QED
    BY <1>1, <1>2, <1>3, <1>4, <1>5 DEF Next

LEMMA OneKeyStep ==
  ASSUME Shape, OneKey, [Next]_vars
  PROVE  OneKey'
  <1>1. CASE \E s \in ServiceId : \E d : Writes(s, d)
    BY <1>1 DEF Writes, OneKey
  <1>2. CASE \E s \in ServiceId : \E v : Appends(s, v)
    BY <1>2 DEF Appends, OneKey
  <1>3. CASE \E m \in queue.requestDeletion : Delete(m)
    BY <1>3 DEF Delete, OneKey
  <1>4. CASE \E s \in ServiceId : WatchLifecycle(s)
    BY <1>4 DEF WatchLifecycle, OneKey
  <1>5. CASE \E s \in ServiceId : WatchPublication(s)
    BY <1>5 DEF WatchPublication, OneKey
  <1>6. CASE \E key \in feed.history : WatchHistory(key)
    BY <1>6 DEF WatchHistory, OneKey
  <1>7. CASE \E key \in feed.legacy : WatchLegacy(key[1], key[2])
    BY <1>7 DEF WatchLegacy, OneKey
  <1>8. CASE \E m \in queue.requestHistoricization : Historicize(m)
    <2>1. PICK m \in queue.requestHistoricization : Historicize(m)
      BY <1>8
    <2>2. history' = {h \in history : h.id = m.id =>
                        h.document.modified_at # m.document.modified_at} \cup {m}
      BY <2>1 DEF Historicize
    <2>3. QED
      BY <2>2 DEF OneKey
  <1>9. CASE \E name \in QueueName : \E m \in queue[name] : GiveUp(name, m)
    BY <1>9 DEF GiveUp, OneKey
  <1>10. CASE \E m \in overriding : FailOverride(m)
    BY <1>10 DEF FailOverride, OneKey
  <1>11. CASE UNCHANGED vars
    BY <1>11 DEF vars, OneKey
  <1>12. QED
    BY <1>1, <1>2, <1>3, <1>4, <1>5, <1>6, <1>7, <1>8, <1>9, <1>10, <1>11, Steps

LEMMA DeletedStayHidden ==
  ASSUME Shape, Shape', Effects, DeletedAreHidden
  PROVE  DeletedAreHidden'
  <1>1. CASE legacy' = legacy
    BY <1>1 DEF DeletedAreHidden
  <1>2. ASSUME NEW r \in ServiceId, NEW v, Appends(r, v)
        PROVE  DeletedAreHidden'
    <2>1. v \in Version /\ (v.deleted => ~ v.isVisible)
      BY <1>2 DEF Appends
    <2>2. \A s \in ServiceId :
            legacy'[s] = IF s = r THEN Append(legacy[s], v) ELSE legacy[s]
      BY <1>2, ShapeParts DEF Appends
    <2>3. ASSUME NEW s \in ServiceId, NEW i \in DOMAIN legacy'[s]
          PROVE  legacy'[s][i].deleted => ~ legacy'[s][i].isVisible
      <3>1. legacy[s] \in Seq(Version)
        BY ShapeParts
      <3>2. CASE i \in DOMAIN legacy[s]
        BY <3>2, VersionsStay DEF DeletedAreHidden
      <3>3. CASE i \notin DOMAIN legacy[s]
        <4>1. s = r /\ legacy'[s] = Append(legacy[s], v)
          BY <2>2, <2>3, <3>3
        <4>2. legacy'[s][i] = v
          BY <2>1, <2>3, <3>1, <3>3, <4>1, AppendProperties, LenProperties
        <4>3. QED
          BY <2>1, <4>2
      <3>4. QED
        BY <3>2, <3>3
    <2>4. QED
      BY <2>3 DEF DeletedAreHidden
  <1>3. QED
    BY <1>1, <1>2 DEF Effects

LEMMA MirrorStep ==
  ASSUME MirrorInv, [Next]_vars
  PROVE  MirrorInv'
  <1>1. Shape /\ Kept
    BY DEF MirrorInv, HistoryInv
  <1>2. HistoryInv' /\ Shape' /\ Effects
    BY <1>1, HistoryStep, StepEffects DEF MirrorInv, HistoryInv
  <1>3. OneKey' /\ DeletedAreHidden'
    BY <1>1, <1>2, OneKeyStep, DeletedStayHidden DEF MirrorInv
  <1>4. (hasty => hasty') /\ lost \in SUBSET lost'
    <2>1. CASE People
      <3>1. ASSUME NEW s \in ServiceId, ChangeLifecycle(s)
            PROVE  Change /\ lost' = lost
        BY <3>1 DEF ChangeLifecycle
      <3>2. ASSUME NEW s \in ServiceId, ChangePublication(s)
            PROVE  Change /\ lost' = lost
        BY <3>2 DEF ChangePublication
      <3>3. ASSUME NEW s \in ServiceId, ChangeLegacy(s)
            PROVE  Change /\ lost' = lost
        BY <3>3 DEF ChangeLegacy
      <3>4. Change /\ lost' = lost
        BY <2>1, <3>1, <3>2, <3>3 DEF People
      <3>5. QED
        BY <3>4 DEF Change
    <2>2. CASE Watcher
      <3>1. ASSUME NEW s \in ServiceId, WatchLifecycle(s) \/ WatchPublication(s)
            PROVE  hasty' = hasty /\ lost' = lost
        BY <3>1 DEF WatchLifecycle, WatchPublication, people
      <3>2. ASSUME NEW key \in feed.history, WatchHistory(key)
            PROVE  hasty' = hasty /\ lost' = lost
        BY <3>2 DEF WatchHistory, people
      <3>3. ASSUME NEW key \in feed.legacy, WatchLegacy(key[1], key[2])
            PROVE  hasty' = hasty /\ lost' = lost
        BY <3>3 DEF WatchLegacy, people
      <3>4. QED
        BY <2>2, <3>1, <3>2, <3>3 DEF Watcher
    <2>3. CASE Handler
      <3>1. \A m : Release(m) \/ Delete(m) => hasty' = hasty /\ lost' = lost
        BY DEF Release, Delete, people
      <3>2. \A m : Historicize(m) \/ SyncLegacy(m) => hasty' = hasty /\ lost' = lost
        BY DEF Historicize, SyncLegacy, people
      <3>3. \A m : OverrideLifecycle(m) => hasty' = hasty /\ lost' = lost
        BY DEF OverrideLifecycle, people
      <3>4. \A m : OverridePublication(m) => hasty' = hasty /\ lost' = lost
        BY DEF OverridePublication, people
      <3>5. QED
        BY <2>3, <3>1, <3>2, <3>3, <3>4 DEF Handler
    <2>4. CASE Failure
      BY <2>4 DEF Failure, GiveUp, FailOverride, people
    <2>5. CASE UNCHANGED vars
      BY <2>5 DEF vars, people
    <2>6. QED
      BY <2>1, <2>2, <2>3, <2>4, <2>5 DEF Next
  <1>5. ASSUME ~ hasty', NEW s \in ServiceId \ lost', ~ Together(s)'
        PROVE  Calm(s)'
    <2>1. ~ Together(s)
      BY <1>2, <1>5 DEF Together, Effects
    <2>2. Calm(s)
      BY <1>4, <1>5, <2>1 DEF MirrorInv
    <2>3. QED
      BY <1>1, <1>5, <2>1, <2>2, CalmStep DEF MirrorInv
  <1>6. QED
    BY <1>2, <1>3, <1>5 DEF MirrorInv

LEMMA MirrorInit ==
  ASSUME Init
  PROVE  MirrorInv
  <1>1. HistoryInv /\ Shape
    BY HistoryInit, ShapeInit
  <1>2. PICK documents, versions :
          /\ InitWith(documents, versions)
          /\ \/ documents = {} /\ versions = <<>>
             \/ \E autoPublish \in BOOLEAN :
                  /\ documents = {Past("submitted", autoPublish)}
                  /\ versions = <<PastVersion(FALSE)>>
             \/ /\ documents = {Past("approved", TRUE), Past("published", FALSE)}
                /\ versions = <<PastVersion(TRUE)>>
    BY DEF Init
  <1>3. /\ history = [id : ServiceId, document : documents]
        /\ \A s \in ServiceId :
             /\ legacy[s] = versions
             /\ lifecycle[s] = IF documents = {} THEN NoItem
                               ELSE CHOOSE d \in documents : d.state \in LifecycleState
             /\ publication[s] = IF \E d \in documents : d.state = "published"
                                 THEN CHOOSE d \in documents : d.state = "published"
                                 ELSE NoItem
    BY <1>2 DEF InitWith
  <1>4. \A d, e \in documents : d.modified_at = e.modified_at => d = e
    <2>1. /\ Past("approved", TRUE).modified_at = 0
          /\ Past("published", FALSE).modified_at = 1
      BY DEF Past
    <2>2. CASE documents = {Past("approved", TRUE), Past("published", FALSE)}
      <3>1. PICK a, b : a = Past("approved", TRUE) /\ b = Past("published", FALSE)
        OBVIOUS
      <3>2. documents = {a, b}
        BY <2>2, <3>1
      <3>3. a.modified_at = 0 /\ b.modified_at = 1
        BY <2>1, <3>1
      <3>4. a.modified_at # b.modified_at
        BY <3>3, 0 # 1
      <3>5. QED
        BY <3>2, <3>4
    <2>3. CASE documents # {Past("approved", TRUE), Past("published", FALSE)}
      BY <1>2, <2>3
    <2>4. QED
      BY <2>2, <2>3
  <1>5. OneKey
    <2>1. \A h \in history : h = Item(h.id, h.document) /\ h.document \in documents
      BY <1>3 DEF Item
    <2>2. QED
      BY <1>4, <2>1 DEF OneKey
  <1>6. \A i \in DOMAIN versions : i = 1 /\ ~ versions[i].deleted
    <2>1. CASE versions = <<>>
      BY <2>1
    <2>2. ASSUME NEW b, versions = <<PastVersion(b)>>
          PROVE  \A i \in DOMAIN versions : i = 1 /\ ~ versions[i].deleted
      <3>1. \A i \in DOMAIN versions : i = 1 /\ versions[i] = PastVersion(b)
        BY <2>2, \A v : \A j \in DOMAIN <<v>> : j = 1 /\ <<v>>[j] = v
      <3>2. QED
        BY <3>1 DEF PastVersion
    <2>3. QED
      BY <1>2, <2>1, <2>2
  <1>7. DeletedAreHidden
    BY <1>3, <1>6 DEF DeletedAreHidden
  <1>8. Settled
    BY DEF Init, Settled
  <1>9. ASSUME NEW s \in ServiceId
        PROVE  Calm(s)
    <2>1. /\ Way(s) = {} /\ \A name \in QueueName : InQueue(name, s) = {}
          /\ Fed(s) = {} /\ Overriding(s) = {}
          /\ s \notin feed.lifecycle /\ s \notin feed.publication
          /\ ~ Unheard(s) /\ ~ Telling(s)
      BY <1>1, <1>8, SettledViews
    <2>2. /\ InQueue("requestSyncLegacy", s) = {} /\ Releasing(s) = {}
          /\ InQueue("requestDeletion", s) = {}
      BY <2>1 DEF Releasing, QueueName
    <2>3. LastUnheard(s) /\ Current(s) /\ Decided(s)
      BY <2>1, <2>2 DEF LastUnheard, Current, Decided
    <2>4. ~ Deleted(s)
      <3> DEFINE Decision == {"submitted", "approved", "published"}
      <3>1. /\ \A d \in documents : d.state \in Decision
            /\ documents # {} => \E d \in documents : d.state \in LifecycleState
        <4>1. \A b, state : Past(state, b).state = state
          BY DEF Past
        <4>2. "submitted" \in LifecycleState /\ "approved" \in LifecycleState
          BY DEF LifecycleState
        <4>3. CASE documents = {}
          BY <4>3
        <4>4. ASSUME NEW b, documents = {Past("submitted", b)}
              PROVE  <3>1!1 /\ <3>1!2
          BY <4>1, <4>2, <4>4
        <4>5. CASE documents = {Past("approved", TRUE), Past("published", FALSE)}
          BY <4>1, <4>2, <4>5
        <4>6. QED
          BY <1>2, <4>3, <4>4, <4>5
      <3>2. lifecycle[s] = NoItem \/ lifecycle[s] \in documents
        <4>1. documents # {} => \E d \in documents : d.state \in LifecycleState
          BY <3>1
        <4>2. QED
          BY <1>3, <4>1
      <3>3. QED
        BY <3>1, <3>2 DEF Deleted, Is
    <2>5. legacy[s] # <<>> => ~ Newest(s).deleted /\ ~ WasVisible(s)
      <3>1. legacy[s] # <<>> => (Len(legacy[s]) = 1) /\ ~ Newest(s).deleted
        <4>1. legacy[s] = versions
          BY <1>3
        <4>2. legacy[s] # <<>> => Len(legacy[s]) \in DOMAIN versions
          BY <1>1, <4>1, NewestTyped
        <4>3. QED
          BY <1>6, <4>1, <4>2 DEF Newest
      <3>2. legacy[s] # <<>> => ~ (Len(legacy[s]) > 1)
        <4>1. ASSUME NEW n, n = 1
              PROVE  ~ (n > 1)
          BY <4>1
        <4>2. QED
          BY <3>1, <4>1
      <3>3. QED
        BY <3>1, <3>2 DEF WasVisible, wasPublished
    <2>6. Ended(s)
      BY <2>4, <2>5 DEF Ended
    <2>7. legacy[s] # <<>> /\ Newest(s).isVisible =>
            Is(publication[s], "published") /\ publication[s].data = Newest(s).data
      <3>1. ASSUME legacy[s] # <<>>, Newest(s).isVisible
            PROVE  Is(publication[s], "published") /\ publication[s].data = Newest(s).data
        <4>1. PICK b \in BOOLEAN : versions = <<PastVersion(b)>>
          BY <1>2, <1>3, <3>1
        <4>2. Newest(s) = PastVersion(b)
          <5>1. Len(<<PastVersion(b)>>) = 1 /\ <<PastVersion(b)>>[1] = PastVersion(b)
            OBVIOUS
          <5>2. QED
            BY <1>3, <4>1, <5>1 DEF Newest
        <4>3. b = TRUE /\ Newest(s).data = 0
          BY <3>1, <4>2 DEF PastVersion
        <4>4. versions # <<PastVersion(FALSE)>>
          <5>1. <<PastVersion(FALSE)>>[1].isVisible = FALSE
            BY DEF PastVersion
          <5>2. versions[1].isVisible = TRUE
            BY <4>1, <4>3 DEF PastVersion
          <5>3. QED
            BY <5>1, <5>2
        <4>5. documents = {Past("approved", TRUE), Past("published", FALSE)}
          BY <1>2, <1>3, <3>1, <4>4
        <4>6. /\ Past("published", FALSE).state = "published"
              /\ Past("published", FALSE).data = 0
              /\ Past("approved", TRUE).state = "approved"
          BY DEF Past
        <4>7. publication[s] = Past("published", FALSE)
          BY <1>3, <4>5, <4>6
        <4>8. publication[s] # NoItem
          <5>1. Past("published", FALSE) \in Document
            BY BoundAssumption DEF Past, Document, Data, PublicationState
          <5>2. QED
            BY <4>7, <5>1, MarkerAssumption
        <4>9. QED
          BY <4>3, <4>6, <4>7, <4>8 DEF Is
      <3>2. QED
        BY <3>1
    <2>8. Agrees(s)
      BY <2>5, <2>7 DEF Agrees
    <2>9. QED
      BY <2>3, <2>6, <2>8 DEF Calm
  <1>10. QED
    BY <1>1, <1>5, <1>7, <1>9 DEF MirrorInv

THEOREM MirrorInvCorrect == Spec => []MirrorInv
  BY MirrorInit, MirrorStep, PTL DEF Spec

LEMMA MirrorSettled ==
  ASSUME MirrorInv
  PROVE  SettledAgrees
  <1>1. Shape
    BY DEF MirrorInv, HistoryInv
  <1>2. ASSUME Settled, ~ hasty, NEW s \in ServiceId \ lost,
               legacy[s] # <<>>, ~ Together(s)
        PROVE  /\ Newest(s).isVisible => /\ Is(publication[s], "published")
                                         /\ publication[s].data = Newest(s).data
               /\ Newest(s).deleted => publication[s] = NoItem
               /\ WasVisible(s) /\ ~ Newest(s).isVisible /\ ~ Newest(s).cmsTag =>
                    ~ Is(publication[s], "published")
    <2>1. Calm(s)
      BY <1>2 DEF MirrorInv
    <2>2. /\ InQueue("requestDeletion", s) = {}
          /\ s \notin feed.lifecycle /\ ~ Unheard(s) /\ ~ Telling(s)
      BY <1>1, <1>2, SettledViews DEF QueueName
    <2>3. Newest(s).deleted => publication[s] = NoItem
      BY <1>2, <2>1, <2>2 DEF Calm, Ended, Deleting
    <2>4. QED
      BY <1>2, <2>1, <2>2, <2>3 DEF Calm, Agrees, Is
  <1>3. \A s \in ServiceId : legacy[s] # <<>> => Newest(s) = Last(legacy[s])
    BY <1>1, NewestTyped
  <1>4. QED
    BY <1>2, <1>3 DEF SettledAgrees, WasVisible

\* When everything has settled and nobody was hasty, citizens see the same in
\* both systems.
THEOREM SettledCorrect == Spec => []SettledAgrees
  BY MirrorInvCorrect, MirrorSettled, PTL
===============================================================================
