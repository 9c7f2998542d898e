--------------------------- MODULE GroupSync_proofs ---------------------------
(***************************************************************************)
(* Proofs about GroupSync, for any sets of groups, names and services, and *)
(* any number of events, edits and faults.                                 *)
(***************************************************************************)
EXTENDS GroupSync, TLAPS

-----------------------------------------------------------------------------
(* Type correctness                                                         *)

\* What a step of anybody does to self-care: nothing, or one change of one group
\* and its event at the end of the topic.
Changed(g, e) ==
  /\ group'[g] \in SelfcareGroup
  /\ group' = [group EXCEPT ![g] = group'[g]]
  /\ topic' = Append(topic, e)
  /\ e = [id |-> g, name |-> group'[g].name, status |-> group'[g].status,
          kind |-> group'[g].kind, created |-> (group[g] = NoItem)]
  /\ IF group[g] = NoItem THEN group'[g].status = "ACTIVE"
     ELSE group[g].status # "DELETED" /\ group'[g].kind = group[g].kind

LEMMA NewTyped ==
  ASSUME NEW kind \in Kind
  PROVE  New(kind) \in SelfcareGroup /\ New(kind).status = "ACTIVE"
  <1>1. (CHOOSE name \in Name : TRUE) \in Name
    BY GroupAssumption
  <1>2. QED
    BY <1>1 DEF New, SelfcareGroup, Status

LEMMA CreateChanges ==
  ASSUME TypeOK, NEW g \in Group, CreateGroup(g)
  PROVE  \E e \in GroupChangeEvent : Changed(g, e)
  <1>1. group \in [Group -> SelfcareGroup \cup {NoItem}] /\ group[g] = NoItem
    BY DEF TypeOK, CreateGroup
  <1>2. PICK kind \in Kind : group' = [group EXCEPT ![g] = New(kind)]
    BY DEF CreateGroup
  <1>3. group'[g] = New(kind) /\ group'[g] \in SelfcareGroup
        /\ group'[g].status = "ACTIVE"
    BY <1>1, <1>2, NewTyped
  <1> DEFINE e == [id |-> g, name |-> group'[g].name, status |-> group'[g].status,
                   kind |-> group'[g].kind, created |-> TRUE]
  <1>4. topic' = Append(topic, e)
    BY DEF CreateGroup, Announce
  <1>5. e \in GroupChangeEvent
    BY <1>3 DEF GroupChangeEvent, SelfcareGroup
  <1>6. Changed(g, e)
    BY <1>1, <1>2, <1>3, <1>4 DEF Changed
  <1>7. QED
    BY <1>5, <1>6

LEMMA ChangeChanges ==
  ASSUME TypeOK, NEW g \in Group, ChangeGroup(g)
  PROVE  \E e \in GroupChangeEvent : Changed(g, e)
  <1>1. /\ group \in [Group -> SelfcareGroup \cup {NoItem}]
        /\ group[g] # NoItem /\ group[g] \in SelfcareGroup
        /\ group[g].status # "DELETED"
    BY DEF TypeOK, ChangeGroup
  <1>2. \/ \E name \in Name : group' = [group EXCEPT ![g].name = name]
        \/ \E status \in Status : group' = [group EXCEPT ![g].status = status]
    BY DEF ChangeGroup
  <1>3. /\ group'[g] \in SelfcareGroup
        /\ group' = [group EXCEPT ![g] = group'[g]]
        /\ group'[g].kind = group[g].kind
    <2>1. ASSUME NEW name \in Name, group' = [group EXCEPT ![g].name = name]
          PROVE  <1>3!1 /\ <1>3!2 /\ <1>3!3
      <3>1. group' = [group EXCEPT ![g] = [group[g] EXCEPT !.name = name]]
        BY <2>1, <1>1
      <3>2. [group[g] EXCEPT !.name = name] \in SelfcareGroup
            /\ [group[g] EXCEPT !.name = name].kind = group[g].kind
        BY <1>1 DEF SelfcareGroup
      <3>3. QED
        BY <3>1, <3>2, <1>1
    <2>2. ASSUME NEW status \in Status, group' = [group EXCEPT ![g].status = status]
          PROVE  <1>3!1 /\ <1>3!2 /\ <1>3!3
      <3>1. group' = [group EXCEPT ![g] = [group[g] EXCEPT !.status = status]]
        BY <2>2, <1>1
      <3>2. [group[g] EXCEPT !.status = status] \in SelfcareGroup
            /\ [group[g] EXCEPT !.status = status].kind = group[g].kind
        BY <1>1 DEF SelfcareGroup
      <3>3. QED
        BY <3>1, <3>2, <1>1
    <2>3. QED
      BY <1>2, <2>1, <2>2
  <1> DEFINE e == [id |-> g, name |-> group'[g].name, status |-> group'[g].status,
                   kind |-> group'[g].kind, created |-> FALSE]
  <1>4. topic' = Append(topic, e)
    BY DEF ChangeGroup, Announce
  <1>5. e \in GroupChangeEvent
    BY <1>3 DEF GroupChangeEvent, SelfcareGroup
  <1>6. Changed(g, e)
    BY <1>1, <1>3, <1>4 DEF Changed
  <1>7. QED
    BY <1>5, <1>6

\* Everything but self-care.
Others ==
  \/ People \/ Administrators \/ Tasks \/ Failures \/ UNCHANGED vars

LEMMA OthersLeaveSelfcare ==
  ASSUME Others
  PROVE  group' = group /\ topic' = topic
  BY DEF Others, People, Administrators, Tasks, Failures, vars, selfcare,
         Bind, BeginTransition, EndTransition, GetGroup, UpsertKey, DeleteKey,
         HandleGroupChangeEvent, GetOrCreateUser, CreateGroupUsers,
         CreateSubscription, SyncSubscription, UpdateSubscription, UpdateNothing,
         FetchPage, PatchPage, PatchNothing, FailPatches, FailTask, PutAside, Restart

LEMMA SelfcareLeavesOthers ==
  ASSUME Selfcare
  PROVE  UNCHANGED <<watcher, keys, services, faults, behind, crossed>>
  BY DEF Selfcare, CreateGroup, ChangeGroup

LEMMA SelfcareChanges ==
  ASSUME TypeOK, Selfcare
  PROVE  \E g \in Group, e \in GroupChangeEvent : Changed(g, e)
  BY CreateChanges, ChangeChanges DEF Selfcare

LEMMA Appended ==
  ASSUME TypeOK, NEW g \in Group, NEW e \in GroupChangeEvent, Changed(g, e)
  PROVE  /\ topic' \in Seq(GroupChangeEvent)
         /\ Len(topic) \in Nat
         /\ Len(topic') = Len(topic) + 1
         /\ \A i \in 1..Len(topic) : topic'[i] = topic[i]
         /\ topic'[Len(topic')] = e
         /\ group' \in [Group -> SelfcareGroup \cup {NoItem}]
         /\ \A h \in Group \ {g} : group'[h] = group[h]
  <1>1. topic \in Seq(GroupChangeEvent) /\ topic' = Append(topic, e)
    BY DEF TypeOK, Changed
  <1>2. /\ group \in [Group -> SelfcareGroup \cup {NoItem}]
        /\ group'[g] \in SelfcareGroup
        /\ group' = [group EXCEPT ![g] = group'[g]]
    BY DEF TypeOK, Changed
  <1>3. group' \in [Group -> SelfcareGroup \cup {NoItem}]
        /\ \A h \in Group \ {g} : group'[h] = group[h]
    BY <1>2
  <1>4. QED
    BY <1>1, <1>3

\* The parts of TypeOK, by who changes them.
WatcherOK ==
  /\ checkpoint \in 1..next /\ next \in 1..(Len(topic) + 1)
  /\ step \in {"idle", "user", "groups", "subscribe", "sync", "update", "services",
               "patch"}
  /\ step # "idle" => next <= Len(topic)
  /\ todo \in SUBSET ServiceId /\ page \in SUBSET ServiceId
  /\ page # {} => step = "patch"

KeysOK ==
  /\ user \in {"none", "bare", "full"}
  /\ subscription \in [Group -> Subscription \cup {NoItem}]
  /\ asking \in [Group -> Name \cup {Idle}]
  /\ behind \in SUBSET Group

ServicesOK ==
  /\ binding \in [ServiceId -> Group \cup {NoGroup}]
  /\ choice \in [ServiceId -> Group \cup {NoGroup}]
  /\ transition \in [ServiceId -> Group \cup {NoGroup, Idle}]
  /\ crossed \in SUBSET ServiceId /\ rebound \in SUBSET ServiceId

LEMMA TypeParts ==
  TypeOK <=> /\ group \in [Group -> SelfcareGroup \cup {NoItem}]
             /\ topic \in Seq(GroupChangeEvent)
             /\ WatcherOK /\ KeysOK /\ ServicesOK
             /\ edits \in 0..MaxEdit /\ faults \in 0..MaxFault
  BY DEF TypeOK, WatcherOK, KeysOK, ServicesOK

LEMMA KeyOfTyped ==
  ASSUME NEW name \in Name, NEW status \in Status
  PROVE  KeyOf(name, status) \in Subscription
         /\ KeyOf(name, status).name = name
         /\ KeyOf(name, status).state = mapStateFromGroupToSubscription(status)
         /\ (KeyOf(name, status).state = "cancelled" <=> status = "DELETED")
  BY DEF KeyOf, Subscription, mapStateFromGroupToSubscription, Status

\* The event at hand.
LEMMA EventTyped ==
  ASSUME TypeOK, step # "idle" \/ next <= Len(topic)
  PROVE  /\ next \in 1..Len(topic) /\ Len(topic) \in Nat
         /\ Event \in GroupChangeEvent
         /\ Event.id \in Group /\ Event.name \in Name /\ Event.status \in Status
         /\ Event.kind \in Kind /\ Event.created \in BOOLEAN
  <1>1. topic \in Seq(GroupChangeEvent) /\ next \in 1..Len(topic)
    BY DEF TypeOK
  <1>2. topic[next] \in GroupChangeEvent /\ Len(topic) \in Nat
    BY <1>1
  <1>3. QED
    BY <1>1, <1>2 DEF GroupChangeEvent, Event

LEMMA DoneTyped ==
  ASSUME TypeOK, next <= Len(topic), page = {}, NEW key, Done(key), topic' = topic
  PROVE  WatcherOK' /\ (behind' \in SUBSET Group)
         /\ next' = next + 1 /\ step' = "idle" /\ todo' = todo /\ page' = page
  <1>1. Len(topic) \in Nat /\ next \in 1..Len(topic) /\ checkpoint \in 1..next
        /\ todo \in SUBSET ServiceId /\ behind \in SUBSET Group
    BY EventTyped DEF TypeOK
  <1>2. /\ next' = next + 1 /\ step' = "idle" /\ checkpoint' \in {checkpoint, next'}
        /\ todo' = todo /\ page' = page
        /\ behind' \in SUBSET behind
    BY DEF Done
  <1>3. QED
    BY <1>1, <1>2 DEF WatcherOK

LEMMA GoOnTyped ==
  ASSUME TypeOK, step \in {"sync", "update"}, NEW key, GoOn(key), topic' = topic
  PROVE  WatcherOK' /\ (behind' \in SUBSET Group)
  <1>1. Len(topic) \in Nat /\ next \in 1..Len(topic) /\ page = {}
        /\ step # "idle" /\ behind \in SUBSET Group
    BY EventTyped DEF TypeOK
  <1>2. CASE Done(key)
    BY <1>1, <1>2, DoneTyped
  <1>3. CASE /\ step' = "services" /\ todo' = ServiceId
             /\ UNCHANGED <<next, checkpoint, page, behind>>
    BY <1>1, <1>3 DEF WatcherOK, TypeOK
  <1>4. QED
    BY <1>2, <1>3 DEF GoOn

LEMMA RetryTyped ==
  ASSUME TypeOK, Retry, topic' = topic
  PROVE  WatcherOK'
  BY DEF TypeOK, Retry, WatcherOK

LEMMA WatcherTyped ==
  ASSUME TypeOK, [Next]_vars
  PROVE  WatcherOK'
  <1>1. CASE Selfcare
    <2>1. PICK g \in Group, e \in GroupChangeEvent : Changed(g, e)
      BY <1>1, SelfcareChanges
    <2>2. Len(topic) \in Nat /\ Len(topic') = Len(topic) + 1
      BY <2>1, Appended
    <2>3. UNCHANGED <<next, checkpoint, step, todo, page>>
      BY <1>1, SelfcareLeavesOthers DEF watcher
    <2>4. WatcherOK /\ next \in Nat
      BY TypeParts, <2>2 DEF TypeOK
    <2>5. QED
      BY <2>2, <2>3, <2>4 DEF WatcherOK
  <1>2. ASSUME Others
        PROVE  WatcherOK'
    <2>1. topic' = topic /\ WatcherOK /\ Len(topic) \in Nat
          /\ next \in Nat /\ checkpoint \in Nat
      BY <1>2, OthersLeaveSelfcare, TypeParts DEF TypeOK
    <2>2. CASE People \/ Administrators \/ UNCHANGED vars
      <3>1. UNCHANGED <<next, checkpoint, step, todo, page>>
        BY <2>2 DEF People, Administrators, vars, watcher, Bind, BeginTransition,
           EndTransition, GetGroup, UpsertKey, DeleteKey
      <3>2. QED
        BY <2>1, <3>1 DEF WatcherOK
    <2>3. CASE HandleGroupChangeEvent
      <3>1. next <= Len(topic) /\ page = {} /\ step = "idle"
        BY <2>3 DEF HandleGroupChangeEvent, TypeOK
      <3>2. CASE Done(NoItem)
        BY <2>1, <3>1, <3>2, DoneTyped
      <3>3. CASE step' \in {"user", "sync"} /\ UNCHANGED <<next, checkpoint, todo, page>>
        BY <2>1, <3>1, <3>3 DEF WatcherOK
      <3>4. QED
        BY <2>3, <3>2, <3>3 DEF HandleGroupChangeEvent
    <2>4. CASE GetOrCreateUser \/ CreateGroupUsers \/ CreateSubscription
      <3>1. /\ UNCHANGED <<next, checkpoint, todo, page>>
            /\ step \notin {"idle", "patch"}
            /\ step' \in {"groups", "subscribe", "sync"}
        BY <2>4 DEF GetOrCreateUser, CreateGroupUsers, CreateSubscription, Step
      <3>2. QED
        BY <2>1, <3>1 DEF WatcherOK
    <2>5. CASE SyncSubscription
      <3>1. step = "sync"
        BY <2>5 DEF SyncSubscription
      <3>2. CASE GoOn(subscription[Event.id])
        BY <2>1, <3>1, <3>2, GoOnTyped
      <3>3. CASE step' = "update" /\ UNCHANGED <<next, checkpoint, todo, page>>
        BY <2>1, <3>1, <3>3 DEF WatcherOK
      <3>4. QED
        BY <2>5, <3>2, <3>3 DEF SyncSubscription
    <2>6. CASE UpdateSubscription
      BY <2>1, <2>6, GoOnTyped DEF UpdateSubscription
    <2>7. CASE UpdateNothing \/ PatchNothing \/ FailPatches \/ FailTask
      <3>1. Retry
        BY <2>7 DEF UpdateNothing, PatchNothing, FailPatches, FailTask
      <3>2. QED
        BY <2>1, <3>1, RetryTyped
    <2>8. CASE FetchPage
      <3>1. step = "services" /\ next <= Len(topic) /\ page = {}
        BY <2>8 DEF FetchPage, TypeOK
      <3>2. CASE todo = {}
        BY <2>1, <2>8, <3>1, <3>2, DoneTyped DEF FetchPage
      <3>3. CASE todo # {}
        <4>1. PICK ids \in SUBSET todo : /\ todo' = todo \ ids
                       /\ page' = {s \in ids : binding[s] = Event.id}
                       /\ step' = "patch"
                       /\ UNCHANGED <<next, checkpoint, behind>>
          BY <2>8, <3>3 DEF FetchPage
        <4>2. QED
          BY <2>1, <3>1, <4>1 DEF WatcherOK
      <3>4. QED
        BY <3>2, <3>3
    <2>9. CASE PatchPage
      BY <2>1, <2>9 DEF PatchPage, Step, WatcherOK
    <2>10. CASE PutAside \/ Restart
      BY <2>1, <2>10 DEF PutAside, Restart, WatcherOK
    <2>11. QED
      BY <1>2, <2>2, <2>3, <2>4, <2>5, <2>6, <2>7, <2>8, <2>9, <2>10
         DEF Others, Tasks, Failures
  <1>3. QED
    BY <1>1, <1>2 DEF Next, Others

\* Who writes keys, and what they write.
LEMMA KeysTyped ==
  ASSUME TypeOK, [Next]_vars
  PROVE  KeysOK'
  <1> USE TypeParts
  <1>0. /\ user \in {"none", "bare", "full"}
        /\ subscription \in [Group -> Subscription \cup {NoItem}]
        /\ asking \in [Group -> Name \cup {Idle}]
        /\ behind \in SUBSET Group
    BY DEF TypeOK
  <1>1. CASE Selfcare \/ People \/ UNCHANGED vars
    <2>1. UNCHANGED <<keys, behind>>
      BY <1>1, SelfcareLeavesOthers DEF People, vars, Bind, BeginTransition, EndTransition
    <2>2. QED
      BY <1>0, <2>1 DEF KeysOK, keys
  <1>2. ASSUME NEW g \in Group, GetGroup(g)
        PROVE  KeysOK'
    <2>1. group[g] \in SelfcareGroup
      BY <1>2 DEF GetGroup, Ordinary, TypeOK
    <2>2. group[g].name \in Name
      BY <2>1 DEF SelfcareGroup
    <2>3. asking' = [asking EXCEPT ![g] = group[g].name]
          /\ UNCHANGED <<user, subscription, behind>>
      BY <1>2 DEF GetGroup
    <2>4. QED
      BY <1>0, <2>2, <2>3 DEF KeysOK
  <1>3. ASSUME NEW g \in Group, UpsertKey(g)
        PROVE  KeysOK'
    <2>1. asking[g] \in Name
      BY <1>0, <1>3 DEF UpsertKey
    <2>2. KeyOf(asking[g], "ACTIVE") \in Subscription
      BY <2>1, KeyOfTyped DEF Status
    <2>3. /\ subscription' = [subscription EXCEPT ![g] = KeyOf(asking[g], "ACTIVE")]
          /\ asking' = [asking EXCEPT ![g] = Idle]
          /\ user' = user /\ behind' \in {behind, behind \cup {g}}
      BY <1>3 DEF UpsertKey
    <2>4. QED
      BY <1>0, <2>2, <2>3 DEF KeysOK
  <1>4. ASSUME NEW g \in Group, DeleteKey(g)
        PROVE  KeysOK'
    <2>1. /\ subscription' = [subscription EXCEPT ![g] = NoItem]
          /\ UNCHANGED <<user, asking, behind>>
      BY <1>4 DEF DeleteKey
    <2>2. QED
      BY <1>0, <2>1 DEF KeysOK
  <1>5. CASE HandleGroupChangeEvent \/ SyncSubscription \/ FetchPage
    <2>1. UNCHANGED keys
      BY <1>5 DEF HandleGroupChangeEvent, SyncSubscription, FetchPage
    <2>2. behind' \in SUBSET behind
      BY <1>5 DEF HandleGroupChangeEvent, SyncSubscription, FetchPage, GoOn, Done
    <2>3. QED
      BY <1>0, <2>1, <2>2 DEF KeysOK, keys
  <1>6. CASE GetOrCreateUser \/ CreateGroupUsers
    <2>1. UNCHANGED <<subscription, asking, behind>> /\ user' \in {user, "bare", "full"}
      BY <1>6 DEF GetOrCreateUser, CreateGroupUsers
    <2>2. QED
      BY <1>0, <2>1 DEF KeysOK
  <1>7. CASE CreateSubscription \/ UpdateSubscription
    <2>1. step # "idle" /\ user' = user /\ asking' = asking
      BY <1>7 DEF CreateSubscription, UpdateSubscription, Step
    <2>2. behind' \in SUBSET behind
      BY <1>7 DEF CreateSubscription, UpdateSubscription, GoOn, Done
    <2>3. \E status \in Status :
            subscription' = [subscription EXCEPT ![Event.id] = KeyOf(Event.name, status)]
      BY <1>7, <2>1, EventTyped DEF CreateSubscription, UpdateSubscription, Status
    <2>4. QED
      BY <1>0, <2>1, <2>2, <2>3, EventTyped, KeyOfTyped DEF KeysOK
  <1>8. CASE UpdateNothing \/ PatchPage \/ PatchNothing \/ FailPatches \/ FailTask
             \/ PutAside \/ Restart
    <2>1. UNCHANGED keys /\ behind' \in {behind, behind \cup {Event.id}}
          /\ (behind' # behind => step # "idle")
      BY <1>8 DEF UpdateNothing, PatchPage, PatchNothing, FailPatches, FailTask,
         PutAside, Restart
    <2>2. QED
      BY <1>0, <2>1, EventTyped DEF KeysOK, keys
  <1>9. QED
    BY <1>1, <1>2, <1>3, <1>4, <1>5, <1>6, <1>7, <1>8
       DEF Next, Administrators, Tasks, Failures

LEMMA UnbindTyped ==
  ASSUME TypeOK, NEW ids, Unbind(ids)
  PROVE  binding' \in [ServiceId -> Group \cup {NoGroup}]
  BY DEF TypeOK, Unbind

\* What a step does to a service: it is bound or unbound, or a transition begins.
LEMMA ServicesTyped ==
  ASSUME TypeOK, [Next]_vars
  PROVE  ServicesOK'
  <1>0. /\ binding \in [ServiceId -> Group \cup {NoGroup}]
        /\ choice \in [ServiceId -> Group \cup {NoGroup}]
        /\ transition \in [ServiceId -> Group \cup {NoGroup, Idle}]
        /\ crossed \in SUBSET ServiceId /\ rebound \in SUBSET ServiceId
        /\ page \in SUBSET ServiceId
    BY DEF TypeOK
  <1>1. CASE Selfcare \/ Administrators \/ UNCHANGED vars
    <2>1. UNCHANGED <<binding, choice, transition, crossed, rebound>>
      BY <1>1, SelfcareLeavesOthers
         DEF Administrators, vars, services, GetGroup, UpsertKey, DeleteKey
    <2>2. QED
      BY <1>0, <2>1 DEF ServicesOK
  <1>2. ASSUME NEW s \in ServiceId, NEW g \in Group \cup {NoGroup}, Bind(s, g)
        PROVE  ServicesOK'
    <2>1. /\ binding' = [binding EXCEPT ![s] = g]
          /\ choice' = [choice EXCEPT ![s] = g]
          /\ transition' = transition
          /\ crossed' \in SUBSET (crossed \cup {s})
          /\ rebound' \in SUBSET (rebound \cup {s})
      BY <1>2 DEF Bind, Rebind
    <2>2. QED
      BY <1>0, <2>1 DEF ServicesOK
  <1>3. ASSUME NEW s \in ServiceId, BeginTransition(s)
        PROVE  ServicesOK'
    <2>1. /\ transition' = [transition EXCEPT ![s] = binding[s]]
          /\ UNCHANGED <<binding, choice, crossed, rebound>>
      BY <1>3 DEF BeginTransition
    <2>2. QED
      BY <1>0, <2>1 DEF ServicesOK
  <1>4. ASSUME NEW s \in ServiceId, EndTransition(s)
        PROVE  ServicesOK'
    <2>1. /\ binding' = [binding EXCEPT ![s] = transition[s]]
          /\ transition' = [transition EXCEPT ![s] = Idle]
          /\ transition[s] \in Group \cup {NoGroup}
          /\ UNCHANGED <<choice, crossed>>
          /\ rebound' \in SUBSET (rebound \cup {s})
      BY <1>0, <1>4 DEF EndTransition, Rebind
    <2>2. QED
      BY <1>0, <2>1 DEF ServicesOK
  <1>5. CASE PatchPage \/ PatchNothing \/ FailPatches
    <2>1. UNCHANGED <<choice, transition, rebound>>
      BY <1>5 DEF PatchPage, PatchNothing, FailPatches
    <2>2. crossed' = crossed \cup Crossing /\ Crossing \in SUBSET ServiceId
      BY <1>0, <1>5 DEF PatchPage, PatchNothing, FailPatches, Crossing
    <2>3. binding' \in [ServiceId -> Group \cup {NoGroup}]
      BY <1>5, UnbindTyped DEF PatchPage, PatchNothing, FailPatches
    <2>4. QED
      BY <1>0, <2>1, <2>2, <2>3 DEF ServicesOK
  <1>6. CASE \/ HandleGroupChangeEvent \/ SyncSubscription \/ FetchPage
             \/ GetOrCreateUser \/ CreateGroupUsers \/ CreateSubscription
             \/ UpdateSubscription \/ UpdateNothing \/ FailTask \/ PutAside \/ Restart
    <2>1. UNCHANGED <<services, crossed>>
      BY <1>6 DEF HandleGroupChangeEvent, SyncSubscription, FetchPage,
         GetOrCreateUser, CreateGroupUsers, CreateSubscription, UpdateSubscription,
         UpdateNothing, FailTask, PutAside, Restart
    <2>2. QED
      BY <1>0, <2>1 DEF ServicesOK, services
  <1>7. QED
    BY <1>1, <1>2, <1>3, <1>4, <1>5, <1>6 DEF Next, People, Tasks, Failures

LEMMA BoundsKept ==
  ASSUME TypeOK, [Next]_vars
  PROVE  edits' \in 0..MaxEdit /\ faults' \in 0..MaxFault
  <1>0. edits \in 0..MaxEdit /\ faults \in 0..MaxFault
    BY DEF TypeOK
  <1>1. edits' = edits \/ (edits < MaxEdit /\ edits' = edits + 1)
    BY SelfcareLeavesOthers DEF Next, People, Administrators, Tasks, Failures, vars,
       services, Edit, Bind, BeginTransition, EndTransition, GetGroup, UpsertKey,
       DeleteKey, HandleGroupChangeEvent, GetOrCreateUser, CreateGroupUsers,
       CreateSubscription, SyncSubscription, UpdateSubscription, UpdateNothing,
       FetchPage, PatchPage, PatchNothing, FailPatches, FailTask, PutAside, Restart
  <1>2. faults' = faults \/ (faults < MaxFault /\ faults' = faults + 1)
    BY SelfcareLeavesOthers DEF Next, People, Administrators, Tasks, Failures, vars,
       Fault, Bind, BeginTransition, EndTransition, GetGroup, UpsertKey,
       DeleteKey, HandleGroupChangeEvent, GetOrCreateUser, CreateGroupUsers,
       CreateSubscription, SyncSubscription, UpdateSubscription, UpdateNothing,
       FetchPage, PatchPage, PatchNothing, FailPatches, FailTask, PutAside, Restart
  <1>3. QED
    BY <1>0, <1>1, <1>2, BoundAssumption

LEMMA TypeStep ==
  ASSUME TypeOK, [Next]_vars
  PROVE  TypeOK'
  <1>1. group' \in [Group -> SelfcareGroup \cup {NoItem}]
        /\ topic' \in Seq(GroupChangeEvent)
    <2>1. CASE Selfcare
      BY <2>1, SelfcareChanges, Appended
    <2>2. CASE Others
      BY <2>2, OthersLeaveSelfcare DEF TypeOK
    <2>3. QED
      BY <2>1, <2>2 DEF Next, Others
  <1>2. WatcherOK' /\ KeysOK' /\ ServicesOK'
    BY WatcherTyped, KeysTyped, ServicesTyped
  <1>3. edits' \in 0..MaxEdit /\ faults' \in 0..MaxFault
    BY BoundsKept
  <1>4. QED
    BY <1>1, <1>2, <1>3 DEF TypeOK, WatcherOK, KeysOK, ServicesOK

\* The group that was there before, and what Init says of the rest.
LEMMA InitKnown ==
  ASSUME Init
  PROVE  \E old \in Group, kind \in Kind :
           /\ group = [g \in Group |-> IF g = old THEN New(kind) ELSE NoItem]
           /\ binding = [s \in ServiceId |-> old]
           /\ subscription \in [Group -> {NoItem, KeyOf(New(kind).name, "ACTIVE")}]
           /\ \A g \in Group \ {old} : subscription[g] = NoItem
           /\ kind = "aggregate" => subscription[old] # NoItem
  <1> DEFINE old == CHOOSE g \in Group : TRUE
  <1>1. old \in Group
    BY GroupAssumption
  <1> HIDE DEF old
  <1>2. PICK kind \in Kind :
          /\ group = [g \in Group |-> IF g = old THEN New(kind) ELSE NoItem]
          /\ \E keyed \in IF kind = "plain" THEN BOOLEAN ELSE {kind = "aggregate"} :
               subscription = [g \in Group |->
                 IF g = old /\ keyed THEN KeyOf(New(kind).name, "ACTIVE") ELSE NoItem]
          /\ binding = [s \in ServiceId |-> old]
    BY DEF Init, old
  <1>3. New(kind).name \in Name
    BY NewTyped DEF SelfcareGroup
  <1>4. KeyOf(New(kind).name, "ACTIVE") # NoItem
    BY <1>3, KeyOfTyped, NoItemAssumption DEF Status
  <1>5. PICK keyed \in BOOLEAN :
          /\ kind = "aggregate" => keyed
          /\ subscription = [g \in Group |->
                 IF g = old /\ keyed THEN KeyOf(New(kind).name, "ACTIVE") ELSE NoItem]
    <2>1. PICK keyed \in IF kind = "plain" THEN BOOLEAN ELSE {kind = "aggregate"} :
               subscription = [g \in Group |->
                 IF g = old /\ keyed THEN KeyOf(New(kind).name, "ACTIVE") ELSE NoItem]
      BY <1>2
    <2>2. keyed \in BOOLEAN /\ (kind = "aggregate" => keyed)
      BY <2>1
    <2>3. QED
      BY <2>1, <2>2
  <1>6. QED
    BY <1>1, <1>2, <1>4, <1>5

LEMMA TypeInit ==
  ASSUME Init
  PROVE  TypeOK
  <1>1. PICK old \in Group, kind \in Kind :
           /\ group = [g \in Group |-> IF g = old THEN New(kind) ELSE NoItem]
           /\ binding = [s \in ServiceId |-> old]
           /\ subscription \in [Group -> {NoItem, KeyOf(New(kind).name, "ACTIVE")}]
    BY InitKnown
  <1>2. New(kind) \in SelfcareGroup /\ New(kind).name \in Name
    BY NewTyped DEF SelfcareGroup
  <1>3. KeyOf(New(kind).name, "ACTIVE") \in Subscription
    BY <1>2, KeyOfTyped DEF Status
  <1>4. /\ topic = <<>> /\ asking = [g \in Group |-> Idle]
        /\ next = 1 /\ checkpoint = 1 /\ step = "idle" /\ todo = {} /\ page = {}
        /\ choice = binding /\ transition = [s \in ServiceId |-> Idle]
        /\ edits = 0 /\ faults = 0 /\ behind = {} /\ crossed = {} /\ rebound = {}
        /\ user \in {"full", "none"}
    BY DEF Init
  <1>5. group \in [Group -> SelfcareGroup \cup {NoItem}]
        /\ subscription \in [Group -> Subscription \cup {NoItem}]
    BY <1>1, <1>2, <1>3
  <1>6. topic \in Seq(GroupChangeEvent) /\ Len(topic) = 0
    BY <1>4
  <1>7. WatcherOK
    BY <1>4, <1>6 DEF WatcherOK
  <1>8. KeysOK
    BY <1>4, <1>5 DEF KeysOK
  <1>9. ServicesOK
    BY <1>1, <1>4 DEF ServicesOK
  <1>10. QED
    BY <1>4, <1>5, <1>6, <1>7, <1>8, <1>9, TypeParts, BoundAssumption

\* The groups, the events, the watcher, the keys and the services keep their shape;
\* the watcher never goes past the end of the topic, and holds a page of services
\* only while it patches them (sync-services.ts).
THEOREM TypeCorrect == Spec => []TypeOK
  <1>1. Init => TypeOK
    BY TypeInit
  <1>2. TypeOK /\ [Next]_vars => TypeOK'
    BY TypeStep
  <1>3. QED
    BY <1>1, <1>2, PTL DEF Spec

-----------------------------------------------------------------------------
(* Self-care and its events                                                 *)

\* An event with which the deletion of g was announced.
Deletion(i, g) == topic[i].id = g /\ topic[i].status = "DELETED"

\* No event of the same group comes after the i-th.
IsLast(i) == \A j \in (i + 1)..Len(topic) : topic[j].id # topic[i].id

\* The events are those of groups that exist. The last one of a group says what it
\* is now, and nothing follows a deletion.
Announced ==
  /\ \A i \in 1..Len(topic) :
       /\ group[topic[i].id] # NoItem
       /\ topic[i].kind = group[topic[i].id].kind
       /\ IsLast(i) => /\ topic[i].name = group[topic[i].id].name
                       /\ topic[i].status = group[topic[i].id].status
       /\ topic[i].status = "DELETED" => IsLast(i) /\ ~ topic[i].created
  /\ \A g \in Group : group[g] # NoItem /\ group[g].status = "DELETED" =>
       \E i \in 1..Len(topic) : Deletion(i, g)

\* What the events say stays true, and deleted groups stay deleted.
LEMMA SelfcareOnlyGrows ==
  ASSUME TypeOK, [Next]_vars
  PROVE  /\ Len(topic) \in Nat /\ Len(topic') \in Nat /\ Len(topic) <= Len(topic')
         /\ \A i \in 1..Len(topic) : topic'[i] = topic[i]
         /\ \A g \in Group : group[g] # NoItem =>
              /\ group'[g] # NoItem
              /\ group'[g].kind = group[g].kind
              /\ group[g].status = "DELETED" => group'[g].status = "DELETED"
  <1>0. Len(topic) \in Nat
    BY DEF TypeOK
  <1>1. CASE Selfcare
    <2>1. PICK g \in Group, e \in GroupChangeEvent : Changed(g, e)
      BY <1>1, SelfcareChanges
    <2>2. group'[g] \in SelfcareGroup /\ group'[g] # NoItem
      BY <2>1, NoItemAssumption DEF Changed
    <2>3. group[g] # NoItem => /\ group'[g].kind = group[g].kind
                               /\ group[g].status # "DELETED"
      BY <2>1 DEF Changed
    <2>4. /\ Len(topic') = Len(topic) + 1
          /\ \A i \in 1..Len(topic) : topic'[i] = topic[i]
          /\ \A h \in Group \ {g} : group'[h] = group[h]
      BY <2>1, Appended
    <2>5. QED
      BY <1>0, <2>2, <2>3, <2>4
  <1>2. CASE Others
    BY <1>0, <1>2, OthersLeaveSelfcare
  <1>3. QED
    BY <1>1, <1>2 DEF Next, Others

LEMMA TopicTyped ==
  ASSUME TypeOK, NEW i \in 1..Len(topic)
  PROVE  /\ topic[i] \in GroupChangeEvent
         /\ topic[i].id \in Group /\ topic[i].name \in Name
         /\ topic[i].status \in Status /\ topic[i].kind \in Kind
         /\ topic[i].created \in BOOLEAN
  <1>1. topic[i] \in GroupChangeEvent
    BY DEF TypeOK
  <1>2. QED
    BY <1>1 DEF GroupChangeEvent

LEMMA AnnouncedInit ==
  ASSUME Init
  PROVE  Announced
  <1>1. PICK old \in Group, kind \in Kind :
          group = [g \in Group |-> IF g = old THEN New(kind) ELSE NoItem]
    BY InitKnown
  <1>2. New(kind).status = "ACTIVE"
    BY NewTyped
  <1>3. topic = <<>>
    BY DEF Init
  <1>4. Len(topic) = 0
    BY <1>3
  <1>5. \A g \in Group : group[g] # NoItem => group[g].status = "ACTIVE"
    BY <1>1, <1>2
  <1>6. QED
    BY <1>4, <1>5 DEF Announced

LEMMA AnnouncedStep ==
  ASSUME TypeOK, Announced, [Next]_vars
  PROVE  Announced'
  <1>1. CASE Selfcare
    <2>1. PICK g \in Group, e \in GroupChangeEvent : Changed(g, e)
      BY <1>1, SelfcareChanges
    <2> DEFINE n == Len(topic)
    <2>2. /\ n \in Nat /\ Len(topic') = n + 1 /\ topic'[n + 1] = e
          /\ \A i \in 1..n : topic'[i] = topic[i]
          /\ \A h \in Group \ {g} : group'[h] = group[h]
      BY <2>1, Appended
    <2>3. /\ e.id = g /\ e.name = group'[g].name /\ e.status = group'[g].status
          /\ e.kind = group'[g].kind
          /\ e.created <=> group[g] = NoItem
          /\ group'[g] # NoItem
          /\ group[g] = NoItem => group'[g].status = "ACTIVE"
          /\ group[g] # NoItem => /\ group[g].status # "DELETED"
                                  /\ group'[g].kind = group[g].kind
      BY <2>1, NoItemAssumption DEF Changed
    <2> HIDE DEF n
    <2>4. \A i \in 1..n : topic[i].id \in Group
      BY TopicTyped DEF n
    <2>5. /\ \A i \in 1..n :
               /\ group[topic[i].id] # NoItem
               /\ topic[i].kind = group[topic[i].id].kind
               /\ IsLast(i) => /\ topic[i].name = group[topic[i].id].name
                               /\ topic[i].status = group[topic[i].id].status
               /\ topic[i].status = "DELETED" => IsLast(i) /\ ~ topic[i].created
          /\ \A h \in Group : group[h] # NoItem /\ group[h].status = "DELETED" =>
               \E i \in 1..n : topic[i].id = h /\ topic[i].status = "DELETED"
      BY DEF Announced, Deletion, n
    <2>6. \A i \in 1..n : IsLast(i)' => IsLast(i) /\ topic[i].id # g
      <3> SUFFICES ASSUME NEW i \in 1..n, IsLast(i)'
                   PROVE  IsLast(i) /\ topic[i].id # g
        OBVIOUS
      <3>1. \A j \in (i + 1)..(n + 1) : topic'[j].id # topic'[i].id
        BY <2>2 DEF IsLast
      <3>2. n + 1 \in (i + 1)..(n + 1) /\ topic'[i] = topic[i]
        BY <2>2
      <3>3. \A j \in (i + 1)..n : j \in (i + 1)..(n + 1) /\ topic'[j] = topic[j]
        BY <2>2
      <3>4. QED
        BY <2>2, <2>3, <3>1, <3>2, <3>3 DEF IsLast, n
    <2>7. \A i \in 1..n : topic[i].status = "DELETED" => IsLast(i)'
      <3> SUFFICES ASSUME NEW i \in 1..n, topic[i].status = "DELETED"
                   PROVE  IsLast(i)'
        OBVIOUS
      <3>1. IsLast(i) /\ group[topic[i].id] # NoItem
            /\ group[topic[i].id].status = "DELETED"
        BY <2>5
      <3>2. topic[i].id # g
        BY <2>3, <3>1
      <3>3. ASSUME NEW j \in (i + 1)..(n + 1)
            PROVE  topic'[j].id # topic'[i].id
        <4>1. CASE j = n + 1
          BY <2>2, <2>3, <3>2, <4>1
        <4>2. CASE j # n + 1
          BY <2>2, <3>1, <4>2 DEF IsLast, n
        <4>3. QED
          BY <4>1, <4>2
      <3>4. QED
        BY <2>2, <3>3 DEF IsLast
    <2>8. ASSUME NEW i \in 1..(n + 1)
          PROVE  /\ group'[topic'[i].id] # NoItem
                 /\ topic'[i].kind = group'[topic'[i].id].kind
                 /\ IsLast(i)' => /\ topic'[i].name = group'[topic'[i].id].name
                                  /\ topic'[i].status = group'[topic'[i].id].status
                 /\ topic'[i].status = "DELETED" => IsLast(i)' /\ ~ topic'[i].created
      <3>1. CASE i = n + 1
        <4>1. IsLast(i)'
          BY <2>2, <3>1 DEF IsLast
        <4>2. QED
          BY <2>2, <2>3, <3>1, <4>1
      <3>2. CASE i \in 1..n
        <4>1. CASE topic[i].id = g
          BY <2>2, <2>3, <2>5, <2>6, <2>7, <3>2, <4>1
        <4>2. CASE topic[i].id # g
          BY <2>2, <2>4, <2>5, <2>6, <2>7, <3>2, <4>2
        <4>3. QED
          BY <4>1, <4>2
      <3>3. QED
        BY <2>2, <3>1, <3>2
    <2>9. ASSUME NEW h \in Group, group'[h] # NoItem, group'[h].status = "DELETED"
          PROVE  \E i \in 1..(n + 1) : topic'[i].id = h /\ topic'[i].status = "DELETED"
      <3>1. CASE h = g
        <4>1. n + 1 \in 1..(n + 1)
          BY <2>2
        <4>2. QED
          BY <2>2, <2>3, <2>9, <3>1, <4>1
      <3>2. CASE h # g
        <4>1. PICK i \in 1..n : topic[i].id = h /\ topic[i].status = "DELETED"
          BY <2>2, <2>5, <2>9, <3>2
        <4>2. i \in 1..(n + 1)
          BY <2>2
        <4>3. QED
          BY <2>2, <4>1, <4>2
      <3>3. QED
        BY <3>1, <3>2
    <2>10. QED
      BY <2>2, <2>8, <2>9 DEF Announced, Deletion
  <1>2. CASE Others
    <2>1. group' = group /\ topic' = topic
      BY <1>2, OthersLeaveSelfcare
    <2>2. QED
      BY <2>1 DEF Announced, Deletion, IsLast
  <1>3. QED
    BY <1>1, <1>2 DEF Next, Others

\* A deletion is known to self-care: the group is deleted.
LEMMA DeletionHolds ==
  ASSUME TypeOK, Announced, NEW i \in 1..Len(topic), topic[i].status = "DELETED"
  PROVE  /\ topic[i].id \in Group /\ Deleted(topic[i].id)
         /\ group[topic[i].id] # NoItem
         /\ \A j \in 1..Len(topic) : j > i => topic[j].id # topic[i].id
  <1>1. topic[i].id \in Group /\ topic[i].id # NoGroup
    BY TopicTyped, Markers
  <1>2. /\ IsLast(i) /\ group[topic[i].id] # NoItem
        /\ group[topic[i].id].status = "DELETED"
    BY DEF Announced
  <1>3. Len(topic) \in Nat
    BY DEF TypeOK
  <1>4. QED
    BY <1>1, <1>2, <1>3 DEF Deleted, IsLast

-----------------------------------------------------------------------------
(* The event at hand                                                        *)

\* The watcher makes the user and the subscription for an event that creates a
\* group, and looks for services for one that deletes it.
Begun ==
  /\ step \in {"user", "groups", "subscribe"} => Event.created
  /\ step \in {"services", "patch"} => Event.status = "DELETED"

\* The event at hand does not change under the watcher.
LEMMA EventStays ==
  ASSUME TypeOK, [Next]_vars, step # "idle" \/ next <= Len(topic), next' = next
  PROVE  Event' = Event
  <1>1. next \in 1..Len(topic)
    BY EventTyped
  <1>2. QED
    BY <1>1, SelfcareOnlyGrows DEF Event

LEMMA BegunStep ==
  ASSUME TypeOK, Begun, [Next]_vars
  PROVE  Begun'
  <1>1. CASE Selfcare \/ People \/ Administrators \/ UNCHANGED vars
    <2>1. next' = next /\ step' = step
      BY <1>1, SelfcareLeavesOthers
         DEF People, Administrators, vars, watcher, Bind, BeginTransition,
             EndTransition, GetGroup, UpsertKey, DeleteKey
    <2>2. CASE step = "idle"
      BY <2>1, <2>2 DEF Begun
    <2>3. CASE step # "idle"
      BY <2>1, <2>3, EventStays DEF Begun
    <2>4. QED
      BY <2>2, <2>3
  <1>2. CASE Tasks
    <2>1. CASE step' \notin {"user", "groups", "subscribe", "services", "patch"}
      BY <2>1 DEF Begun
    <2>2. CASE step' \in {"user", "groups", "subscribe"}
      <3>1. next' = next /\ (step # "idle" \/ next <= Len(topic)) /\ Event.created
        BY <1>2, <2>2 DEF Tasks, HandleGroupChangeEvent, GetOrCreateUser,
           CreateGroupUsers, CreateSubscription, SyncSubscription, UpdateSubscription,
           UpdateNothing, FetchPage, PatchPage, PatchNothing, Step, Done, GoOn, Retry,
           Begun, shouldCreateManageGroupSubscription
      <3>2. QED
        BY <2>2, <3>1, EventStays DEF Begun
    <2>3. CASE step' \in {"services", "patch"}
      <3>1. next' = next /\ (step # "idle") /\ Event.status = "DELETED"
        BY <1>2, <2>3 DEF Tasks, HandleGroupChangeEvent, GetOrCreateUser,
           CreateGroupUsers, CreateSubscription, SyncSubscription, UpdateSubscription,
           UpdateNothing, FetchPage, PatchPage, PatchNothing, Step, Done, GoOn, Retry,
           Begun, shouldSyncServices
      <3>2. QED
        BY <2>3, <3>1, EventStays DEF Begun
    <2>4. QED
      BY <2>1, <2>2, <2>3
  <1>3. CASE Failures
    BY <1>3 DEF Failures, FailPatches, FailTask, PutAside, Restart, Retry, Begun
  <1>4. QED
    BY <1>1, <1>2, <1>3 DEF Next

-----------------------------------------------------------------------------
(* The groups of the services                                               *)

\* A service is bound only to groups that exist.
Known(g) == g \notin {NoGroup, Idle} => group[g] # NoItem

There ==
  \A s \in ServiceId : Known(binding[s]) /\ Known(choice[s]) /\ Known(transition[s])

\* The steps that leave the services and their groups alone.
Elsewhere ==
  \/ HandleGroupChangeEvent \/ SyncSubscription \/ FetchPage
  \/ GetOrCreateUser \/ CreateGroupUsers \/ CreateSubscription
  \/ UpdateSubscription \/ UpdateNothing \/ FailTask \/ PutAside \/ Restart

LEMMA ElsewhereLeavesServices ==
  ASSUME Elsewhere
  PROVE  UNCHANGED <<binding, transition, choice, rebound, crossed>>
  BY DEF Elsewhere, services, HandleGroupChangeEvent, SyncSubscription, FetchPage,
     GetOrCreateUser, CreateGroupUsers, CreateSubscription, UpdateSubscription,
     UpdateNothing, FailTask, PutAside, Restart

LEMMA AdministratorsLeaveServices ==
  ASSUME Administrators \/ UNCHANGED vars
  PROVE  UNCHANGED <<watcher, binding, transition, choice, rebound, crossed>>
  BY DEF Administrators, services, GetGroup, UpsertKey, DeleteKey, vars

\* The three steps that unbind services: of the page, for an event that deleted a
\* group.
Unbinding ==
  /\ step = "patch"
  /\ \E ids \in SUBSET page : /\ Unbind(ids)
                              /\ PatchPage => ids = page
  /\ crossed' = crossed \cup Crossing
  /\ page' = {} /\ next' = next
  /\ UNCHANGED <<selfcare, choice, transition, rebound, behind>>
  /\ \/ step' = "idle"
     \/ step' = "services" /\ todo' = todo /\ PatchPage

LEMMA UnbindingSteps ==
  ASSUME PatchPage \/ PatchNothing \/ FailPatches
  PROVE  Unbinding
  <1>1. CASE PatchPage
    <2>1. Unbind(page)
      BY <1>1 DEF PatchPage
    <2>2. \E ids \in SUBSET page : Unbind(ids) /\ (PatchPage => ids = page)
      BY <2>1
    <2>3. QED
      BY <1>1, <2>2 DEF PatchPage, Step, Unbinding
  <1>2. CASE PatchNothing
    <2>1. /\ Unbind(page)
          /\ UNCHANGED <<selfcare, choice, transition, rebound, behind>>
          /\ step = "patch" /\ crossed' = crossed \cup Crossing
          /\ page' = {} /\ next' = next /\ step' = "idle"
      BY <1>2 DEF PatchNothing, Retry
    <2>2. \E ids \in SUBSET page : Unbind(ids) /\ (PatchPage => ids = page)
      BY <2>1
    <2>3. QED
      BY <2>1, <2>2 DEF Unbinding
  <1>3. CASE FailPatches
    <2>1. /\ UNCHANGED <<selfcare, choice, transition, rebound, behind>>
          /\ step = "patch" /\ crossed' = crossed \cup Crossing
          /\ page' = {} /\ next' = next /\ step' = "idle"
      BY <1>3 DEF FailPatches, Retry
    <2>2. ~ PatchPage
      BY <2>1 DEF PatchPage, Step
    <2>3. \E ids \in SUBSET page : Unbind(ids) /\ (PatchPage => ids = page)
      BY <1>3, <2>2 DEF FailPatches
    <2>4. QED
      BY <2>1, <2>3 DEF Unbinding
  <1>4. QED
    BY <1>1, <1>2, <1>3

\* All that Others do.
LEMMA OthersSplit ==
  ASSUME [Next]_vars
  PROVE  \/ Selfcare
         \/ \E s \in ServiceId : \/ \E g \in Group \cup {NoGroup} : Bind(s, g)
                                 \/ BeginTransition(s) \/ EndTransition(s)
         \/ Administrators \/ UNCHANGED vars
         \/ PatchPage \/ PatchNothing \/ FailPatches
         \/ Elsewhere
  BY DEF Next, People, Tasks, Failures, Elsewhere

LEMMA ThereStep ==
  ASSUME TypeOK, There, [Next]_vars
  PROVE  There'
  <1>0. /\ binding \in [ServiceId -> Group \cup {NoGroup}]
        /\ choice \in [ServiceId -> Group \cup {NoGroup}]
        /\ transition \in [ServiceId -> Group \cup {NoGroup, Idle}]
    BY DEF TypeOK
  <1>1. ASSUME NEW g \in Group \cup {NoGroup, Idle}, Known(g)
        PROVE  Known(g)'
    BY <1>1, SelfcareOnlyGrows DEF Known
  <1> HIDE DEF Known
  <1>2. ASSUME UNCHANGED <<binding, choice, transition>>
        PROVE  There'
    BY <1>0, <1>1, <1>2 DEF There
  <1>3. ASSUME NEW s \in ServiceId, NEW g \in Group \cup {NoGroup}, Bind(s, g)
        PROVE  There'
    <2>1. Known(g)
      BY <1>3 DEF Bind, Known
    <2>2. /\ binding' = [binding EXCEPT ![s] = g]
          /\ choice' = [choice EXCEPT ![s] = g]
          /\ transition' = transition
      BY <1>3 DEF Bind, Rebind
    <2>3. QED
      BY <1>0, <1>1, <2>1, <2>2 DEF There
  <1>4. ASSUME NEW s \in ServiceId, BeginTransition(s)
        PROVE  There'
    <2>1. /\ transition' = [transition EXCEPT ![s] = binding[s]]
          /\ UNCHANGED <<binding, choice>>
      BY <1>4 DEF BeginTransition
    <2>2. QED
      BY <1>0, <1>1, <2>1 DEF There
  <1>5. ASSUME NEW s \in ServiceId, EndTransition(s)
        PROVE  There'
    <2>1. /\ binding' = [binding EXCEPT ![s] = transition[s]]
          /\ transition' = [transition EXCEPT ![s] = Idle]
          /\ choice' = choice
      BY <1>5 DEF EndTransition, Rebind
    <2>2. Known(Idle)'
      BY DEF Known
    <2>3. QED
      BY <1>0, <1>1, <2>1, <2>2 DEF There
  <1>6. CASE PatchPage \/ PatchNothing \/ FailPatches
    <2>1. /\ UNCHANGED <<choice, transition>>
          /\ \E ids : Unbind(ids)
      BY <1>6, UnbindingSteps DEF Unbinding
    <2>2. \A s \in ServiceId : binding'[s] \in {NoGroup, binding[s]}
      BY <2>1 DEF Unbind
    <2>3. Known(NoGroup)'
      BY DEF Known
    <2>4. QED
      BY <1>0, <1>1, <2>1, <2>2, <2>3 DEF There
  <1>7. QED
    BY <1>2, <1>3, <1>4, <1>5, <1>6, OthersSplit, SelfcareLeavesOthers,
       ElsewhereLeavesServices, AdministratorsLeaveServices DEF services

\* A service nobody has crossed is bound to the group people chose, but for groups
\* that are deleted; a transition writes back what is there, and the page at hand
\* holds services of the group that was deleted.
Chosen ==
  \A s \in ServiceId \ crossed :
    /\ ~ Deleted(choice[s]) => binding[s] = choice[s]
    /\ transition[s] # Idle => transition[s] = binding[s]
    /\ s \in page => binding[s] = Event.id

LEMMA DeletedStays ==
  ASSUME TypeOK, [Next]_vars, NEW g \in Group \cup {NoGroup}, Known(g), Deleted(g)
  PROVE  Deleted(g)'
  <1>1. g \in Group /\ g \notin {NoGroup, Idle}
    BY Markers DEF Deleted
  <1>2. QED
    BY <1>1, SelfcareOnlyGrows DEF Deleted, Known

LEMMA ChosenStep ==
  ASSUME TypeOK, Announced, Begun, There, Chosen, [Next]_vars
  PROVE  Chosen'
  <1>0. /\ binding \in [ServiceId -> Group \cup {NoGroup}]
        /\ choice \in [ServiceId -> Group \cup {NoGroup}]
        /\ transition \in [ServiceId -> Group \cup {NoGroup, Idle}]
        /\ page \in SUBSET ServiceId
        /\ step \notin {"patch"} => page = {}
    BY DEF TypeOK
  <1>1. \A s \in ServiceId : Deleted(choice[s]) => choice[s] \in Group
    BY <1>0 DEF Deleted
  <1>2. \A g \in Group \cup {NoGroup} : Known(g) /\ Deleted(g) => Deleted(g)'
    BY DeletedStays
  <1>3. ASSUME UNCHANGED <<binding, choice, transition, crossed>>,
               page' = {} \/ (page' = page /\ next' = next)
        PROVE  Chosen'
    <2>1. \A s \in ServiceId : ~ Deleted(choice[s])' => ~ Deleted(choice[s])
      BY <1>0, <1>2, <1>3 DEF There
    <2>2. \A s \in page' : Event' = Event /\ s \in page
      BY <1>0, <1>3, EventStays
    <2>3. QED
      BY <1>3, <2>1, <2>2 DEF Chosen
  <1>4. CASE Selfcare \/ Administrators \/ UNCHANGED vars
    <2>1. UNCHANGED <<binding, choice, transition, crossed, page, next>>
      BY <1>4, SelfcareLeavesOthers, AdministratorsLeaveServices DEF services, watcher
    <2>2. QED
      BY <1>3, <2>1
  <1>5. ASSUME NEW s \in ServiceId, NEW g \in Group \cup {NoGroup}, Bind(s, g)
        PROVE  Chosen'
    <2>1. /\ binding' = [binding EXCEPT ![s] = g]
          /\ choice' = [choice EXCEPT ![s] = g]
          /\ transition' = transition
          /\ crossed' = IF s \in page \/ transition[s] # Idle
                        THEN crossed \cup {s} ELSE crossed
          /\ UNCHANGED <<group, topic, next, page>>
      BY <1>5 DEF Bind, Rebind, selfcare, watcher
    <2>2. \A t \in ServiceId \ {s} : binding'[t] = binding[t] /\ choice'[t] = choice[t]
      BY <1>0, <2>1
    <2>3. binding'[s] = g /\ choice'[s] = g
      BY <1>0, <2>1
    <2>4. \A h \in Group \cup {NoGroup} : Deleted(h)' <=> Deleted(h)
      BY <2>1 DEF Deleted
    <2>5. Event' = Event
      BY <2>1 DEF Event
    <2>6. ASSUME NEW t \in ServiceId \ crossed'
          PROVE  /\ ~ Deleted(choice[t])' => binding'[t] = choice'[t]
                 /\ transition'[t] # Idle => transition'[t] = binding'[t]
                 /\ t \in page' => binding'[t] = (Event.id)'
      <3>1. CASE t = s
        BY <2>1, <2>3, <2>6, <3>1
      <3>2. CASE t # s
        BY <1>0, <2>1, <2>2, <2>4, <2>5, <2>6, <3>2 DEF Chosen
      <3>3. QED
        BY <3>1, <3>2
    <2>7. QED
      BY <2>6 DEF Chosen
  <1>6. ASSUME NEW s \in ServiceId, BeginTransition(s)
        PROVE  Chosen'
    <2>1. /\ transition' = [transition EXCEPT ![s] = binding[s]]
          /\ UNCHANGED <<binding, choice, crossed, page, next, group, topic>>
      BY <1>6 DEF BeginTransition, selfcare, watcher
    <2>2. \A h \in Group \cup {NoGroup} : Deleted(h)' <=> Deleted(h)
      BY <2>1 DEF Deleted
    <2>3. Event' = Event
      BY <2>1 DEF Event
    <2>4. QED
      BY <1>0, <2>1, <2>2, <2>3 DEF Chosen
  <1>7. ASSUME NEW s \in ServiceId, EndTransition(s)
        PROVE  Chosen'
    <2>1. /\ binding' = [binding EXCEPT ![s] = transition[s]]
          /\ transition' = [transition EXCEPT ![s] = Idle]
          /\ transition[s] # Idle
          /\ UNCHANGED <<choice, crossed, page, next, group, topic>>
      BY <1>7 DEF EndTransition, Rebind, selfcare, watcher
    <2>2. \A h \in Group \cup {NoGroup} : Deleted(h)' <=> Deleted(h)
      BY <2>1 DEF Deleted
    <2>3. Event' = Event
      BY <2>1 DEF Event
    <2>4. \A t \in ServiceId \ crossed : binding'[t] = binding[t]
      BY <1>0, <2>1 DEF Chosen
    <2>5. QED
      BY <1>0, <2>1, <2>2, <2>3, <2>4 DEF Chosen
  <1>8. CASE PatchPage \/ PatchNothing \/ FailPatches
    <2>1. Unbinding
      BY <1>8, UnbindingSteps
    <2>2. PICK ids \in SUBSET page : Unbind(ids)
      BY <2>1 DEF Unbinding
    <2>3. /\ step = "patch" /\ crossed' = crossed \cup Crossing /\ page' = {}
          /\ UNCHANGED <<group, topic, choice, transition>>
      BY <2>1 DEF Unbinding, selfcare
    <2>4. /\ next \in 1..Len(topic) /\ Event.status = "DELETED"
          /\ Event = topic[next]
      BY <2>3, EventTyped DEF Begun, Event
    <2>5. Deleted(Event.id)
      BY <2>4, DeletionHolds
    <2>6. \A h \in Group \cup {NoGroup} : Deleted(h)' <=> Deleted(h)
      BY <2>3 DEF Deleted
    <2>7. ASSUME NEW t \in ServiceId \ crossed'
          PROVE  /\ ~ Deleted(choice[t])' => binding'[t] = choice'[t]
                 /\ transition'[t] # Idle => transition'[t] = binding'[t]
                 /\ t \in page' => binding'[t] = (Event.id)'
      <3>1. CASE t \in ids
        <4>1. transition[t] = Idle /\ t \notin crossed /\ t \in page
          BY <2>2, <2>3, <2>7, <3>1 DEF Crossing
        <4>2. binding[t] = Event.id
          BY <4>1 DEF Chosen
        <4>3. Deleted(choice[t])
          <5>1. CASE binding[t] = choice[t]
            <6>1. choice[t] = Event.id
              BY <4>2, <5>1
            <6>2. QED
              BY <2>5, <6>1
          <5>2. CASE binding[t] # choice[t]
            BY <2>7, <4>1, <5>2 DEF Chosen
          <5>3. QED
            BY <5>1, <5>2
        <4>4. QED
          BY <1>0, <2>7, <2>3, <2>6, <4>1, <4>3
      <3>2. CASE t \notin ids
        <4>1. binding'[t] = binding[t] /\ t \notin crossed
          BY <2>2, <2>3, <2>7, <3>2 DEF Unbind
        <4>2. QED
          BY <1>0, <2>3, <2>6, <2>7, <4>1 DEF Chosen
      <3>3. QED
        BY <3>1, <3>2
    <2>8. QED
      BY <2>7 DEF Chosen
  <1>9. CASE FetchPage
    <2>1. UNCHANGED <<binding, choice, transition, crossed>> /\ page = {}
          /\ step = "services" /\ UNCHANGED selfcare
      BY <1>0, <1>9 DEF FetchPage, services
    <2>2. CASE todo = {}
      <3>1. page' = {}
        BY <1>9, <2>1, <2>2 DEF FetchPage, Done
      <3>2. QED
        BY <1>3, <2>1, <3>1
    <2>3. CASE todo # {}
      <3>1. PICK ids : page' = {s \in ids : binding[s] = Event.id} /\ next' = next
        BY <1>9, <2>3 DEF FetchPage
      <3>2. Event' = Event /\ UNCHANGED group
        BY <2>1, <3>1 DEF selfcare, Event
      <3>3. \A h \in Group \cup {NoGroup} : Deleted(h)' <=> Deleted(h)
        BY <2>1, <3>2 DEF Deleted
      <3>4. QED
        BY <1>0, <2>1, <3>1, <3>2, <3>3 DEF Chosen
    <2>4. QED
      BY <2>2, <2>3
  <1>10. CASE Elsewhere /\ ~ FetchPage
    <2>1. UNCHANGED <<binding, choice, transition, crossed>>
      BY <1>10, ElsewhereLeavesServices
    <2>2. CASE step = "patch"
      <3>1. page' = {}
        BY <1>10, <2>2 DEF Elsewhere, HandleGroupChangeEvent, SyncSubscription,
           GetOrCreateUser, CreateGroupUsers, CreateSubscription, UpdateSubscription,
           UpdateNothing, FailTask, PutAside, Restart, Retry, Step
      <3>2. QED
        BY <1>3, <2>1, <3>1
    <2>3. CASE step # "patch"
      <3>1. page = {}
        BY <1>0, <2>3
      <3>2. page' \in {page, {}}
        BY <1>10, <2>3 DEF Elsewhere, HandleGroupChangeEvent, SyncSubscription,
           GetOrCreateUser, CreateGroupUsers, CreateSubscription, UpdateSubscription,
           UpdateNothing, FailTask, PutAside, Restart, GoOn, Done, Retry
      <3>3. QED
        BY <1>3, <2>1, <3>1, <3>2
    <2>4. QED
      BY <2>2, <2>3
  <1>11. QED
    BY <1>4, <1>5, <1>6, <1>7, <1>8, <1>9, <1>10, OthersSplit

LEMMA ServicesInit ==
  ASSUME Init
  PROVE  Begun /\ There /\ Chosen
  <1>1. PICK old \in Group, kind \in Kind :
          /\ group = [g \in Group |-> IF g = old THEN New(kind) ELSE NoItem]
          /\ binding = [s \in ServiceId |-> old]
    BY InitKnown
  <1>2. New(kind) # NoItem
    BY NewTyped, NoItemAssumption
  <1>3. /\ choice = binding /\ transition = [s \in ServiceId |-> Idle]
        /\ page = {} /\ step = "idle"
    BY DEF Init
  <1>4. Begun
    BY <1>3 DEF Begun
  <1>5. There
    BY <1>1, <1>2, <1>3, Markers DEF There, Known
  <1>6. Chosen
    BY <1>3 DEF Chosen
  <1>7. QED
    BY <1>4, <1>5, <1>6

\* All of it, as one invariant.
ServicesInv == TypeOK /\ Announced /\ Begun /\ There /\ Chosen

LEMMA ServicesInvariant == Spec => []ServicesInv
  <1>1. Init => ServicesInv
    BY TypeInit, AnnouncedInit, ServicesInit DEF ServicesInv
  <1>2. ServicesInv /\ [Next]_vars => ServicesInv'
    BY TypeStep, AnnouncedStep, BegunStep, ThereStep, ChosenStep DEF ServicesInv
  <1>3. QED
    BY <1>1, <1>2, PTL DEF Spec

\* A service stays in the group that people chose for it as long as the group
\* exists, however often the watcher repeats an event, its pages and its patches:
\* only a service that two have written at once may lose its group
\* (sync-services.ts, service-topic-dao patches).
THEOREM ChoiceCorrect == Spec => []ChoiceStands
  <1>1. ServicesInv => ChoiceStands
    BY DEF ServicesInv, Chosen, ChoiceStands
  <1>2. QED
    BY <1>1, ServicesInvariant, PTL

-----------------------------------------------------------------------------
(* The services of a deleted group                                          *)

\* The event with which a group was deleted is to come, or it is at hand and the
\* services that are still bound to the group are among those it has to patch, or
\* it was put aside.
Unbound ==
  \A s \in ServiceId \ rebound : \A i \in 1..Len(topic) :
    Deletion(i, binding[s]) /\ topic[i].kind # "other" =>
      /\ i < next => binding[s] \in behind
      /\ i = next /\ step \in {"services", "patch"} => s \in todo \cup page

\* The event at hand is done with, and none of the services concerned is left.
LEMMA UnboundDone ==
  ASSUME ServicesInv, Unbound, NEW key, Done(key), next <= Len(topic),
         UNCHANGED <<selfcare, binding, rebound>>,
         \/ Event.kind = "other"
         \/ Event.status # "DELETED"
         \/ step = "services" /\ todo \cup page = {}
  PROVE  Unbound'
  <1>1. /\ next \in 1..Len(topic) /\ Len(topic) \in Nat /\ Event = topic[next]
        /\ TypeOK /\ Announced
    BY EventTyped DEF ServicesInv, Event
  <1>2. /\ step' = "idle" /\ next' = next + 1 /\ topic' = topic
        /\ binding' = binding /\ rebound' = rebound
        /\ behind \ {Event.id} \subseteq behind'
    BY DEF Done, selfcare
  <1>3. SUFFICES ASSUME NEW s \in ServiceId \ rebound, NEW i \in 1..Len(topic),
                        Deletion(i, binding[s]), topic[i].kind # "other",
                        i < next + 1
                 PROVE  binding[s] \in behind'
    BY <1>2 DEF Unbound, Deletion
  <1>4. CASE i = next
    <2>1. Event.kind # "other" /\ Event.status = "DELETED"
      BY <1>1, <1>3, <1>4 DEF Deletion
    <2>2. s \in todo \cup page /\ todo \cup page = {}
      BY <1>3, <1>4, <2>1 DEF Unbound
    <2>3. QED
      BY <2>2
  <1>5. CASE i < next
    <2>1. binding[s] \in behind
      BY <1>3, <1>5 DEF Unbound
    <2>2. topic[next].id # topic[i].id
      BY <1>1, <1>3, <1>5, DeletionHolds DEF Deletion
    <2>3. binding[s] # Event.id
      BY <1>1, <1>3, <2>2 DEF Deletion
    <2>4. QED
      BY <1>2, <2>1, <2>3
  <1>6. QED
    BY <1>1, <1>3, <1>4, <1>5

\* The watcher starts on the same event, or on one before it.
LEMMA UnboundAgain ==
  ASSUME ServicesInv, Unbound, step' = "idle", next' \in 1..next,
         UNCHANGED <<topic, rebound, behind>>,
         \A s \in ServiceId : binding'[s] \in {binding[s], NoGroup}
  PROVE  Unbound'
  <1>1. TypeOK /\ next \in Nat /\ Len(topic) \in Nat
    BY DEF ServicesInv, TypeOK
  <1>2. \A i \in 1..Len(topic) : topic[i].id # NoGroup
    BY <1>1, TopicTyped, Markers
  <1>3. QED
    BY <1>1, <1>2 DEF Unbound, Deletion

\* Whoever binds a service to a group that is deleted is noticed.
LEMMA UnboundBind ==
  ASSUME ServicesInv, Unbound, NEW s \in ServiceId, NEW g \in Group \cup {NoGroup},
         Rebind(s, g), UNCHANGED <<selfcare, watcher, behind>>
  PROVE  Unbound'
  <1>1. /\ binding \in [ServiceId -> Group \cup {NoGroup}]
        /\ TypeOK /\ Announced
    BY DEF ServicesInv, TypeOK
  <1>2. /\ binding' = [binding EXCEPT ![s] = g]
        /\ rebound' = IF Deleted(g) THEN rebound \cup {s} ELSE rebound \ {s}
        /\ UNCHANGED <<topic, next, step, todo, page, behind>>
    BY DEF Rebind, selfcare, watcher
  <1>3. SUFFICES ASSUME NEW t \in ServiceId \ rebound', NEW i \in 1..Len(topic),
                        Deletion(i, binding'[t]), topic[i].kind # "other"
                 PROVE  /\ i < next => binding'[t] \in behind
                        /\ i = next /\ step \in {"services", "patch"} => t \in todo \cup page
    BY <1>2 DEF Unbound, Deletion
  <1>4. CASE t = s
    <2>1. ~ Deleted(g) /\ binding'[t] = g
      BY <1>1, <1>2, <1>3, <1>4
    <2>2. Deleted(g)
      BY <1>1, <1>3, <2>1, DeletionHolds DEF Deletion
    <2>3. QED
      BY <2>1, <2>2
  <1>5. CASE t # s
    <2>1. binding'[t] = binding[t] /\ t \notin rebound
      BY <1>1, <1>2, <1>3, <1>5
    <2>2. QED
      BY <1>3, <2>1 DEF Unbound
  <1>6. QED
    BY <1>4, <1>5

LEMMA UnboundStep ==
  ASSUME ServicesInv, Unbound, [Next]_vars
  PROVE  Unbound'
  <1>0. /\ binding \in [ServiceId -> Group \cup {NoGroup}]
        /\ transition \in [ServiceId -> Group \cup {NoGroup, Idle}]
        /\ TypeOK /\ Announced /\ Begun
        /\ next \in Nat /\ checkpoint \in 1..next /\ Len(topic) \in Nat
        /\ page \in SUBSET ServiceId
        /\ step # "patch" => page = {}
        /\ step # "idle" => next <= Len(topic)
    BY DEF ServicesInv, TypeOK
  <1>1. CASE Selfcare
    <2>1. PICK g \in Group, e \in GroupChangeEvent : Changed(g, e)
      BY <1>0, <1>1, SelfcareChanges
    <2>2. UNCHANGED <<next, step, todo, page, binding, rebound, behind>>
      BY <1>1, SelfcareLeavesOthers DEF watcher, services
    <2>3. /\ Len(topic') = Len(topic) + 1
          /\ \A i \in 1..Len(topic) : topic'[i] = topic[i]
      BY <1>0, <2>1, Appended
    <2>4. Len(topic) + 1 >= next /\ (Len(topic) + 1 = next => step = "idle")
      BY <1>0 DEF TypeOK
    <2>5. SUFFICES ASSUME NEW s \in ServiceId \ rebound, NEW i \in 1..(Len(topic) + 1),
                          topic'[i].id = binding[s], topic'[i].status = "DELETED",
                          topic'[i].kind # "other"
                   PROVE  /\ i < next => binding[s] \in behind
                          /\ i = next /\ step \in {"services", "patch"} => s \in todo \cup page
      BY <2>2, <2>3 DEF Unbound, Deletion
    <2>6. CASE i = Len(topic) + 1
      BY <1>0, <2>4, <2>6
    <2>7. CASE i \in 1..Len(topic)
      BY <2>3, <2>5, <2>7 DEF Unbound, Deletion
    <2>8. QED
      BY <1>0, <2>6, <2>7
  <1>2. ASSUME UNCHANGED <<topic, next, step, todo, page, binding, rebound>>,
               behind \subseteq behind'
        PROVE  Unbound'
    BY <1>2 DEF Unbound, Deletion
  <1>3. CASE Administrators \/ UNCHANGED vars
    <2>1. UNCHANGED <<topic, next, step, todo, page, binding, rebound>>
      BY <1>3, AdministratorsLeaveServices, OthersLeaveSelfcare DEF Others, watcher
    <2>2. behind \subseteq behind'
      BY <1>3 DEF Administrators, GetGroup, UpsertKey, DeleteKey, vars
    <2>3. QED
      BY <1>2, <2>1, <2>2
  <1>4. ASSUME NEW s \in ServiceId, NEW g \in Group \cup {NoGroup}, Bind(s, g)
        PROVE  Unbound'
    BY <1>4, UnboundBind DEF Bind
  <1>5. ASSUME NEW s \in ServiceId, BeginTransition(s)
        PROVE  Unbound'
    BY <1>2, <1>5 DEF BeginTransition, selfcare, watcher
  <1>6. ASSUME NEW s \in ServiceId, EndTransition(s)
        PROVE  Unbound'
    <2>1. transition[s] \in Group \cup {NoGroup}
      BY <1>0, <1>6 DEF EndTransition
    <2>2. QED
      BY <1>6, <2>1, UnboundBind DEF EndTransition
  <1>7. CASE PatchPage \/ PatchNothing \/ FailPatches
    <2>1. Unbinding
      BY <1>7, UnbindingSteps
    <2>2. PICK ids \in SUBSET page : Unbind(ids) /\ (PatchPage => ids = page)
      BY <2>1 DEF Unbinding
    <2>3. \A s \in ServiceId : binding'[s] = IF s \in ids THEN NoGroup ELSE binding[s]
      BY <2>2 DEF Unbind
    <2>4. next' = next /\ UNCHANGED <<topic, rebound, behind>> /\ page' = {}
      BY <2>1 DEF Unbinding, selfcare
    <2>5. CASE step' = "idle"
      <3>1. next' \in 1..next
        BY <1>0, <2>4
      <3>2. \A s \in ServiceId : binding'[s] \in {binding[s], NoGroup}
        BY <2>3
      <3>3. QED
        BY <2>4, <2>5, <3>1, <3>2, UnboundAgain
    <2>6. CASE todo' = todo /\ PatchPage
      <3>1. ids = page /\ step = "patch"
        BY <2>1, <2>2, <2>6 DEF Unbinding
      <3>2. \A i \in 1..Len(topic) : topic[i].id # NoGroup
        BY <1>0, TopicTyped, Markers
      <3>3. QED
        BY <2>3, <2>4, <2>6, <3>1, <3>2 DEF Unbound, Deletion
    <2>7. QED
      BY <2>1, <2>5, <2>6 DEF Unbinding
  <1>8. ASSUME Elsewhere
        PROVE  Unbound'
    <2>0. UNCHANGED <<selfcare, topic, binding, rebound>>
      BY <1>8, ElsewhereLeavesServices, OthersLeaveSelfcare
         DEF Elsewhere, Others, Tasks, Failures, selfcare
    <2>1. ASSUME step' \notin {"services", "patch"}, UNCHANGED <<next, behind>>
          PROVE  Unbound'
      BY <2>0, <2>1 DEF Unbound, Deletion
    <2>2. CASE HandleGroupChangeEvent
      <3>1. CASE Event.kind = "other"
        BY <2>0, <2>2, <3>1, UnboundDone DEF HandleGroupChangeEvent
      <3>2. CASE Event.kind # "other"
        BY <2>1, <2>2, <3>2 DEF HandleGroupChangeEvent
      <3>3. QED
        BY <3>1, <3>2
    <2>3. CASE GetOrCreateUser \/ CreateGroupUsers \/ CreateSubscription
      BY <2>1, <2>3 DEF GetOrCreateUser, CreateGroupUsers, CreateSubscription, Step
    <2>4. ASSUME NEW key, GoOn(key), step # "idle"
          PROVE  Unbound'
      <3>1. CASE shouldSyncServices(Event)
        <4>1. todo' = ServiceId /\ UNCHANGED <<next, behind>>
          BY <2>4, <3>1 DEF GoOn
        <4>2. QED
          BY <2>0, <4>1 DEF Unbound, Deletion
      <3>2. CASE ~ shouldSyncServices(Event)
        <4>1. Done(key) /\ Event.status # "DELETED"
          BY <2>4, <3>2 DEF GoOn, shouldSyncServices
        <4>2. QED
          BY <1>0, <2>0, <2>4, <4>1, UnboundDone
      <3>3. QED
        BY <3>1, <3>2
    <2>5. CASE SyncSubscription
      <3>1. CASE GoOn(subscription[Event.id])
        BY <2>4, <2>5, <3>1 DEF SyncSubscription
      <3>2. CASE step' = "update" /\ UNCHANGED <<next, behind>>
        BY <2>1, <3>2
      <3>3. QED
        BY <2>5, <3>1, <3>2 DEF SyncSubscription
    <2>6. CASE UpdateSubscription
      BY <2>4, <2>6 DEF UpdateSubscription
    <2>7. CASE UpdateNothing \/ FailTask
      BY <2>1, <2>7 DEF UpdateNothing, FailTask, Retry
    <2>8. CASE FetchPage
      <3>1. step = "services" /\ page = {} /\ next <= Len(topic)
        BY <1>0, <2>8 DEF FetchPage
      <3>2. CASE todo = {}
        BY <2>0, <2>8, <3>1, <3>2, UnboundDone DEF FetchPage
      <3>3. CASE todo # {}
        <4>1. PICK ids : /\ todo' = todo \ ids
                         /\ page' = {s \in ids : binding[s] = Event.id}
                         /\ UNCHANGED <<next, behind>>
          BY <2>8, <3>3 DEF FetchPage
        <4>2. QED
          BY <2>0, <3>1, <4>1 DEF Unbound, Deletion, Event
      <3>4. QED
        BY <3>2, <3>3
    <2>9. CASE PutAside
      <3>1. /\ step' = "idle" /\ next' = next + 1 /\ next <= Len(topic)
            /\ behind' = behind \cup {Event.id}
        BY <1>0, <2>9 DEF PutAside
      <3>2. QED
        BY <1>0, <2>0, <3>1 DEF Unbound, Deletion, Event
    <2>10. CASE Restart
      <3>1. /\ step' = "idle" /\ next' \in 1..next /\ UNCHANGED behind
            /\ \A s \in ServiceId : binding'[s] \in {binding[s], NoGroup}
        BY <1>0, <2>0, <2>10 DEF Restart
      <3>2. QED
        BY <2>0, <3>1, UnboundAgain
    <2>11. QED
      BY <1>8, <2>2, <2>3, <2>5, <2>6, <2>7, <2>8, <2>9, <2>10 DEF Elsewhere
  <1>9. QED
    BY <1>1, <1>3, <1>4, <1>5, <1>6, <1>7, <1>8, OthersSplit

\* When the watcher has come to the end of the events, no service is bound to a
\* group that was deleted, but for events put aside and for services that somebody
\* bound to the group afterwards: whatever page or patch failed, and whatever was
\* gone through twice (sync-services.ts).
THEOREM UnboundCorrect == Spec => []DeletedGroupHasNoService
  <1> DEFINE I == ServicesInv /\ Unbound
  <1>1. Init => I
    <2> SUFFICES ASSUME Init PROVE I
      OBVIOUS
    <2>1. ServicesInv
      BY TypeInit, AnnouncedInit, ServicesInit DEF ServicesInv
    <2>2. Len(topic) = 0
      BY DEF Init
    <2>3. QED
      BY <2>1, <2>2 DEF Unbound
  <1>2. I /\ [Next]_vars => I'
    BY UnboundStep, TypeStep, AnnouncedStep, BegunStep, ThereStep, ChosenStep
       DEF ServicesInv
  <1>3. I => DeletedGroupHasNoService
    <2> SUFFICES ASSUME ServicesInv, Unbound, Drained,
                        NEW s \in ServiceId \ rebound, Deleted(binding[s])
                 PROVE  binding[s] \in behind \/ Kinded(binding[s], "other")
      BY DEF DeletedGroupHasNoService
    <2>1. /\ binding[s] \in Group /\ Len(topic) \in Nat /\ next \in Nat
          /\ binding[s] # NoGroup /\ binding[s] # Idle
      BY Markers DEF ServicesInv, TypeOK, Deleted
    <2>2. group[binding[s]] # NoItem /\ group[binding[s]].status = "DELETED"
      BY <2>1 DEF ServicesInv, There, Known, Deleted
    <2>3. PICK i \in 1..Len(topic) : Deletion(i, binding[s])
      BY <2>1, <2>2 DEF ServicesInv, Announced
    <2>4. i < next
      BY <2>1 DEF Drained
    <2>5. CASE topic[i].kind = "other"
      BY <2>2, <2>3, <2>5 DEF ServicesInv, Announced, Deletion, Kinded
    <2>6. CASE topic[i].kind # "other"
      BY <2>3, <2>4, <2>6 DEF Unbound
    <2>7. QED
      BY <2>5, <2>6
  <1> HIDE DEF I
  <1>4. QED
    BY <1>1, <1>2, <1>3, PTL DEF Spec

-----------------------------------------------------------------------------
(* The keys of the groups                                                   *)

\* Only groups that exist have a key, or are asked for one. A key that is cancelled
\* is that of a group whose deletion was announced.
Issued ==
  \A g \in Group :
    /\ group[g] = NoItem => subscription[g] = NoItem /\ asking[g] = Idle
    /\ subscription[g] # NoItem /\ subscription[g].state = "cancelled" =>
         \E i \in 1..Len(topic) : Deletion(i, g)

\* The steps that leave the keys alone.
KeysElsewhere ==
  \/ Selfcare \/ People \/ UNCHANGED vars
  \/ HandleGroupChangeEvent \/ SyncSubscription \/ FetchPage
  \/ GetOrCreateUser \/ CreateGroupUsers
  \/ UpdateNothing \/ PatchPage \/ PatchNothing \/ FailPatches \/ FailTask
  \/ PutAside \/ Restart

LEMMA KeysElsewhereLeavesKeys ==
  ASSUME KeysElsewhere
  PROVE  UNCHANGED <<subscription, asking>>
  BY SelfcareLeavesOthers DEF KeysElsewhere, keys, vars, People, Bind,
     BeginTransition, EndTransition, HandleGroupChangeEvent, SyncSubscription,
     FetchPage, GetOrCreateUser, CreateGroupUsers, UpdateNothing, PatchPage,
     PatchNothing, FailPatches, FailTask, PutAside, Restart

LEMMA KeysSplit ==
  ASSUME [Next]_vars
  PROVE  \/ KeysElsewhere
         \/ \E g \in Group : GetGroup(g) \/ UpsertKey(g) \/ DeleteKey(g)
         \/ CreateSubscription \/ UpdateSubscription
  BY DEF Next, Administrators, Tasks, Failures, KeysElsewhere

\* The key that the watcher writes is that of the event at hand.
LEMMA KeyWritten ==
  ASSUME ServicesInv, CreateSubscription \/ UpdateSubscription
  PROVE  /\ Event.id \in Group
         /\ \A g \in Group \ {Event.id} : subscription'[g] = subscription[g]
         /\ subscription'[Event.id] # NoItem
         /\ subscription'[Event.id].state = "cancelled" =>
              UpdateSubscription /\ Event.status = "DELETED"
         /\ UpdateSubscription => subscription'[Event.id] = KeyOf(Event.name, Event.status)
         /\ UpdateSubscription /\ Event.status = "DELETED" =>
              subscription'[Event.id].state = "cancelled"
         /\ UNCHANGED <<group, topic, asking>>
         /\ step # "idle"
  <1>1. step # "idle" /\ TypeOK
    BY DEF CreateSubscription, UpdateSubscription, Step, ServicesInv
  <1>2. /\ Event.id \in Group /\ Event.name \in Name /\ Event.status \in Status
        /\ subscription \in [Group -> Subscription \cup {NoItem}]
    BY <1>1, EventTyped DEF TypeOK
  <1>3. UNCHANGED <<group, topic, asking>>
    BY DEF CreateSubscription, UpdateSubscription, selfcare
  <1>4. CASE CreateSubscription
    <2>1. subscription' = [subscription EXCEPT ![Event.id] = KeyOf(Event.name, "ACTIVE")]
          /\ ~ UpdateSubscription
      BY <1>4 DEF CreateSubscription, UpdateSubscription, Step
    <2>2. /\ KeyOf(Event.name, "ACTIVE") # NoItem
          /\ KeyOf(Event.name, "ACTIVE").state # "cancelled"
      BY <1>2, KeyOfTyped, NoItemAssumption DEF Status
    <2>3. QED
      BY <1>1, <1>2, <1>3, <2>1, <2>2
  <1>5. CASE UpdateSubscription
    <2>1. subscription' = [subscription EXCEPT ![Event.id] = KeyOf(Event.name, Event.status)]
      BY <1>5 DEF UpdateSubscription
    <2>2. /\ KeyOf(Event.name, Event.status) # NoItem
          /\ KeyOf(Event.name, Event.status).state = "cancelled" <=> Event.status = "DELETED"
      BY <1>2, KeyOfTyped, NoItemAssumption
    <2>3. QED
      BY <1>1, <1>2, <1>3, <1>5, <2>1, <2>2
  <1>6. QED
    BY <1>4, <1>5

\* What the administrators write.
LEMMA KeyAsked ==
  ASSUME ServicesInv, Issued, NEW g \in Group, UpsertKey(g)
  PROVE  /\ group[g] # NoItem
         /\ subscription'[g] # NoItem
         /\ subscription'[g].state = "active"
         /\ \A h \in Group \ {g} : subscription'[h] = subscription[h] /\ asking'[h] = asking[h]
         /\ asking[g] # Idle /\ asking'[g] = Idle
         /\ UNCHANGED <<group, topic, next, step>>
         /\ behind' = IF ToCome(g) \/ subscription'[g] = KeyOf(group[g].name, group[g].status)
                      THEN behind ELSE behind \cup {g}
  <1>1. /\ subscription \in [Group -> Subscription \cup {NoItem}]
        /\ asking \in [Group -> Name \cup {Idle}]
    BY DEF ServicesInv, TypeOK
  <1>2. /\ subscription' = [subscription EXCEPT ![g] = KeyOf(asking[g], "ACTIVE")]
        /\ asking' = [asking EXCEPT ![g] = Idle]
        /\ asking[g] # Idle
        /\ UNCHANGED <<group, topic, next, step>>
    BY DEF UpsertKey, selfcare, watcher
  <1>3. asking[g] \in Name
    BY <1>1, <1>2
  <1>4. /\ KeyOf(asking[g], "ACTIVE") # NoItem
        /\ KeyOf(asking[g], "ACTIVE").state = "active"
    BY <1>3, KeyOfTyped, NoItemAssumption
       DEF Status, mapStateFromGroupToSubscription
  <1>5. group[g] # NoItem
    BY <1>2 DEF Issued
  <1>6. behind' = IF ToCome(g) \/ subscription'[g] = KeyOf(group[g].name, group[g].status)
                  THEN behind ELSE behind \cup {g}
    BY DEF UpsertKey
  <1> HIDE DEF ToCome
  <1>7. QED
    BY <1>1, <1>2, <1>4, <1>5, <1>6

LEMMA IssuedInit ==
  ASSUME Init
  PROVE  Issued
  <1>1. PICK old \in Group, kind \in Kind :
           /\ group = [g \in Group |-> IF g = old THEN New(kind) ELSE NoItem]
           /\ subscription \in [Group -> {NoItem, KeyOf(New(kind).name, "ACTIVE")}]
           /\ \A g \in Group \ {old} : subscription[g] = NoItem
    BY InitKnown
  <1>2. New(kind) # NoItem /\ New(kind).name \in Name
    BY NewTyped, NoItemAssumption DEF SelfcareGroup
  <1>3. KeyOf(New(kind).name, "ACTIVE").state # "cancelled"
    BY <1>2, KeyOfTyped DEF Status
  <1>4. \A g \in Group : asking[g] = Idle
    BY DEF Init
  <1>5. QED
    BY <1>1, <1>2, <1>3, <1>4 DEF Issued

LEMMA IssuedStep ==
  ASSUME ServicesInv, Issued, [Next]_vars
  PROVE  Issued'
  <1>0. /\ subscription \in [Group -> Subscription \cup {NoItem}]
        /\ asking \in [Group -> Name \cup {Idle}]
        /\ TypeOK
    BY DEF ServicesInv, TypeOK
  <1>1. /\ \A g \in Group : group[g] # NoItem => group'[g] # NoItem
        /\ \A g \in Group : (\E i \in 1..Len(topic) : Deletion(i, g)) =>
             (\E i \in 1..Len(topic) : Deletion(i, g))'
    BY <1>0, SelfcareOnlyGrows DEF Deletion
  <1> DEFINE Gone(g) == \E i \in 1..Len(topic) : Deletion(i, g)
  <1>2. \A g \in Group : Gone(g) => Gone(g)'
    BY <1>1
  <1>3. \A g \in Group :
          /\ group[g] = NoItem => subscription[g] = NoItem /\ asking[g] = Idle
          /\ subscription[g] # NoItem /\ subscription[g].state = "cancelled" => Gone(g)
    BY DEF Issued
  <1>4. SUFFICES ASSUME NEW g \in Group
                 PROVE  /\ group'[g] = NoItem => subscription'[g] = NoItem /\ asking'[g] = Idle
                        /\ subscription'[g] # NoItem
                           /\ subscription'[g].state = "cancelled" => Gone(g)'
    BY DEF Issued
  <1>5. ASSUME Event.id \in Group, Event.status = "DELETED", step # "idle"
        PROVE  Gone(Event.id)
    BY <1>0, <1>5, EventTyped DEF Deletion, Event
  <1> HIDE DEF Gone
  <1>6. CASE KeysElsewhere
    BY <1>1, <1>2, <1>3, <1>6, KeysElsewhereLeavesKeys
  <1>7. ASSUME NEW h \in Group, GetGroup(h)
        PROVE  /\ group'[g] = NoItem => subscription'[g] = NoItem /\ asking'[g] = Idle
               /\ subscription'[g] # NoItem
                  /\ subscription'[g].state = "cancelled" => Gone(g)'
    <2>1. /\ group[h] # NoItem
          /\ asking' = [asking EXCEPT ![h] = group[h].name]
          /\ subscription' = subscription
      BY <1>7 DEF GetGroup, Ordinary
    <2>2. QED
      BY <1>0, <1>1, <1>2, <1>3, <2>1
  <1>8. ASSUME NEW h \in Group, UpsertKey(h)
        PROVE  /\ group'[g] = NoItem => subscription'[g] = NoItem /\ asking'[g] = Idle
               /\ subscription'[g] # NoItem
                  /\ subscription'[g].state = "cancelled" => Gone(g)'
    <2>1. CASE g = h
      BY <1>1, <1>8, <2>1, KeyAsked
    <2>2. CASE g # h
      BY <1>1, <1>2, <1>3, <1>8, <2>2, KeyAsked
    <2>3. QED
      BY <2>1, <2>2
  <1>9. ASSUME NEW h \in Group, DeleteKey(h)
        PROVE  /\ group'[g] = NoItem => subscription'[g] = NoItem /\ asking'[g] = Idle
               /\ subscription'[g] # NoItem
                  /\ subscription'[g].state = "cancelled" => Gone(g)'
    <2>1. /\ subscription' = [subscription EXCEPT ![h] = NoItem]
          /\ asking' = asking
      BY <1>9 DEF DeleteKey
    <2>2. QED
      BY <1>0, <1>1, <1>2, <1>3, <2>1
  <1>10. CASE CreateSubscription \/ UpdateSubscription
    <2>1. CASE g # Event.id
      BY <1>1, <1>2, <1>3, <1>10, <2>1, KeyWritten
    <2>2. CASE g = Event.id
      <3>1. group[Event.id] # NoItem
        BY <1>0, <1>10, KeyWritten, EventTyped DEF ServicesInv, Announced, Event
      <3>2. subscription'[g].state = "cancelled" => Gone(g)
        BY <1>5, <1>10, <2>2, KeyWritten
      <3>3. QED
        BY <1>1, <1>2, <2>2, <3>1, <3>2
    <2>3. QED
      BY <2>1, <2>2
  <1>11. QED
    BY <1>6, <1>7, <1>8, <1>9, <1>10, KeysSplit

\* Once cancelled, a key works again only in the course of going through events a
\* second time, with the deletion still to come, or because an administrator asked
\* for a new one (sync-subscription.ts, create-manage-group-subscription.ts).
THEOREM CancelledCorrect == Spec => CancelledStaysCancelled
  <1> DEFINE I == ServicesInv /\ Issued
             Kept(g) ==
               IF subscription[g] = NoItem \/ subscription'[g] = NoItem THEN TRUE
               ELSE subscription[g].state = "cancelled" =>
                      \/ subscription'[g].state = "cancelled"
                      \/ asking[g] # Idle /\ asking'[g] = Idle
                      \/ \E i \in (next + 1)..Len(topic) :
                           topic[i].id = g /\ topic[i].status = "DELETED"
  <1>1. Init => I
    BY TypeInit, AnnouncedInit, ServicesInit, IssuedInit DEF ServicesInv
  <1>2. I /\ [Next]_vars => I'
    BY IssuedStep, TypeStep, AnnouncedStep, BegunStep, ThereStep, ChosenStep
       DEF ServicesInv
  <1>3. I /\ [Next]_vars => [\A g \in Group : Kept(g)]_vars
    <2> SUFFICES ASSUME ServicesInv, Issued, [Next]_vars, NEW g \in Group,
                        subscription[g] # NoItem, subscription'[g] # NoItem,
                        subscription[g].state = "cancelled",
                        subscription'[g].state # "cancelled"
                 PROVE  \/ asking[g] # Idle /\ asking'[g] = Idle
                        \/ \E i \in (next + 1)..Len(topic) :
                             topic[i].id = g /\ topic[i].status = "DELETED"
      OBVIOUS
    <2>0. TypeOK /\ Announced /\ Begun
          /\ subscription \in [Group -> Subscription \cup {NoItem}]
      BY DEF ServicesInv, TypeOK
    <2>1. CASE KeysElsewhere
      BY <2>1, KeysElsewhereLeavesKeys
    <2>2. ASSUME NEW h \in Group, GetGroup(h) \/ DeleteKey(h)
          PROVE  FALSE
      <3>1. subscription' = subscription \/ subscription' = [subscription EXCEPT ![h] = NoItem]
        BY <2>2 DEF GetGroup, DeleteKey
      <3>2. QED
        BY <2>0, <3>1
    <2>3. ASSUME NEW h \in Group, UpsertKey(h)
          PROVE  asking[g] # Idle /\ asking'[g] = Idle
      BY <2>3, KeyAsked
    <2>4. CASE CreateSubscription \/ UpdateSubscription
      <3>1. g = Event.id
        BY <2>4, KeyWritten
      <3>2. /\ next \in 1..Len(topic) /\ Len(topic) \in Nat /\ Event = topic[next]
        BY <2>0, <2>4, KeyWritten, EventTyped DEF Event
      <3>3. PICK i \in 1..Len(topic) : Deletion(i, g)
        BY DEF Issued
      <3>4. i # next
        <4>1. SUFFICES ASSUME Event.status = "DELETED" PROVE FALSE
          BY <3>2, <3>3 DEF Deletion
        <4>2. CASE CreateSubscription
          <5>1. Event.created
            BY <2>0, <4>2 DEF CreateSubscription, Step, Begun
          <5>2. QED
            BY <2>0, <3>2, <4>1, <5>1 DEF Announced
        <4>3. CASE UpdateSubscription
          BY <3>1, <4>1, <4>3, KeyWritten
        <4>4. QED
          BY <2>4, <4>2, <4>3
      <3>5. ~ (i < next)
        BY <2>0, <3>1, <3>2, <3>3, DeletionHolds DEF Deletion
      <3>6. i \in (next + 1)..Len(topic)
        BY <3>2, <3>4, <3>5
      <3>7. QED
        BY <3>3, <3>6 DEF Deletion
    <2>5. QED
      BY <2>1, <2>2, <2>3, <2>4, KeysSplit
  <1>4. Spec => [][\A g \in Group : Kept(g)]_vars
    <2> HIDE DEF I, Kept
    <2> QED
      BY <1>1, <1>2, <1>3, PTL DEF Spec
  <1>5. QED
    BY <1>4 DEF CancelledStaysCancelled

-----------------------------------------------------------------------------
(* The keys follow the groups                                               *)

\* The key that the group calls for.
Right(g) == IF subscription[g] = NoItem THEN group[g].kind # "aggregate"
            ELSE subscription[g] = KeyOf(group[g].name, group[g].status)

\* An event of g that has not been compared with the key yet.
Coming(g) ==
  \E i \in next..Len(topic) :
    topic[i].id = g /\ (i = next => step \notin {"services", "patch"})

\* An event that still has to make the key of g.
Creating(g) ==
  \E i \in next..Len(topic) :
    /\ topic[i].id = g /\ topic[i].created
    /\ i = next => step \in {"idle", "user", "groups", "subscribe"}

\* The key of a group is right unless an event of the group is to come, and that of
\* a group of an aggregate is missing only until the event that makes it.
Follows(g) ==
  g \notin behind /\ group[g] # NoItem =>
    /\ group[g].kind = "other" \/ Coming(g) \/ Right(g)
    /\ group[g].kind = "aggregate" /\ subscription[g] = NoItem => Creating(g)

Keyed == \A g \in Group : Follows(g)

KeysInv == ServicesInv /\ Issued /\ Keyed

LEMMA KeysInvKnown ==
  ASSUME ServicesInv
  PROVE  /\ TypeOK /\ Announced /\ Begun
         /\ next \in Nat /\ checkpoint \in 1..next /\ Len(topic) \in Nat
         /\ next <= Len(topic) + 1
         /\ step # "idle" => next \in 1..Len(topic)
         /\ next <= Len(topic) =>
              next \in 1..Len(topic) /\ Event = topic[next] /\ Event.id \in Group
  <1>1. TypeOK /\ Announced /\ Begun
    BY DEF ServicesInv
  <1>2. /\ next \in Nat /\ checkpoint \in 1..next /\ Len(topic) \in Nat
        /\ next <= Len(topic) + 1
        /\ step # "idle" => next \in 1..Len(topic)
    BY <1>1 DEF TypeOK
  <1>3. QED
    BY <1>1, <1>2, EventTyped DEF Event

\* The key of g is left as it is, and the watcher, if it moves, stays before the
\* events of g that it was before.
LEMMA FollowsUnmoved ==
  ASSUME NEW g \in Group, Follows(g),
         UNCHANGED <<group, topic>>, subscription'[g] = subscription[g],
         g \in behind => g \in behind',
         Coming(g) => Coming(g)',
         group[g].kind = "aggregate" /\ Creating(g) => Creating(g)'
  PROVE  Follows(g)'
  <1>1. Right(g)' <=> Right(g)
    BY DEF Right, KeyOf, mapStateFromGroupToSubscription
  <1> HIDE DEF Right, Coming, Creating
  <1>2. QED
    BY <1>1 DEF Follows

\* A group has changed.
LEMMA KeyedSelfcare ==
  ASSUME KeysInv, Selfcare
  PROVE  Keyed'
  <1>0. ServicesInv /\ Keyed
    BY DEF KeysInv
  <1>1. PICK h \in Group, e \in GroupChangeEvent : Changed(h, e)
    BY <1>0, SelfcareChanges, KeysInvKnown
  <1>2. /\ Len(topic') = Len(topic) + 1
        /\ \A i \in 1..Len(topic) : topic'[i] = topic[i]
        /\ topic'[Len(topic) + 1] = e
        /\ \A g \in Group \ {h} : group'[g] = group[g]
    BY <1>0, <1>1, Appended, KeysInvKnown
  <1>3. UNCHANGED <<next, step, subscription, behind>>
    BY SelfcareLeavesOthers DEF watcher, keys
  <1>4. /\ next \in Nat /\ Len(topic) \in Nat /\ next <= Len(topic) + 1
        /\ next = Len(topic) + 1 => step = "idle"
        /\ next >= 1
    BY <1>0, KeysInvKnown
  <1>5. SUFFICES ASSUME NEW g \in Group
                 PROVE  Follows(g)'
    BY DEF Keyed
  <1>6. Follows(g)
    BY <1>0 DEF Keyed
  <1>7. (Coming(g) => Coming(g)') /\ (Creating(g) => Creating(g)')
    BY <1>2, <1>3, <1>4 DEF Coming, Creating
  <1>8. CASE g = h
    <2>1. Coming(g)'
      <3>1. Len(topic) + 1 \in next..(Len(topic) + 1)
        BY <1>4
      <3>2. topic'[Len(topic) + 1].id = g
        BY <1>1, <1>2, <1>8 DEF Changed
      <3>3. Len(topic) + 1 = next' => step' \notin {"services", "patch"}
        BY <1>3, <1>4
      <3>4. QED
        BY <1>2, <1>3, <3>1, <3>2, <3>3 DEF Coming
    <2>2. CASE group[g] = NoItem
      <3>1. Creating(g)'
        <4>1. Len(topic) + 1 \in next..(Len(topic) + 1)
          BY <1>4
        <4>0. e.id = g /\ (e.created <=> group[g] = NoItem)
          BY <1>1, <1>8 DEF Changed
        <4>2. topic'[Len(topic) + 1].id = g /\ topic'[Len(topic) + 1].created
          BY <1>2, <2>2, <4>0
        <4>3. QED
          BY <1>2, <1>3, <1>4, <4>1, <4>2 DEF Creating
      <3>2. QED
        BY <2>1, <3>1 DEF Follows
    <2>3. CASE group[g] # NoItem
      <3>1. group'[g].kind = group[g].kind
        BY <1>1, <1>8, <2>3 DEF Changed
      <3>2. group[g].kind = "aggregate" /\ subscription[g] = NoItem /\ g \notin behind
              => Creating(g)
        BY <1>6, <2>3 DEF Follows
      <3> HIDE DEF Coming, Creating
      <3>3. QED
        BY <1>3, <1>7, <2>1, <3>1, <3>2 DEF Follows
    <2>4. QED
      BY <2>2, <2>3
  <1>9. CASE g # h
    <2>1. group'[g] = group[g]
      BY <1>2, <1>9
    <2>2. Right(g)' <=> Right(g)
      BY <1>3, <2>1 DEF Right, KeyOf, mapStateFromGroupToSubscription
    <2> HIDE DEF Right, Coming, Creating
    <2>3. QED
      BY <1>3, <1>6, <1>7, <2>1, <2>2 DEF Follows
  <1>10. QED
    BY <1>8, <1>9

\* An administrator has made or deleted a key.
LEMMA KeyedAdministrators ==
  ASSUME KeysInv, NEW h \in Group, GetGroup(h) \/ UpsertKey(h) \/ DeleteKey(h)
  PROVE  Keyed'
  <1>0. /\ ServicesInv /\ Issued /\ Keyed
        /\ subscription \in [Group -> Subscription \cup {NoItem}]
        /\ next \in Nat /\ Len(topic) \in Nat
    BY DEF KeysInv, ServicesInv, TypeOK
  <1>1. UNCHANGED <<group, topic, next, step>>
    BY DEF GetGroup, UpsertKey, DeleteKey, selfcare, watcher
  <1>2. SUFFICES ASSUME NEW g \in Group
                 PROVE  Follows(g)'
    BY DEF Keyed
  <1>3. Follows(g)
    BY <1>0 DEF Keyed
  <1>4. (Coming(g)' <=> Coming(g)) /\ (Creating(g)' <=> Creating(g))
    BY <1>1 DEF Coming, Creating
  <1>5. behind \subseteq behind'
    BY DEF GetGroup, UpsertKey, DeleteKey
  <1>6. CASE subscription'[g] = subscription[g]
    BY <1>1, <1>3, <1>4, <1>5, <1>6, FollowsUnmoved
  <1>7. CASE subscription'[g] # subscription[g]
    <2>1. CASE UpsertKey(h)
      <3>1. g = h
        BY <1>0, <1>7, <2>1, KeyAsked
      <3>2. /\ subscription'[g] # NoItem
            /\ behind' = IF ToCome(g) \/ subscription'[g] = KeyOf(group[g].name, group[g].status)
                         THEN behind ELSE behind \cup {g}
        BY <1>0, <2>1, <3>1, KeyAsked
      <3>3. ToCome(g) => Coming(g)'
        BY <1>1 DEF ToCome, Coming
      <3>4. subscription'[g] = KeyOf(group[g].name, group[g].status) => Right(g)'
        BY <1>1, <3>2 DEF Right, KeyOf, mapStateFromGroupToSubscription
      <3> HIDE DEF Right, Coming, Creating
      <3>5. QED
        BY <3>2, <3>3, <3>4 DEF Follows
    <2>2. CASE DeleteKey(h)
      <3>1. /\ subscription' = [subscription EXCEPT ![h] = NoItem]
            /\ Ordinary(h)
        BY <2>2 DEF DeleteKey
      <3>2. g = h /\ subscription'[g] = NoItem /\ group'[g].kind # "aggregate"
        BY <1>0, <1>1, <1>7, <3>1 DEF Ordinary
      <3>3. Right(g)'
        BY <3>2 DEF Right
      <3>4. QED
        BY <3>2, <3>3 DEF Follows
    <2>3. CASE GetGroup(h)
      BY <1>7, <2>3 DEF GetGroup
    <2>4. QED
      BY <2>1, <2>2, <2>3
  <1>8. QED
    BY <1>6, <1>7

\* An event of g after the one at hand.
Later(g) == \E i \in (next + 1)..Len(topic) : topic[i].id = g
CreatedLater(g) == \E i \in (next + 1)..Len(topic) : topic[i].id = g /\ topic[i].created

\* A key that is the one of the event at hand is right, unless another event of the
\* group comes after it.
LEMMA KeyMatches ==
  ASSUME ServicesInv, NEW g \in Group, step # "idle", g = Event.id,
         subscription'[g] # NoItem,
         subscription'[g] = KeyOf(Event.name, Event.status),
         UNCHANGED <<group, topic>>
  PROVE  Later(g) \/ Right(g)'
  <1>1. /\ next \in 1..Len(topic) /\ Event = topic[next] /\ Announced
        /\ Len(topic) \in Nat
    BY KeysInvKnown DEF Event
  <1>2. CASE IsLast(next)
    <2>1. Event.name = group[g].name /\ Event.status = group[g].status
      BY <1>1, <1>2 DEF Announced
    <2>2. QED
      BY <2>1 DEF Right, KeyOf, mapStateFromGroupToSubscription
  <1>3. CASE ~ IsLast(next)
    BY <1>1, <1>3 DEF IsLast, Later
  <1>4. QED
    BY <1>2, <1>3

\* The watcher is done with comparing the event at hand with the key of its group.
LEMMA KeyedPast ==
  ASSUME ServicesInv, Keyed, UNCHANGED <<group, topic>>,
         next <= Len(topic), NEW e \in Group, e = Event.id,
         \A g \in Group \ {e} : /\ subscription'[g] = subscription[g]
                                /\ g \in behind => g \in behind',
         \/ next' = next /\ step' = "services"
         \/ next' = next + 1 /\ step' = "idle",
         e \notin behind' /\ group[e] # NoItem =>
           /\ group[e].kind = "other" \/ Later(e) \/ Right(e)'
           /\ group[e].kind = "aggregate" /\ subscription'[e] = NoItem => CreatedLater(e)
  PROVE  Keyed'
  <1>1. next \in 1..Len(topic) /\ topic[next].id = e /\ Len(topic) \in Nat
    BY KeysInvKnown
  <1>2. \A g \in Group : (Later(g) => Coming(g)') /\ (CreatedLater(g) => Creating(g)')
    BY <1>1 DEF Later, CreatedLater, Coming, Creating
  <1>3. Follows(e)'
    <2>1. UNCHANGED group
      OBVIOUS
    <2> HIDE DEF Right, Coming, Creating, Later, CreatedLater
    <2>2. QED
      BY <1>2, <2>1 DEF Follows
  <1>4. ASSUME NEW g \in Group, g # e
        PROVE  Follows(g)'
    <2>1. (Coming(g) => Later(g)) /\ (Creating(g) => CreatedLater(g))
      BY <1>1, <1>4 DEF Later, CreatedLater, Coming, Creating
    <2>2. Follows(g)
      BY DEF Keyed
    <2> HIDE DEF Right, Coming, Creating, Later, CreatedLater
    <2>3. QED
      BY <1>2, <1>4, <2>1, <2>2, FollowsUnmoved
  <1>5. QED
    BY <1>3, <1>4 DEF Keyed

\* The watcher goes on with the same event.
LEMMA KeyedStays ==
  ASSUME ServicesInv, Keyed, UNCHANGED <<group, topic, subscription, behind, next>>,
         step \in {"services", "patch"} \/ step' \notin {"services", "patch"},
         \/ step \notin {"idle", "user", "groups", "subscribe"}
         \/ step' \in {"idle", "user", "groups", "subscribe"}
         \/ next <= Len(topic) => ~ shouldCreateManageGroupSubscription(Event)
  PROVE  Keyed'
  <1>1. SUFFICES ASSUME NEW g \in Group
                 PROVE  Follows(g)'
    BY DEF Keyed
  <1>2. Follows(g) /\ Announced /\ Len(topic) \in Nat
    BY KeysInvKnown DEF Keyed
  <1>3. Coming(g) => Coming(g)'
    BY DEF Coming
  <1>4. ASSUME group[g].kind = "aggregate", Creating(g)
        PROVE  Creating(g)'
    <2>1. PICK i \in next..Len(topic) :
            /\ topic[i].id = g /\ topic[i].created
            /\ i = next => step \in {"idle", "user", "groups", "subscribe"}
      BY <1>4 DEF Creating
    <2>2. CASE i = next
      <3>1. next \in 1..Len(topic) /\ Event = topic[next]
        BY <1>2, <2>2, KeysInvKnown
      <3>2. Event.kind = "aggregate" /\ Event.created
        BY <1>2, <1>4, <2>1, <2>2, <3>1 DEF Announced
      <3>3. step' \in {"idle", "user", "groups", "subscribe"}
        BY <2>1, <2>2, <3>1, <3>2 DEF shouldCreateManageGroupSubscription
      <3>4. QED
        BY <2>1, <3>3 DEF Creating
    <2>3. CASE i # next
      BY <2>1, <2>3 DEF Creating
    <2>4. QED
      BY <2>2, <2>3
  <1> HIDE DEF Coming, Creating
  <1>5. QED
    BY <1>2, <1>3, <1>4, FollowsUnmoved

\* The watcher starts on the event at hand again, or on one before it.
LEMMA KeyedAgain ==
  ASSUME ServicesInv, Keyed, UNCHANGED <<group, topic, subscription, behind>>,
         step' = "idle", next' \in 1..next
  PROVE  Keyed'
  <1>1. next \in Nat /\ Len(topic) \in Nat
    BY KeysInvKnown
  <1>2. SUFFICES ASSUME NEW g \in Group
                 PROVE  Follows(g)'
    BY DEF Keyed
  <1>3. Follows(g)
    BY DEF Keyed
  <1>4. (Coming(g) => Coming(g)') /\ (Creating(g) => Creating(g)')
    BY <1>1 DEF Coming, Creating
  <1> HIDE DEF Coming, Creating
  <1>5. QED
    BY <1>3, <1>4, FollowsUnmoved

LEMMA KeyedStep ==
  ASSUME KeysInv, [Next]_vars
  PROVE  Keyed'
  <1>0. /\ ServicesInv /\ Keyed /\ TypeOK /\ Announced
        /\ subscription \in [Group -> Subscription \cup {NoItem}]
        /\ next \in Nat /\ checkpoint \in 1..next /\ Len(topic) \in Nat
        /\ step # "idle" => next \in 1..Len(topic) /\ Event = topic[next]
        /\ next <= Len(topic) => Event.id \in Group
    BY KeysInvKnown DEF KeysInv, TypeOK, Event
  <1>1. CASE Selfcare
    BY <1>1, KeyedSelfcare
  <1>2. CASE Administrators
    BY <1>2, KeyedAdministrators DEF Administrators
  <1>3. CASE People \/ UNCHANGED vars
    <2>1. UNCHANGED <<group, topic, subscription, behind, next, step>>
      BY <1>3 DEF People, vars, selfcare, keys, watcher, Bind, BeginTransition, EndTransition
    <2>2. QED
      BY <2>1 DEF Keyed, Follows, Right, Coming, Creating, KeyOf,
                   mapStateFromGroupToSubscription, KeysInv
  <1> DEFINE e == Event.id
  <1>4. CASE HandleGroupChangeEvent
    <2>1. UNCHANGED <<group, topic, subscription>> /\ next <= Len(topic) /\ step = "idle"
          /\ Event = topic[next] /\ next \in 1..Len(topic)
      BY <1>0, <1>4, KeysInvKnown DEF HandleGroupChangeEvent, selfcare, keys
    <2>2. CASE Event.kind = "other"
      <3>1. /\ next' = next + 1 /\ step' = "idle"
            /\ behind \ {e} \subseteq behind'
        BY <1>4, <2>2 DEF HandleGroupChangeEvent, Done
      <3>2. group[e].kind = "other"
        BY <1>0, <2>1, <2>2 DEF Announced
      <3> HIDE DEF e
      <3>3. PICK id \in Group : id = e
        BY <1>0, <2>1 DEF e
      <3>4. QED
        BY <1>0, <2>1, <3>1, <3>2, <3>3, KeyedPast DEF e
    <2>3. CASE Event.kind # "other"
      <3>1. /\ UNCHANGED <<next, behind>>
            /\ step' = IF shouldCreateManageGroupSubscription(Event) THEN "user" ELSE "sync"
        BY <1>4, <2>3 DEF HandleGroupChangeEvent
      <3>2. QED
        BY <1>0, <2>1, <3>1, KeyedStays
    <2>4. QED
      BY <2>2, <2>3
  <1>5. CASE GetOrCreateUser \/ CreateGroupUsers \/ PatchPage
    <2>1. UNCHANGED <<group, topic, subscription, behind, next>>
      BY <1>5 DEF GetOrCreateUser, CreateGroupUsers, PatchPage, selfcare, keys
    <2>2. \/ step' \in {"groups", "subscribe"}
          \/ step = "patch" /\ step' = "services"
      BY <1>5 DEF GetOrCreateUser, CreateGroupUsers, PatchPage, Step
    <2>3. QED
      BY <1>0, <2>1, <2>2, KeyedStays
  <1>6. CASE CreateSubscription
    <2>1. /\ step = "subscribe" /\ step' = "sync"
          /\ UNCHANGED <<group, topic, next, behind>>
      BY <1>6 DEF CreateSubscription, Step, selfcare
    <2>2. /\ e \in Group /\ subscription'[e] # NoItem
          /\ \A g \in Group \ {e} : subscription'[g] = subscription[g]
      BY <1>0, <1>6, KeyWritten
    <2>3. next \in 1..Len(topic) /\ topic[next].id = e
      BY <1>0, <2>1
    <2> HIDE DEF e
    <2>4. SUFFICES ASSUME NEW g \in Group
                   PROVE  Follows(g)'
      BY DEF Keyed
    <2>5. Follows(g)
      BY <1>0 DEF Keyed
    <2>6. CASE g = e
      <3>1. Coming(g)'
        BY <2>1, <2>3, <2>6 DEF Coming
      <3>2. QED
        BY <2>2, <2>6, <3>1 DEF Follows
    <2>7. CASE g # e
      <3>1. (Coming(g) => Coming(g)') /\ (Creating(g) => Creating(g)')
        BY <2>1, <2>3, <2>7 DEF Coming, Creating
      <3> HIDE DEF Coming, Creating
      <3>2. QED
        BY <2>1, <2>2, <2>5, <2>7, <3>1, FollowsUnmoved
    <2>8. QED
      BY <2>6, <2>7
  <1>7. CASE SyncSubscription
    <2>1. /\ step = "sync" /\ UNCHANGED <<group, topic, subscription>>
      BY <1>7 DEF SyncSubscription, selfcare, keys
    <2> DEFINE key == subscription[Event.id]
               update == IF key = NoItem THEN FALSE ELSE shouldUpdateSubscription(key, Event)
    <2>2. CASE update
      <3>1. step' = "update" /\ UNCHANGED <<next, behind>>
        BY <1>7, <2>2 DEF SyncSubscription
      <3>2. QED
        BY <1>0, <2>1, <3>1, KeyedStays
    <2>3. CASE ~ update
      <3>1. GoOn(key)
        BY <1>7, <2>3 DEF SyncSubscription
      <3>2. PICK id \in Group : id = Event.id
        BY <1>0, <2>1
      <3>3. /\ Event.name \in Name /\ Event.status \in Status
            /\ KeyOf(Event.name, Event.status) \in Subscription
            /\ KeyOf(Event.name, Event.status) # NoItem
        BY <1>0, <2>1, EventTyped, KeyOfTyped, NoItemAssumption
      <3>4. /\ \/ next' = next /\ step' = "services" /\ behind' = behind
               \/ next' = next + 1 /\ step' = "idle"
            /\ \/ behind' = behind
               \/ key = KeyOf(Event.name, Event.status) /\ behind' = behind \ {id}
        <4> HIDE DEF key
        <4>1. CASE Done(key)
          BY <3>2, <4>1 DEF Done
        <4>2. CASE step' = "services" /\ UNCHANGED <<next, behind>>
          BY <4>2
        <4>3. QED
          BY <3>1, <4>1, <4>2 DEF GoOn
      <3>5. key # NoItem => key = KeyOf(Event.name, Event.status)
        <4>1. SUFFICES ASSUME key # NoItem
                       PROVE  key = KeyOf(Event.name, Event.status)
          OBVIOUS
        <4>2. key \in Subscription
          BY <1>0, <3>2, <4>1
        <4>3. /\ key.name = Event.name
              /\ key.state = mapStateFromGroupToSubscription(Event.status)
          BY <2>3, <4>1 DEF shouldUpdateSubscription
        <4>4. QED
          BY <4>2, <4>3 DEF Subscription, KeyOf
      <3>6. ASSUME id \notin behind', group[id] # NoItem
            PROVE  /\ group[id].kind = "other" \/ Later(id) \/ Right(id)'
                   /\ group[id].kind = "aggregate" /\ subscription'[id] = NoItem =>
                        CreatedLater(id)
        <4>1. CASE key # NoItem
          BY <1>0, <2>1, <3>2, <3>5, <4>1, KeyMatches
        <4>2. CASE key = NoItem
          <5>1. id \notin behind
            BY <3>3, <3>4, <3>6, <4>2
          <5>2. group[id].kind = "aggregate" => Creating(id)
            BY <1>0, <3>2, <3>6, <4>2, <5>1 DEF Keyed, Follows
          <5>3. Creating(id) => CreatedLater(id) /\ Later(id)
            BY <1>0, <2>1 DEF Creating, CreatedLater, Later
          <5>4. group[id].kind # "aggregate" => Right(id)'
            BY <2>1, <3>2, <4>2 DEF Right
          <5> HIDE DEF Right, Creating, CreatedLater, Later
          <5>5. QED
            BY <5>2, <5>3, <5>4
        <4>3. QED
          BY <4>1, <4>2
      <3>7. next <= Len(topic)
        BY <1>0, <2>1
      <3> HIDE DEF update, key, Right, CreatedLater, Later
      <3>8. QED
        BY <1>0, <2>1, <3>2, <3>4, <3>6, <3>7, KeyedPast
    <2>4. QED
      BY <2>2, <2>3
  <1>8. CASE UpdateSubscription
    <2>1. PICK id \in Group : id = Event.id
      BY <1>0, <1>8, KeyWritten
    <2>2. /\ \A g \in Group \ {id} : subscription'[g] = subscription[g]
          /\ subscription'[id] # NoItem
          /\ subscription'[id] = KeyOf(Event.name, Event.status)
          /\ UNCHANGED <<group, topic>>
          /\ step # "idle"
      BY <1>0, <1>8, <2>1, KeyWritten
    <2>3. /\ \/ next' = next /\ step' = "services" /\ behind' = behind
             \/ next' = next + 1 /\ step' = "idle"
          /\ behind \ {id} \subseteq behind'
      BY <1>8, <2>1 DEF UpdateSubscription, GoOn, Done
    <2>4. Later(id) \/ Right(id)'
      BY <1>0, <2>1, <2>2, KeyMatches
    <2>5. next <= Len(topic)
      BY <1>0, <2>2
    <2> HIDE DEF Right, CreatedLater, Later
    <2>6. QED
      BY <1>0, <2>1, <2>2, <2>3, <2>4, <2>5, KeyedPast
  <1>9. CASE FetchPage
    <2>1. step = "services" /\ UNCHANGED <<group, topic, subscription>>
      BY <1>9 DEF FetchPage, selfcare, keys
    <2>2. CASE todo # {}
      <3>1. step' = "patch" /\ UNCHANGED <<next, behind>>
        BY <1>9, <2>2 DEF FetchPage
      <3>2. QED
        BY <1>0, <2>1, <3>1, KeyedStays
    <2>3. CASE todo = {}
      <3>1. PICK id \in Group : id = Event.id
        BY <1>0, <2>1
      <3>2. /\ next' = next + 1 /\ step' = "idle"
            /\ \/ behind' = behind
               \/ /\ behind' = behind \ {id}
                  /\ subscription[id] = KeyOf(Event.name, Event.status)
        BY <1>9, <2>3, <3>1 DEF FetchPage, Done
      <3>3. KeyOf(Event.name, Event.status) # NoItem
        BY <1>0, <2>1, EventTyped, KeyOfTyped, NoItemAssumption
      <3>4. ASSUME id \notin behind', group[id] # NoItem
            PROVE  /\ group[id].kind = "other" \/ Later(id) \/ Right(id)'
                   /\ group[id].kind = "aggregate" /\ subscription'[id] = NoItem =>
                        CreatedLater(id)
        <4>1. CASE id \in behind
          BY <1>0, <2>1, <3>1, <3>2, <3>3, <3>4, <4>1, KeyMatches
        <4>2. CASE id \notin behind
          <5>1. Follows(id)
            BY <1>0 DEF Keyed
          <5>2. (Coming(id) => Later(id)) /\ (Creating(id) => CreatedLater(id))
            BY <1>0, <2>1 DEF Coming, Creating, Later, CreatedLater
          <5>3. Right(id) => Right(id)'
            BY <2>1 DEF Right, KeyOf, mapStateFromGroupToSubscription
          <5> HIDE DEF Right, Coming, Creating, CreatedLater, Later
          <5>4. QED
            BY <2>1, <3>4, <4>2, <5>1, <5>2, <5>3 DEF Follows
        <4>3. QED
          BY <4>1, <4>2
      <3>5. next <= Len(topic)
        BY <1>0, <2>1
      <3> HIDE DEF Right, CreatedLater, Later
      <3>6. QED
        BY <1>0, <2>1, <3>1, <3>2, <3>4, <3>5, KeyedPast
    <2>4. QED
      BY <2>2, <2>3
  <1>10. CASE UpdateNothing \/ PatchNothing \/ FailPatches \/ FailTask \/ Restart
    <2>1. UNCHANGED <<group, topic, subscription, behind>> /\ step' = "idle"
          /\ next' \in {next, checkpoint}
      BY <1>10 DEF UpdateNothing, PatchNothing, FailPatches, FailTask, Restart, Retry,
                    selfcare, keys
    <2>2. next' \in 1..next
      BY <1>0, <2>1
    <2>3. QED
      BY <1>0, <2>1, <2>2, KeyedAgain
  <1>11. CASE PutAside
    <2>1. /\ step' = "idle" /\ next' = next + 1 /\ step # "idle"
          /\ behind' = behind \cup {Event.id}
          /\ UNCHANGED <<group, topic, subscription>>
      BY <1>11 DEF PutAside, selfcare, keys
    <2>2. PICK id \in Group : id = Event.id
      BY <1>0, <2>1
    <2>3. next <= Len(topic) /\ id \in behind'
      BY <1>0, <2>1, <2>2
    <2>4. QED
      BY <1>0, <2>1, <2>2, <2>3, KeyedPast
  <1>12. QED
    BY <1>1, <1>2, <1>3, <1>4, <1>5, <1>6, <1>7, <1>8, <1>9, <1>10, <1>11
       DEF Next, Tasks, Failures

LEMMA KeyedInit ==
  ASSUME Init
  PROVE  Keyed
  <1>1. PICK old \in Group, kind \in Kind :
           /\ group = [g \in Group |-> IF g = old THEN New(kind) ELSE NoItem]
           /\ subscription \in [Group -> {NoItem, KeyOf(New(kind).name, "ACTIVE")}]
           /\ kind = "aggregate" => subscription[old] # NoItem
    BY InitKnown
  <1>2. New(kind).kind = kind /\ New(kind).status = "ACTIVE"
    BY DEF New
  <1>3. SUFFICES ASSUME NEW g \in Group, group[g] # NoItem
                 PROVE  Right(g) /\ (group[g].kind = "aggregate" => subscription[g] # NoItem)
    <2> HIDE DEF Right, Coming, Creating
    <2> QED
      BY DEF Keyed, Follows
  <1>4. g = old /\ group[g] = New(kind)
    BY <1>1, <1>3
  <1>5. QED
    BY <1>1, <1>2, <1>4 DEF Right

\* When the watcher has come to the end of the events, the key of every group is the
\* one that its name and its status call for, and every group of an aggregate has
\* one, whatever was tried again, gone through twice, or made and deleted by
\* administrators meanwhile: but for events that were put aside and keys that were
\* made when no event was to come (sync-subscription.ts,
\* create-manage-group-subscription.ts, lib/be/subscriptions/business.ts).
THEOREM KeysCorrect == Spec => []KeysFollowGroups
  <1>1. Init => KeysInv
    BY TypeInit, AnnouncedInit, ServicesInit, IssuedInit, KeyedInit
       DEF ServicesInv, KeysInv
  <1>2. KeysInv /\ [Next]_vars => KeysInv'
    <2> SUFFICES ASSUME KeysInv, [Next]_vars PROVE KeysInv'
      OBVIOUS
    <2>1. ServicesInv'
      BY TypeStep, AnnouncedStep, BegunStep, ThereStep, ChosenStep
         DEF ServicesInv, KeysInv
    <2>2. Issued' /\ Keyed'
      BY IssuedStep, KeyedStep DEF KeysInv
    <2>3. QED
      BY <2>1, <2>2 DEF KeysInv
  <1>3. KeysInv => KeysFollowGroups
    <2> SUFFICES ASSUME KeysInv, Drained, NEW g \in Group \ behind
                 PROVE  IF subscription[g] = NoItem THEN ~ Kinded(g, "aggregate")
                        ELSE \/ Kinded(g, "other")
                             \/ subscription[g] = KeyOf(group[g].name, group[g].status)
      BY DEF KeysFollowGroups
    <2>1. /\ next \in Nat /\ Len(topic) \in Nat /\ next > Len(topic)
          /\ Follows(g)
      BY KeysInvKnown DEF KeysInv, Keyed, Drained
    <2>2. ~ Coming(g) /\ ~ Creating(g)
      BY <2>1 DEF Coming, Creating
    <2>3. CASE group[g] = NoItem
      BY <2>3 DEF Kinded, KeysInv, Issued
    <2>4. CASE group[g] # NoItem
      <3>1. /\ group[g].kind = "other" \/ Right(g)
            /\ group[g].kind = "aggregate" => subscription[g] # NoItem
        BY <2>1, <2>2, <2>4 DEF Follows
      <3>2. QED
        BY <2>4, <3>1 DEF Right, Kinded
    <2>5. QED
      BY <2>3, <2>4
  <1>4. QED
    BY <1>1, <1>2, <1>3, PTL DEF Spec
===============================================================================
