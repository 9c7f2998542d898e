------------------------------ MODULE GroupSync ------------------------------
(***************************************************************************)
(* The groups of an institution: the key of each group in the API manager, *)
(* and the services bound to it.                                           *)
(*                                                                         *)
(* Self-care sends an event for every change of a group. The watcher takes *)
(* them one at a time (on-selfcare-group-change.ts) and runs three tasks   *)
(* in turn (utils/selfcare-group-change): it creates the manage            *)
(* subscription of the group, it brings the subscription to the name and   *)
(* the state of the group, and it unbinds the services of a group that was *)
(* deleted. An event that fails is tried again and then put aside in a     *)
(* queue that nothing reads. When an instance stops, the events since the  *)
(* last checkpoint come again. Meanwhile people bind services to groups,   *)
(* transitions of a service write back the group they have read, and the   *)
(* administrators create and delete the keys of the other groups           *)
(* (apps/backoffice, lib/be/subscriptions).                                *)
(***************************************************************************)
EXTENDS Naturals, Sequences

CONSTANTS
  Group, ServiceId,
  NoItem, NoGroup, Idle,
  Name,          \* of groups
  MaxEvent,      \* bound: changes of groups
  MaxEdit,       \* bound: changes of services, and of keys by administrators
  MaxFault       \* bound: failures and restarts

ASSUME Markers == NoGroup \notin Group /\ Idle \notin Group \cup {NoGroup}
ASSUME GroupAssumption == Group # {} /\ Name # {}
ASSUME BoundAssumption == MaxEvent \in Nat /\ MaxEdit \in Nat /\ MaxFault \in Nat

VARIABLES
  group,         \* self-care
  topic,         \* its events, in order
  next, checkpoint,   \* the event the watcher is at, where it would start again
  step,          \* what it does next with that event
  todo, page,    \* services the query has not returned yet, those it returned
  user,          \* the institution's user: "none", "bare" (no user groups), "full"
  subscription,  \* the keys of the groups
  asking,        \* what an administrator who creates a key has read of the group
  binding,       \* group_id of each service
  transition,    \* the group that a transition of the service has read
  edits, faults,
  behind,        \* groups with an event put aside, or a key made too late, and no
                 \* event handled since
  choice,        \* history: the group people chose for each service
  crossed,       \* history: services written between the read and the write of
                 \* somebody else
  rebound        \* history: services bound to a group after it was deleted

selfcare == <<group, topic>>
watcher == <<next, checkpoint, step, todo, page>>
keys == <<user, subscription, asking>>
services == <<binding, transition, edits, choice, rebound>>
vars == <<selfcare, watcher, keys, services, faults, behind, crossed>>

Status == {"ACTIVE", "SUSPENDED", "DELETED"}

\* The groups of an aggregate get a subscription when they are created; others
\* do not; those of other products are ignored.
Kind == {"aggregate", "plain", "other"}

SelfcareGroup == [name : Name, status : Status, kind : Kind]

GroupChangeEvent == [id : Group, name : Name, status : Status, kind : Kind,
                     created : BOOLEAN]

Subscription == [name : Name, state : {"active", "suspended", "cancelled"}]

ASSUME NoItemAssumption == NoItem \notin SelfcareGroup \cup Subscription

mapStateFromGroupToSubscription(status) ==
  CASE status = "ACTIVE" -> "active"
    [] status = "SUSPENDED" -> "suspended"
    [] status = "DELETED" -> "cancelled"

-----------------------------------------------------------------------------
(* Self-care                                                                *)

Announce(g, created) ==
  topic' = Append(topic, [id |-> g, name |-> group'[g].name,
                          status |-> group'[g].status, kind |-> group'[g].kind,
                          created |-> created])

\* Names only matter when they change: one is enough at first.
New(kind) == [name |-> CHOOSE name \in Name : TRUE, status |-> "ACTIVE", kind |-> kind]

CreateGroup(g) ==
  /\ Len(topic) < MaxEvent
  /\ group[g] = NoItem
  /\ \E kind \in Kind : group' = [group EXCEPT ![g] = New(kind)]
  /\ Announce(g, TRUE)
  /\ UNCHANGED <<watcher, keys, services, faults, behind, crossed>>

\* A new name or a new status; a deletion is final.
ChangeGroup(g) ==
  /\ Len(topic) < MaxEvent
  /\ group[g] # NoItem
  /\ group[g].status # "DELETED"
  /\ \/ \E name \in Name \ {group[g].name} : group' = [group EXCEPT ![g].name = name]
     \/ \E status \in Status \ {group[g].status} :
          group' = [group EXCEPT ![g].status = status]
  /\ Announce(g, FALSE)
  /\ UNCHANGED <<watcher, keys, services, faults, behind, crossed>>

-----------------------------------------------------------------------------
(* Services                                                                 *)

Edit == edits < MaxEdit /\ edits' = edits + 1

Deleted(g) == IF g = NoGroup THEN FALSE ELSE group[g].status = "DELETED"

Rebind(s, g) ==
  /\ binding' = [binding EXCEPT ![s] = g]
  /\ rebound' = IF Deleted(g) THEN rebound \cup {s} ELSE rebound \ {s}

\* patch-service: no check on the group.
Bind(s, g) ==
  /\ Edit
  /\ g # NoGroup => group[g] # NoItem
  /\ Rebind(s, g)
  /\ choice' = [choice EXCEPT ![s] = g]
  /\ crossed' = IF s \in page \/ transition[s] # Idle THEN crossed \cup {s} ELSE crossed
  /\ UNCHANGED <<selfcare, watcher, keys, transition, faults, behind>>

\* A transition of the lifecycle reads the service and saves it as a whole.
BeginTransition(s) ==
  /\ Edit
  /\ transition[s] = Idle
  /\ transition' = [transition EXCEPT ![s] = binding[s]]
  /\ UNCHANGED <<selfcare, watcher, keys, binding, choice, rebound, faults,
                 behind, crossed>>

EndTransition(s) ==
  /\ transition[s] # Idle
  /\ Rebind(s, transition[s])
  /\ transition' = [transition EXCEPT ![s] = Idle]
  /\ UNCHANGED <<selfcare, watcher, keys, edits, choice, faults, behind, crossed>>

-----------------------------------------------------------------------------
(* The administrators, and the keys of groups that are not of an aggregate  *)

Ordinary(g) == IF group[g] = NoItem THEN FALSE ELSE group[g].kind # "aggregate"

\* upsertManageGroupSubscription: the group exists, whatever its status.
GetGroup(g) ==
  /\ Edit
  /\ Ordinary(g)
  /\ asking[g] = Idle
  /\ asking' = [asking EXCEPT ![g] = group[g].name]
  /\ UNCHANGED <<selfcare, watcher, user, subscription, binding, transition,
                 choice, rebound, faults, behind, crossed>>

\* The key that the status of the group calls for.
KeyOf(name, status) ==
  [name |-> name, state |-> mapStateFromGroupToSubscription(status)]

\* An event of g that the watcher has not begun to handle.
ToCome(g) ==
  \E i \in next..Len(topic) : topic[i].id = g /\ (i = next => step = "idle")

\* upsertManageSubscription: the key works, whatever has become of the group.
UpsertKey(g) ==
  /\ asking[g] # Idle
  /\ subscription' = [subscription EXCEPT ![g] = KeyOf(asking[g], "ACTIVE")]
  /\ behind' = IF ToCome(g) \/ subscription'[g] = KeyOf(group[g].name, group[g].status)
               THEN behind ELSE behind \cup {g}
  /\ asking' = [asking EXCEPT ![g] = Idle]
  /\ UNCHANGED <<selfcare, watcher, user, services, faults, crossed>>

\* deleteManageSubscription: the owner of a key does not change.
DeleteKey(g) ==
  /\ Edit
  /\ Ordinary(g)
  /\ subscription[g] # NoItem
  /\ subscription' = [subscription EXCEPT ![g] = NoItem]
  /\ UNCHANGED <<selfcare, asking, watcher, user, binding, transition, choice,
                 rebound, faults, behind, crossed>>

-----------------------------------------------------------------------------
(* The watcher                                                              *)

Event == topic[next]

Step(from, to) == step = from /\ step' = to

\* The event is done with, and its group is up to date if its key is the one that
\* the event calls for. The checkpoint may be written later.
Done(key) ==
  /\ step' = "idle"
  /\ next' = next + 1
  /\ checkpoint' \in {checkpoint, next'}
  /\ behind' = IF key = KeyOf(Event.name, Event.status) THEN behind \ {Event.id}
               ELSE behind
  /\ UNCHANGED <<todo, page>>

\* Wrong on purpose: the subscription is created again by each event.
shouldCreateAlways(e) == e.kind = "aggregate"

shouldCreateManageGroupSubscription(e) == e.kind = "aggregate" /\ e.created

HandleGroupChangeEvent ==
  /\ next <= Len(topic)
  /\ step = "idle"
  /\ IF Event.kind = "other"
     THEN Done(NoItem)
     ELSE /\ step' = IF shouldCreateManageGroupSubscription(Event) THEN "user" ELSE "sync"
          /\ UNCHANGED <<next, checkpoint, todo, page, behind>>
  /\ UNCHANGED <<selfcare, keys, services, faults, crossed>>

\* getOrCreateApimUser: only a user that does not exist is put in its groups.
GetOrCreateUser ==
  /\ Step("user", IF user = "none" THEN "groups" ELSE "subscribe")
  /\ user' = IF user = "none" THEN "bare" ELSE user
  /\ UNCHANGED <<selfcare, asking, next, checkpoint, todo, page, subscription,
                 services, faults, behind, crossed>>

CreateGroupUsers ==
  /\ Step("groups", "subscribe")
  /\ user' = "full"
  /\ UNCHANGED <<selfcare, asking, next, checkpoint, todo, page, subscription,
                 services, faults, behind, crossed>>

\* upsertSubscription
CreateSubscription ==
  /\ Step("subscribe", "sync")
  /\ subscription' = [subscription EXCEPT ![Event.id] = KeyOf(Event.name, "ACTIVE")]
  /\ UNCHANGED <<selfcare, asking, next, checkpoint, todo, page, user, services,
                 faults, behind, crossed>>

\* Wrong on purpose: the state alone is compared.
shouldUpdateState(key, e) == key.state # mapStateFromGroupToSubscription(e.status)

shouldUpdateSubscription(key, e) ==
  key.name # e.name \/ key.state # mapStateFromGroupToSubscription(e.status)

\* Wrong on purpose: the services of a suspended group are unbound too.
shouldSyncSuspended(e) == e.status # "ACTIVE"

shouldSyncServices(e) == e.status = "DELETED"

\* The subscription is in order: the services are next, if they have to be.
GoOn(key) ==
  IF shouldSyncServices(Event)
  THEN step' = "services" /\ todo' = ServiceId
       /\ UNCHANGED <<next, checkpoint, page, behind>>
  ELSE Done(key)

\* syncSubscription, getSubscription: a group without one is left alone.
SyncSubscription ==
  /\ step = "sync"
  /\ LET key == subscription[Event.id]
         update == IF key = NoItem THEN FALSE ELSE shouldUpdateSubscription(key, Event)
     IN IF update THEN step' = "update"
                       /\ UNCHANGED <<next, checkpoint, todo, page, behind>>
                  ELSE GoOn(key)
  /\ UNCHANGED <<selfcare, keys, services, faults, crossed>>

\* updateSubscription
UpdateSubscription ==
  /\ step = "update"
  /\ subscription[Event.id] # NoItem
  /\ subscription' = [subscription EXCEPT ![Event.id] = KeyOf(Event.name, Event.status)]
  /\ GoOn(subscription'[Event.id])
  /\ UNCHANGED <<selfcare, asking, user, services, faults, crossed>>

\* executeOnServicesFilteredByGroupId: the next page of the query.
FetchPage ==
  /\ step = "services"
  /\ IF todo = {} THEN Done(subscription[Event.id])
     ELSE \E ids \in SUBSET todo \ {{}} :
            /\ todo' = todo \ ids
            /\ page' = {s \in ids : binding[s] = Event.id}
            /\ step' = "patch"
            /\ UNCHANGED <<next, checkpoint, behind>>
  /\ UNCHANGED <<selfcare, keys, services, faults, crossed>>

Unbind(ids) == binding' = [s \in ServiceId |-> IF s \in ids THEN NoGroup ELSE binding[s]]

Crossing == {s \in page : transition[s] # Idle}

\* bulkPatch succeeds for all: it removes whatever group is there now.
PatchPage ==
  /\ Step("patch", "services")
  /\ \A s \in page : binding[s] # NoGroup
  /\ Unbind(page)
  /\ page' = {}
  /\ crossed' = crossed \cup Crossing
  /\ UNCHANGED <<selfcare, next, checkpoint, todo, keys, transition, edits,
                 choice, rebound, faults, behind>>

\* Wrong on purpose: the next attempt goes on with the page of this one.
RetryPage == step' = "idle" /\ UNCHANGED <<next, checkpoint, todo, page>>

\* All is tried again from the first task.
Retry == step' = "idle" /\ todo' = {} /\ page' = {} /\ UNCHANGED <<next, checkpoint>>

\* A group_id that is not there cannot be removed: the event is tried again.
PatchNothing ==
  /\ step = "patch"
  /\ \E s \in page : binding[s] = NoGroup
  /\ Unbind(page)
  /\ crossed' = crossed \cup Crossing
  /\ Retry
  /\ UNCHANGED <<selfcare, keys, transition, edits, choice, rebound, faults,
                 behind>>

\* Nor can a key be updated that an administrator has just deleted.
UpdateNothing ==
  /\ step = "update"
  /\ subscription[Event.id] = NoItem
  /\ Retry
  /\ UNCHANGED <<selfcare, keys, services, faults, behind, crossed>>

Fault == faults < MaxFault /\ faults' = faults + 1

\* Wrong on purpose: a page that was patched in part counts as patched.
SkipFailedPatches ==
  /\ step = "patch"
  /\ Fault
  /\ \E ids \in SUBSET page : Unbind(ids)
  /\ crossed' = crossed \cup Crossing
  /\ step' = "services" /\ page' = {} /\ UNCHANGED <<next, checkpoint, todo>>
  /\ UNCHANGED <<selfcare, keys, transition, edits, choice, rebound, behind>>

\* Some of the patches fail.
FailPatches ==
  /\ step = "patch"
  /\ Fault
  /\ \E ids \in SUBSET page : Unbind(ids)
  /\ crossed' = crossed \cup Crossing
  /\ Retry
  /\ UNCHANGED <<selfcare, keys, transition, edits, choice, rebound, behind>>

\* Wrong on purpose: the event of a failed task is done with.
SwallowTask ==
  /\ step # "idle"
  /\ Fault
  /\ step' = "idle" /\ todo' = {} /\ page' = {} /\ next' = next + 1
  /\ UNCHANGED <<selfcare, checkpoint, keys, services, behind, crossed>>

\* A task fails, and the event is tried again.
FailTask ==
  /\ step # "idle"
  /\ Fault
  /\ Retry
  /\ UNCHANGED <<selfcare, keys, services, behind, crossed>>

\* It has failed too often: it goes to syncGroupPoisonQueue.
PutAside ==
  /\ step # "idle"
  /\ Fault
  /\ step' = "idle" /\ todo' = {} /\ page' = {}
  /\ next' = next + 1
  /\ checkpoint' \in {checkpoint, next'}
  /\ behind' = behind \cup {Event.id}
  /\ UNCHANGED <<selfcare, keys, services, crossed>>

\* The instance stops: another one starts again from the checkpoint.
Restart ==
  /\ Fault
  /\ next' = checkpoint
  /\ step' = "idle" /\ todo' = {} /\ page' = {}
  /\ UNCHANGED <<selfcare, checkpoint, keys, services, behind, crossed>>

-----------------------------------------------------------------------------
\* One group was there before, and all services are bound to it. It has a key if it
\* is of an aggregate or if an administrator has made one.
Init ==
  /\ \E kind \in Kind :
       LET old == CHOOSE g \in Group : TRUE IN
       /\ group = [g \in Group |-> IF g = old THEN New(kind) ELSE NoItem]
       /\ \E keyed \in IF kind = "plain" THEN BOOLEAN ELSE {kind = "aggregate"} :
            subscription = [g \in Group |->
              IF g = old /\ keyed THEN KeyOf(New(kind).name, "ACTIVE") ELSE NoItem]
       /\ user = IF kind = "aggregate" THEN "full" ELSE "none"
       /\ binding = [s \in ServiceId |-> old]
  /\ topic = <<>> /\ asking = [g \in Group |-> Idle]
  /\ next = 1 /\ checkpoint = 1 /\ step = "idle" /\ todo = {} /\ page = {}
  /\ choice = binding /\ transition = [s \in ServiceId |-> Idle]
  /\ edits = 0 /\ faults = 0 /\ behind = {} /\ crossed = {} /\ rebound = {}

Selfcare == \E g \in Group : CreateGroup(g) \/ ChangeGroup(g)

People ==
  \E s \in ServiceId :
    \/ \E g \in Group \cup {NoGroup} : Bind(s, g)
    \/ BeginTransition(s) \/ EndTransition(s)

Administrators == \E g \in Group : GetGroup(g) \/ UpsertKey(g) \/ DeleteKey(g)

Tasks ==
  \/ HandleGroupChangeEvent
  \/ GetOrCreateUser \/ CreateGroupUsers \/ CreateSubscription
  \/ SyncSubscription \/ UpdateSubscription \/ UpdateNothing
  \/ FetchPage \/ PatchPage \/ PatchNothing

Failures == FailPatches \/ FailTask \/ PutAside \/ Restart

Next == Selfcare \/ People \/ Administrators \/ Tasks \/ Failures

Spec == Init /\ [][Next]_vars

\* The platform keeps handing the next event, or the same one, to the watcher.
FairSpec == Spec /\ WF_vars(Tasks)

-----------------------------------------------------------------------------
(* Properties                                                               *)

\* The shape of the state.
TypeOK ==
  /\ group \in [Group -> SelfcareGroup \cup {NoItem}]
  /\ topic \in Seq(GroupChangeEvent)
  /\ checkpoint \in 1..next /\ next \in 1..(Len(topic) + 1)
  /\ step \in {"idle", "user", "groups", "subscribe", "sync", "update", "services",
               "patch"}
  /\ step # "idle" => next <= Len(topic)
  /\ todo \in SUBSET ServiceId /\ page \in SUBSET ServiceId
  /\ page # {} => step = "patch"
  /\ user \in {"none", "bare", "full"}
  /\ subscription \in [Group -> Subscription \cup {NoItem}]
  /\ asking \in [Group -> Name \cup {Idle}]
  /\ binding \in [ServiceId -> Group \cup {NoGroup}]
  /\ choice \in [ServiceId -> Group \cup {NoGroup}]
  /\ transition \in [ServiceId -> Group \cup {NoGroup, Idle}]
  /\ edits \in 0..MaxEdit /\ faults \in 0..MaxFault
  /\ behind \in SUBSET Group
  /\ crossed \in SUBSET ServiceId /\ rebound \in SUBSET ServiceId

Kinded(g, kind) == IF group[g] = NoItem THEN FALSE ELSE group[g].kind = kind

Drained == next > Len(topic)

\* When the watcher has come to the end of the events, whatever it has tried or
\* seen twice, and whatever administrators did in between, each group of an
\* aggregate has a key with the name and the state of the group, and so has every
\* other group that has a key at all, but for groups whose last event was put
\* aside and keys that were made when no event was to come.
KeysFollowGroups ==
  Drained => \A g \in Group \ behind :
    LET key == subscription[g] IN
    IF key = NoItem THEN ~ Kinded(g, "aggregate")
    ELSE Kinded(g, "other") \/ key = KeyOf(group[g].name, group[g].status)

\* And no service is bound to a group that was deleted, unless somebody bound it
\* again afterwards: no page of services, and no patch that failed, is left out.
DeletedGroupHasNoService ==
  Drained => \A s \in ServiceId \ rebound :
    \/ ~ Deleted(binding[s])
    \/ binding[s] \in behind
    \/ Kinded(binding[s], "other")

\* A service stays in the group that people chose for it as long as that group
\* exists, however the watcher repeats what it does, unless two have written the
\* service at once.
ChoiceStands ==
  \A s \in ServiceId \ crossed :
    ~ Deleted(choice[s]) => binding[s] = choice[s]

\* Once cancelled, the key of a group never works again; only a watcher that
\* goes through events a second time brings it back, for as long as it takes, or
\* an administrator who asks for a new one.
CancelledStaysCancelled ==
  [][\A g \in Group :
       IF subscription[g] = NoItem \/ subscription'[g] = NoItem THEN TRUE
       ELSE subscription[g].state = "cancelled" =>
              \/ subscription'[g].state = "cancelled"
              \/ asking[g] # Idle /\ asking'[g] = Idle
              \/ \E i \in (next + 1)..Len(topic) :
                   topic[i].id = g /\ topic[i].status = "DELETED"]_vars

\* The key of a group that was suspended or deleted stops working, unless the
\* event was put aside, the key was made when no event was to come, or the group
\* is active again.
RevocationArrives ==
  \A g \in Group :
    LET Works == IF subscription[g] = NoItem \/ group[g] = NoItem THEN FALSE
                 ELSE subscription[g].state = "active" /\ group[g].status # "ACTIVE"
    IN Works ~> ~ Works \/ g \in behind \/ Kinded(g, "other")
=============================================================================
