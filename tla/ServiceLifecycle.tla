-------------------------- MODULE ServiceLifecycle --------------------------
(***************************************************************************)
(* The lifecycle of a service: the finite state machine of                 *)
(* service-lifecycle/index.ts over the Cosmos store of                     *)
(* lib/fsm/store.cosmos.ts.                                                *)
(*                                                                         *)
(* Applying an action is not atomic. apply() reads the document, picks the *)
(* transition that leaves the state it read, computes the new document and *)
(* then upserts it without any precondition on the version (etag) it read. *)
(* Each client below is one such request in flight: it reads in one step   *)
(* (Create .. Delete) and writes in a later one (Save), and any number of  *)
(* other clients may write in between.                                     *)
(***************************************************************************)
EXTENDS Naturals

CONSTANTS
  ServiceId,     \* ids of the services (ulids drawn by the create controller)
  Data,          \* contents of a service: name, description, metadata ...
  Group,         \* selfcare groups a service can be bound to
  Client,        \* requests that can be in flight at the same time
  NoGroup,       \* a service that is bound to no group
  NoItem,        \* no document with that id in the store
  Idle,          \* a client that has no request in flight
  MaxVersion     \* bound: no request of a user starts once this many versions
                 \* are stored

ASSUME GroupAssumption == NoGroup \notin Group
ASSUME BoundAssumption == MaxVersion \in Nat

VARIABLES
  lifecycle,     \* the services-lifecycle container
  etag,          \* the number of writes so far; the last one is the last etag
  calls,         \* the document each client is about to save
  versions       \* history: every document ever stored (for the properties)

vars == <<lifecycle, etag, calls, versions>>

-----------------------------------------------------------------------------
(* The state machine                                                        *)

State == {"draft", "submitted", "approved", "rejected", "deleted"}

ActionName == {"create", "edit", "submit", "abort", "approve", "reject",
               "delete"}

Transition == [action : ActionName, from : State \cup {"*"}, to : State]

\* Wrong on purpose: a deleted service can be edited.
FSMUndelete == {t \in Transition : <<t.action, t.from, t.to>> \in
                  { <<"create",  "*",         "draft">>,
                    <<"delete",  "draft",     "deleted">>,
                    <<"edit",    "deleted",   "draft">> }}

FSM == {t \in Transition : <<t.action, t.from, t.to>> \in
          { <<"create",  "*",         "draft">>,
            <<"edit",    "draft",     "draft">>,
            <<"delete",  "draft",     "deleted">>,
            <<"submit",  "draft",     "submitted">>,
            <<"abort",   "submitted", "draft">>,
            <<"approve", "submitted", "approved">>,
            <<"reject",  "submitted", "rejected">>,
            <<"delete",  "rejected",  "deleted">>,
            <<"delete",  "approved",  "deleted">>,
            <<"edit",    "rejected",  "draft">>,
            <<"edit",    "approved",  "draft">> }}

MaybeGroup == Group \cup {NoGroup}

\* What the caller of a transition decides; autoPublish is FALSE when the
\* document carries none (getAutoPublish).
Content == [data : Data, group_id : MaybeGroup, autoPublish : BOOLEAN]

Document == [content : Content, state : State, version : Nat]

Call == [id : ServiceId, content : Content, state : State]

\* The markers are not documents.
ASSUME MarkerAssumption == NoItem \notin Document /\ Idle \notin Call

\* Wrong on purpose: the state the item is in is not looked at.
MatchingAction(action, item) ==
  {t \in FSM : t.action = action /\ (t.from = "*" <=> item = NoItem)}

\* The transitions of an action that match what the store answered.
Matching(action, item) ==
  {t \in FSM : /\ t.action = action
               /\ t.from = IF item = NoItem THEN "*" ELSE item.state}

\* An empty list of groups authorizes everything.
authorize(authzGroupIds, item) ==
  item # NoItem /\ authzGroupIds # {} => item.content.group_id \in authzGroupIds

-----------------------------------------------------------------------------
(* apply(): read, match, compute the new document                           *)

\* Nothing changes when the item is missing (FsmItemNotFoundError), belongs to
\* a group the caller has no right on (FsmAuthorizationError) or is in a state
\* the action does not leave (FsmNoTransitionMatchedError).
apply(c, s, action, authzGroupIds, content) ==
  /\ calls[c] = Idle
  /\ authorize(authzGroupIds, lifecycle[s])
  /\ \E t \in Matching(action, lifecycle[s]) :
       calls' = [calls EXCEPT ![c] = [id |-> s, content |-> content,
                                      state |-> t.to]]
  /\ UNCHANGED <<lifecycle, etag, versions>>

\* The controller draws a new id for every creation.
NewId(s) == \A c \in Client : calls[c] # Idle => calls[c].id # s

Create(c, s, data, g) ==
  /\ NewId(s)
  /\ apply(c, s, "create", {},
           [data |-> data, group_id |-> g, autoPublish |-> FALSE])

\* The new content replaces the old one, but for the group (and the category
\* and the special flow), which are those of the document that was read.
Edit(c, s, authz, data) ==
  apply(c, s, "edit", authz,
        [data |-> data, group_id |-> lifecycle[s].content.group_id,
         autoPublish |-> FALSE])

Submit(c, s, authz, autoPublish) ==
  apply(c, s, "submit", authz,
        [lifecycle[s].content EXCEPT !.autoPublish = autoPublish])

Approve(c, s) == apply(c, s, "approve", {}, lifecycle[s].content)

Reject(c, s) ==
  apply(c, s, "reject", {},
        [lifecycle[s].content EXCEPT !.autoPublish = FALSE])

Delete(c, s, authz) ==
  apply(c, s, "delete", authz,
        [lifecycle[s].content EXCEPT !.autoPublish = FALSE])

-----------------------------------------------------------------------------
(* The store                                                                *)

\* Wrong on purpose: the stored document carries no version.
WriteUnversioned(s, content, state) ==
  LET document == [content |-> content, state |-> state]
  IN  /\ lifecycle' = [lifecycle EXCEPT ![s] = document]
      /\ etag' = etag + 1
      /\ versions' = versions \cup {[id |-> s, document |-> document]}

\* A write gives the document a new etag, whatever the etag it was read with.
Write(s, content, state) ==
  LET document == [content |-> content, state |-> state, version |-> etag + 1]
  IN  /\ lifecycle' = [lifecycle EXCEPT ![s] = document]
      /\ etag' = etag + 1
      /\ versions' = versions \cup {[id |-> s, document |-> document]}

\* Wrong on purpose: a verdict saves the state alone, over the content of the
\* moment.
SaveState(c) ==
  /\ calls[c] # Idle
  /\ LET s == calls[c].id IN
       Write(s, IF calls[c].state \in {"approved", "rejected"}
                THEN lifecycle[s].content ELSE calls[c].content, calls[c].state)
  /\ calls' = [calls EXCEPT ![c] = Idle]

\* saveItem: the last step of apply.
Save(c) ==
  /\ calls[c] # Idle
  /\ Write(calls[c].id, calls[c].content, calls[c].state)
  /\ calls' = [calls EXCEPT ![c] = Idle]

\* The upsert fails (FsmStoreSaveError), or the instance stops before it.
SaveError(c) ==
  /\ calls[c] # Idle
  /\ calls' = [calls EXCEPT ![c] = Idle]
  /\ UNCHANGED <<lifecycle, etag, versions>>

\* store.patch, and each document of store.bulkPatch: the group alone is
\* replaced (or removed) inside the database, past the state machine. The
\* database refuses to remove a group that is not there.
Patch(c, s, g) ==
  /\ calls[c] = Idle
  /\ lifecycle[s] # NoItem
  /\ g = NoGroup => lifecycle[s].content.group_id # NoGroup
  /\ Write(s, [lifecycle[s].content EXCEPT !.group_id = g], lifecycle[s].state)
  /\ UNCHANGED calls

-----------------------------------------------------------------------------
Init ==
  /\ lifecycle = [s \in ServiceId |-> NoItem]
  /\ etag = 0
  /\ calls = [c \in Client |-> Idle]
  /\ versions = {}

\* Requests of the owner of a service, with the groups he is entitled to.
UserRequest(c, s) ==
  /\ etag < MaxVersion
  /\ \/ \E authz \in SUBSET Group :
          \/ \E data \in Data : Edit(c, s, authz, data)
          \/ \E autoPublish \in BOOLEAN : Submit(c, s, authz, autoPublish)
          \/ Delete(c, s, authz)
     \/ \E data \in Data, g \in MaybeGroup : Create(c, s, data, g)
     \/ \E g \in MaybeGroup : Patch(c, s, g)

\* Requests of the review, which carry no groups; a submission bounds them.
ReviewRequest(c, s) == Approve(c, s) \/ Reject(c, s)

Next == \E c \in Client :
          \/ \E s \in ServiceId : UserRequest(c, s) \/ ReviewRequest(c, s)
          \/ Save(c)
          \/ SaveError(c)

Spec == Init /\ [][Next]_vars

-----------------------------------------------------------------------------
(* Properties                                                               *)

\* The shape of the containers and of the requests in flight.
TypeOK ==
  /\ lifecycle \in [ServiceId -> Document \cup {NoItem}]
  /\ etag \in Nat
  /\ calls \in [Client -> Call \cup {Idle}]
  /\ versions \in SUBSET [id : ServiceId, document : Document]

\* In a history, the content of s was stored as submitted before a version.
Submitted(history, s, content, version) ==
  \E w \in history :
    /\ w.id = s
    /\ w.document.state = "submitted"
    /\ w.document.version < version
    /\ w.document.content.data = content.data
    /\ w.document.content.autoPublish = content.autoPublish

\* However the requests overlap, an approved document has the content and the
\* autoPublish flag of a document of the same service that was submitted before
\* it: a race may lose a write, but it never approves a text that nobody
\* submitted. (Only the group can differ: it is patched past the FSM.)
ApprovedWasSubmitted ==
  \A v \in versions : v.document.state = "approved" =>
    Submitted(versions, v.id, v.document.content, v.document.version)

Status == [s \in ServiceId |->
             IF lifecycle[s] = NoItem THEN "*" ELSE lifecycle[s].state]

\* The states that the requests in flight on a service are about to store.
Asked == [s \in ServiceId |->
            {calls[c].state :
               c \in {d \in Client : calls[d] # Idle /\ calls[d].id = s}}]

\* However the requests overlap, the store walks along the README's diagram: a
\* status is only ever replaced by one that a request asked for, and the request
\* followed an arrow from the status that it read. (A group patch keeps the
\* status.)
Diagram == INSTANCE LifecycleDiagram WITH status <- Status, asked <- Asked

FollowsDiagram == Diagram!Spec

\* No arrow leaves deleted: once a service is deleted and no request that read it
\* before is still to be saved, it stays so and no request on it is taken up. (A
\* request that read the service before the deletion and saves after it brings it
\* back: the upsert has no precondition.)
DeletionSettles ==
  [][\A s \in ServiceId : Status[s] = "deleted" /\ Asked[s] = {}
       => Status'[s] = "deleted" /\ Asked'[s] = {}]_vars
=============================================================================
