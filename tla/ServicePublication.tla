-------------------------- MODULE ServicePublication ------------------------
(***************************************************************************)
(* The publication of a service: the state machine of                      *)
(* service-publication/index.ts over the services-publication container.   *)
(*                                                                         *)
(* publish() and unpublish() go through the transition table; release()    *)
(* bypasses it: it reads the stored document only to name its state in     *)
(* lastTransition (left out here), and saves the content it was given. All *)
(* three read in one step and upsert in a later one, whatever was written  *)
(* in between.                                                             *)
(***************************************************************************)
CONSTANTS
  ServiceId,     \* ids of the services
  Data,          \* contents of a service
  Request,       \* calls of the state machine that can be in flight at once
  NoItem,        \* no document with that id in the store
  Idle           \* nothing in flight

VARIABLES
  publication,   \* the services-publication container
  pending,       \* the document each request is about to save
  released,      \* history: the arguments of every release
  asked          \* history: the services whose owner called publish

vars == <<publication, pending, released, asked>>

-----------------------------------------------------------------------------
State == {"published", "unpublished"}

Document == [data : Data, state : State]

\* What a call keeps between its two steps.
Write == [id : ServiceId, document : Document]

\* The transitions the FSM client can reach that save a document. Publishing a
\* published service and unpublishing an unpublished one succeed with
\* hasChanges = false; with no document, unpublish is an FsmItemNotFoundError
\* and publish, which no caller gives a content, throws.
FSM == { [action |-> "publish",   from |-> "unpublished", to |-> "published"],
         [action |-> "unpublish", from |-> "published", to |-> "unpublished"] }

stateOf(s) == IF publication[s] = NoItem THEN "empty" ELSE publication[s].state

-----------------------------------------------------------------------------
(* The first step of a call: read the store and compute the new document    *)

Start(r, s, document) ==
  pending' = [pending EXCEPT ![r] = [id |-> s, document |-> document]]

apply(r, s, action) ==
  \/ \E t \in FSM : /\ t.action = action
                    /\ t.from = stateOf(s)
                    /\ Start(r, s, [data |-> publication[s].data,
                                    state |-> t.to])
  \/ /\ \A t \in FSM : t.action = action => t.from # stateOf(s)
     /\ UNCHANGED pending

Publish(r, s) ==
  /\ pending[r] = Idle
  /\ apply(r, s, "publish")
  /\ asked' = IF publication[s] = NoItem THEN asked ELSE asked \cup {s}
  /\ UNCHANGED <<publication, released>>

Unpublish(r, s) ==
  /\ pending[r] = Idle
  /\ apply(r, s, "unpublish")
  /\ UNCHANGED <<publication, released, asked>>

\* Wrong on purpose: every release publishes.
releasePublished(r, s, data, publish) ==
  /\ pending[r] = Idle
  /\ Start(r, s, [data |-> data, state |-> "published"])
  /\ released' = released \cup {[id |-> s, data |-> data, publish |-> publish]}
  /\ UNCHANGED <<publication, asked>>

release(r, s, data, publish) ==
  /\ pending[r] = Idle
  /\ Start(r, s, [data |-> data,
                  state |-> IF publish THEN "published" ELSE "unpublished"])
  /\ released' = released \cup {[id |-> s, data |-> data, publish |-> publish]}
  /\ UNCHANGED <<publication, asked>>

-----------------------------------------------------------------------------
(* The second step: saveItem, an upsert without precondition                *)

Save(r) ==
  /\ pending[r] # Idle
  /\ publication' = [publication EXCEPT ![pending[r].id] = pending[r].document]
  /\ pending' = [pending EXCEPT ![r] = Idle]
  /\ UNCHANGED <<released, asked>>

\* The upsert fails, or the instance stops before it.
SaveError(r) ==
  /\ pending[r] # Idle
  /\ pending' = [pending EXCEPT ![r] = Idle]
  /\ UNCHANGED <<publication, released, asked>>

\* deleteItem: one call to the database, and a 404 is a success.
Delete(s) ==
  /\ publication' = [publication EXCEPT ![s] = NoItem]
  /\ UNCHANGED <<pending, released, asked>>

-----------------------------------------------------------------------------
Init ==
  /\ publication = [s \in ServiceId |-> NoItem]
  /\ pending = [r \in Request |-> Idle]
  /\ released = {}
  /\ asked = {}

Next ==
  \/ \E r \in Request, s \in ServiceId :
       \/ Publish(r, s)
       \/ Unpublish(r, s)
       \/ \E data \in Data, publish \in BOOLEAN : release(r, s, data, publish)
  \/ \E r \in Request : Save(r) \/ SaveError(r)
  \/ \E s \in ServiceId : Delete(s)

Spec == Init /\ [][Next]_vars

-----------------------------------------------------------------------------
(* Properties                                                               *)

\* The shape of the container and of the requests in flight.
TypeOK ==
  /\ publication \in [ServiceId -> Document \cup {NoItem}]
  /\ pending \in [Request -> Write \cup {Idle}]
  /\ released \in SUBSET [id : ServiceId, data : Data, publish : BOOLEAN]
  /\ asked \in SUBSET ServiceId

\* However the calls overlap, nobody ever sees a published text that was not
\* released to be published: a published service carries a content released
\* with the publish flag, or its owner asked for the publication and it carries
\* a content released without it. (Two unconditional upserts may lose a release
\* or an unpublish, but they never publish a content on nobody's request.)
PublishedOnRequest ==
  \A s \in ServiceId :
    publication[s] # NoItem /\ publication[s].state = "published" =>
      \E r \in released : /\ r.id = s
                          /\ r.data = publication[s].data
                          /\ r.publish \/ s \in asked
=============================================================================
