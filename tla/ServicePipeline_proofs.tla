------------------------ MODULE ServicePipeline_proofs ------------------------
(***************************************************************************)
(* Proofs about ServicePipeline, for any sets of services, contents,       *)
(* requests and workers and any number of deliveries. What is proved of    *)
(* each state machine alone, of the lifecycle in a module of its own and   *)
(* of the publication below, is used here: every step of the pipeline is a *)
(* step of each of them, or leaves it alone.                               *)
(***************************************************************************)
EXTENDS ServicePipeline, TLAPS

Lifecycle == INSTANCE ServiceLifecycle_proofs

-----------------------------------------------------------------------------
(* The proofs of the lifecycle speak of the same state machine              *)

\* The instance the model uses and the one that carries the proofs are equal.
LEMMA SameLifecycle ==
  /\ L!Init = Lifecycle!Init
  /\ L!Next = Lifecycle!Next
  /\ L!vars = Lifecycle!vars /\ L!vars' = Lifecycle!vars'
  /\ L!TypeOK = Lifecycle!TypeOK /\ L!TypeOK' = Lifecycle!TypeOK'
  /\ L!Document = Lifecycle!Document /\ L!Call = Lifecycle!Call
  <1> USE DEF L!State, Lifecycle!State, L!MaybeGroup, Lifecycle!MaybeGroup,
              L!Content, Lifecycle!Content, L!Document, Lifecycle!Document,
              L!Call, Lifecycle!Call
  <1>1. L!Next = Lifecycle!Next
    BY DEF L!Next, Lifecycle!Next, L!UserRequest, Lifecycle!UserRequest,
       L!ReviewRequest, Lifecycle!ReviewRequest, L!Create, Lifecycle!Create,
       L!NewId, Lifecycle!NewId, L!Edit, Lifecycle!Edit, L!Submit,
       Lifecycle!Submit, L!Delete, Lifecycle!Delete, L!Approve,
       Lifecycle!Approve, L!Reject, Lifecycle!Reject, L!Patch, Lifecycle!Patch,
       L!Save, Lifecycle!Save, L!SaveError, Lifecycle!SaveError, L!Write,
       Lifecycle!Write, L!apply, Lifecycle!apply, L!authorize,
       Lifecycle!authorize, L!Matching, Lifecycle!Matching, L!FSM,
       Lifecycle!FSM, L!Transition, Lifecycle!Transition, L!ActionName,
       Lifecycle!ActionName
  <1>2. QED
    BY <1>1 DEF L!Init, Lifecycle!Init, L!vars, Lifecycle!vars, L!TypeOK,
                Lifecycle!TypeOK

\* The assumptions of the lifecycle hold of its instance.
LEMMA LifecycleAssumptions ==
  /\ Lifecycle!GroupAssumption
  /\ Lifecycle!BoundAssumption
  /\ Lifecycle!MarkerAssumption
  BY GroupAssumption, BoundAssumption, MarkerAssumption, SameLifecycle
  DEF Lifecycle!GroupAssumption, Lifecycle!BoundAssumption,
      Lifecycle!MarkerAssumption

LEMMA LifecycleTypeStep == L!TypeOK /\ [L!Next]_L!vars => L!TypeOK'
  <1>1. Lifecycle!TypeOK /\ [Lifecycle!Next]_Lifecycle!vars => Lifecycle!TypeOK'
    BY LifecycleAssumptions, Lifecycle!TypeStep DEF Lifecycle!TypeStep
  <1>2. QED
    BY <1>1, SameLifecycle

LEMMA LifecycleStores ==
  L!TypeOK /\ [L!Next]_L!vars =>
    \A z \in ServiceId : lifecycle'[z] = lifecycle[z] \/ lifecycle'[z] # NoItem
  <1>1. Lifecycle!TypeOK /\ [Lifecycle!Next]_Lifecycle!vars =>
          \A z \in ServiceId :
            lifecycle'[z] = lifecycle[z] \/ lifecycle'[z] # NoItem
    BY LifecycleAssumptions, Lifecycle!ChangeStores
    DEF Lifecycle!ChangeStores, Lifecycle!Rewritten
  <1>2. QED
    BY <1>1, SameLifecycle

LEMMA ApprovalStep ==
  L!TypeOK /\ L!TypeOK' /\ Lifecycle!ApprovalInv /\ [L!Next]_L!vars
    => Lifecycle!ApprovalInv'
  <1>1. /\ Lifecycle!TypeOK /\ Lifecycle!TypeOK' /\ Lifecycle!ApprovalInv
        /\ [Lifecycle!Next]_Lifecycle!vars
        => Lifecycle!ApprovalInv'
    BY LifecycleAssumptions, Lifecycle!ApprovalStep DEF Lifecycle!ApprovalStep
  <1>2. QED
    BY <1>1, SameLifecycle

-----------------------------------------------------------------------------
(* The publication alone: what its calls do to the container                *)

\* A call of the state machine registers the stored content, in another state,
\* or nothing.
LEMMA PublicationStarts ==
  ASSUME P!TypeOK, NEW r \in Worker \cup Caller, NEW s \in ServiceId, NEW action,
         P!apply(r, s, action)
  PROVE  \/ UNCHANGED pending
         \/ /\ publication[s] # NoItem
            /\ \E t \in P!FSM :
                 /\ t.action = action
                 /\ P!Start(r, s, [data |-> publication[s].data, state |-> t.to])
  <1>1. CASE \E t \in P!FSM :
               /\ t.action = action
               /\ t.from = P!stateOf(s)
               /\ P!Start(r, s, [data |-> publication[s].data, state |-> t.to])
    <2>1. P!stateOf(s) # "empty"
      BY <1>1 DEF P!FSM
    <2>2. QED
      BY <1>1, <2>1 DEF P!stateOf
  <1>2. CASE UNCHANGED pending
    BY <1>2
  <1>3. QED
    BY <1>1, <1>2 DEF P!apply

LEMMA PublicationStartType ==
  ASSUME P!TypeOK, NEW r \in Worker \cup Caller, NEW s \in ServiceId,
         NEW document \in P!Document, P!Start(r, s, document)
  PROVE  pending' \in [Worker \cup Caller -> P!Write \cup {Idle}]
  BY DEF P!TypeOK, P!Start, P!Write

LEMMA PublicationTypeStep == P!TypeOK /\ [P!Next]_P!vars => P!TypeOK'
  <1> SUFFICES ASSUME P!TypeOK, [P!Next]_P!vars PROVE P!TypeOK'
    OBVIOUS
  <1>1. ASSUME NEW r \in Worker \cup Caller, NEW s \in ServiceId, NEW action,
               P!apply(r, s, action)
        PROVE  pending' \in [Worker \cup Caller -> P!Write \cup {Idle}]
    <2>1. CASE UNCHANGED pending
      BY <2>1 DEF P!TypeOK
    <2>2. ASSUME publication[s] # NoItem, NEW t \in P!FSM,
                 P!Start(r, s, [data |-> publication[s].data, state |-> t.to])
          PROVE  pending' \in [Worker \cup Caller -> P!Write \cup {Idle}]
      <3>1. [data |-> publication[s].data, state |-> t.to] \in P!Document
        BY <2>2 DEF P!TypeOK, P!Document, P!FSM, P!State
      <3>2. QED
        BY <2>2, <3>1, PublicationStartType
    <2>3. QED
      BY <1>1, <2>1, <2>2, PublicationStarts
  <1>2. ASSUME NEW r \in Worker \cup Caller, NEW s \in ServiceId, P!Publish(r, s)
        PROVE  P!TypeOK'
    BY <1>1, <1>2 DEF P!Publish, P!TypeOK
  <1>3. ASSUME NEW r \in Worker \cup Caller, NEW s \in ServiceId, P!Unpublish(r, s)
        PROVE  P!TypeOK'
    BY <1>1, <1>3 DEF P!Unpublish, P!TypeOK
  <1>4. ASSUME NEW r \in Worker \cup Caller, NEW s \in ServiceId, NEW data \in Data,
               NEW publish \in BOOLEAN, P!release(r, s, data, publish)
        PROVE  P!TypeOK'
    <2>1. [data |-> data,
           state |-> IF publish THEN "published" ELSE "unpublished"] \in P!Document
      BY DEF P!Document, P!State
    <2>2. pending' \in [Worker \cup Caller -> P!Write \cup {Idle}]
      BY <1>4, <2>1, PublicationStartType DEF P!release
    <2>3. QED
      BY <1>4, <2>2 DEF P!release, P!TypeOK
  <1>5. ASSUME NEW r \in Worker \cup Caller, P!Save(r)
        PROVE  P!TypeOK'
    BY <1>5 DEF P!Save, P!TypeOK, P!Write
  <1>6. ASSUME NEW r \in Worker \cup Caller, P!SaveError(r)
        PROVE  P!TypeOK'
    BY <1>6 DEF P!SaveError, P!TypeOK
  <1>7. ASSUME NEW s \in ServiceId, P!Delete(s)
        PROVE  P!TypeOK'
    BY <1>7 DEF P!Delete, P!TypeOK
  <1>8. CASE UNCHANGED P!vars
    BY <1>8 DEF P!vars, P!TypeOK
  <1>9. QED
    BY <1>2, <1>3, <1>4, <1>5, <1>6, <1>7, <1>8 DEF P!Next

-----------------------------------------------------------------------------
(* The publication alone: nothing is published on nobody's request          *)

\* A document of s that may be stored: its content was released, and if it is
\* published, it was released to be published or the owner asked for it.
Justified(s, document) ==
  \E x \in released :
    /\ x.id = s
    /\ x.data = document.data
    /\ document.state = "published" => x.publish \/ s \in asked

\* P!PublishedOnRequest says nothing of the documents that are not published, which
\* a publish makes public, and of those about to be saved: both must be justified.
PublicationInv ==
  /\ P!TypeOK
  /\ \A s \in ServiceId :
       publication[s] # NoItem => Justified(s, publication[s])
  /\ \A r \in Worker \cup Caller :
       pending[r] # Idle => Justified(pending[r].id, pending[r].document)

\* What is justified stays so: the histories only grow.
LEMMA JustifiedStays ==
  ASSUME released \subseteq released', asked \subseteq asked',
         NEW s, NEW document, Justified(s, document)
  PROVE  Justified(s, document)'
  BY DEF Justified

\* A step that leaves the container alone and starts one justified call.
LEMMA StartKeeps ==
  ASSUME PublicationInv, P!TypeOK', UNCHANGED publication,
         released \subseteq released', asked \subseteq asked',
         NEW r \in Worker \cup Caller, NEW s \in ServiceId, NEW document,
         \/ P!Start(r, s, document) /\ Justified(s, document)'
         \/ UNCHANGED pending
  PROVE  PublicationInv'
  <1>1. ASSUME NEW z \in ServiceId, publication'[z] # NoItem
        PROVE  Justified(z, publication[z])'
    BY <1>1, JustifiedStays DEF PublicationInv
  <1>2. ASSUME NEW q \in Worker \cup Caller, pending'[q] # Idle
        PROVE  Justified(pending[q].id, pending[q].document)'
    <2>1. CASE pending'[q] = pending[q]
      BY <1>2, <2>1 DEF PublicationInv, Justified
    <2>2. CASE pending'[q] # pending[q]
      <3>1. pending'[q] = [id |-> s, document |-> document]
        BY <2>2 DEF P!Start, PublicationInv, P!TypeOK
      <3>2. Justified(s, document)'
        BY <2>2
      <3>3. QED
        BY <3>1, <3>2 DEF Justified
    <2>3. QED
      BY <2>1, <2>2
  <1>3. QED
    BY <1>1, <1>2 DEF PublicationInv

LEMMA JustifiedStep == PublicationInv /\ [P!Next]_P!vars => PublicationInv'
  <1> SUFFICES ASSUME PublicationInv, [P!Next]_P!vars PROVE PublicationInv'
    OBVIOUS
  <1>1. P!TypeOK /\ P!TypeOK'
    BY PublicationTypeStep DEF PublicationInv
  <1>2. ASSUME NEW r \in Worker \cup Caller, NEW s \in ServiceId, P!Publish(r, s)
        PROVE  PublicationInv'
    <2>1. CASE UNCHANGED pending
      BY <1>1, <1>2, <2>1, StartKeeps DEF P!Publish
    <2>2. ASSUME publication[s] # NoItem, NEW t \in P!FSM,
                 P!Start(r, s, [data |-> publication[s].data, state |-> t.to])
          PROVE  PublicationInv'
      <3>1. Justified(s, publication[s])
        BY <2>2 DEF PublicationInv
      <3>2. s \in asked' /\ released' = released
        BY <1>2, <2>2 DEF P!Publish
      <3>3. Justified(s, [data |-> publication[s].data, state |-> t.to])'
        BY <1>2, <3>1, <3>2 DEF Justified, P!Publish
      <3>4. QED
        BY <1>1, <1>2, <2>2, <3>3, StartKeeps DEF P!Publish
    <2>3. QED
      BY <1>1, <1>2, <2>1, <2>2, PublicationStarts DEF P!Publish
  <1>3. ASSUME NEW r \in Worker \cup Caller, NEW s \in ServiceId, P!Unpublish(r, s)
        PROVE  PublicationInv'
    <2>1. CASE UNCHANGED pending
      BY <1>1, <1>3, <2>1, StartKeeps DEF P!Unpublish
    <2>2. ASSUME publication[s] # NoItem, NEW t \in P!FSM, t.action = "unpublish",
                 P!Start(r, s, [data |-> publication[s].data, state |-> t.to])
          PROVE  PublicationInv'
      <3>1. Justified(s, publication[s])
        BY <2>2 DEF PublicationInv
      <3>2. t.to = "unpublished"
        BY <2>2 DEF P!FSM
      <3>3. Justified(s, [data |-> publication[s].data, state |-> t.to])'
        BY <1>3, <3>1, <3>2 DEF Justified, P!Unpublish
      <3>4. QED
        BY <1>1, <1>3, <2>2, <3>3, StartKeeps DEF P!Unpublish
    <2>3. P!apply(r, s, "unpublish")
      BY <1>3 DEF P!Unpublish
    <2>4. \/ UNCHANGED pending
          \/ /\ publication[s] # NoItem
             /\ \E t \in P!FSM :
                  /\ t.action = "unpublish"
                  /\ P!Start(r, s, [data |-> publication[s].data, state |-> t.to])
      BY <1>1, <2>3, PublicationStarts
    <2>5. QED
      BY <2>1, <2>2, <2>4
  <1>4. ASSUME NEW r \in Worker \cup Caller, NEW s \in ServiceId, NEW data \in Data,
               NEW publish \in BOOLEAN, P!release(r, s, data, publish)
        PROVE  PublicationInv'
    <2> DEFINE document ==
          [data |-> data, state |-> IF publish THEN "published" ELSE "unpublished"]
    <2>1. P!Start(r, s, document)
      BY <1>4 DEF P!release
    <2>2. Justified(s, document)'
      <3>1. [id |-> s, data |-> data, publish |-> publish] \in released'
        BY <1>4 DEF P!release
      <3>2. QED
        BY <3>1 DEF Justified
    <2>3. /\ UNCHANGED publication
          /\ released \subseteq released' /\ asked \subseteq asked'
      BY <1>4 DEF P!release
    <2>4. QED
      BY <1>1, <2>1, <2>2, <2>3, StartKeeps
  <1>5. ASSUME NEW r \in Worker \cup Caller, P!Save(r)
        PROVE  PublicationInv'
    <2>1. Justified(pending[r].id, pending[r].document)
      BY <1>5 DEF P!Save, PublicationInv
    <2>2. ASSUME NEW z \in ServiceId, publication'[z] # NoItem
          PROVE  Justified(z, publication[z])'
      <3>1. publication'[z] = IF z = pending[r].id THEN pending[r].document
                                                   ELSE publication[z]
        BY <1>1, <1>5 DEF P!Save, P!TypeOK
      <3>2. Justified(z, publication'[z])
        BY <2>1, <2>2, <3>1 DEF PublicationInv
      <3>3. QED
        BY <1>5, <3>2 DEF Justified, P!Save
    <2>3. ASSUME NEW q \in Worker \cup Caller, pending'[q] # Idle
          PROVE  Justified(pending[q].id, pending[q].document)'
      <3>1. pending'[q] = pending[q]
        BY <1>1, <1>5, <2>3 DEF P!Save, P!TypeOK
      <3>2. QED
        BY <1>5, <2>3, <3>1 DEF Justified, P!Save, PublicationInv
    <2>4. QED
      BY <1>1, <2>2, <2>3 DEF PublicationInv
  <1>6. ASSUME NEW r \in Worker \cup Caller, P!SaveError(r)
        PROVE  PublicationInv'
    <2>1. ASSUME NEW q \in Worker \cup Caller, pending'[q] # Idle
          PROVE  pending'[q] = pending[q]
      BY <1>1, <1>6, <2>1 DEF P!SaveError, P!TypeOK
    <2>2. QED
      BY <1>1, <1>6, <2>1 DEF P!SaveError, PublicationInv, Justified
  <1>7. ASSUME NEW s \in ServiceId, P!Delete(s)
        PROVE  PublicationInv'
    <2>1. ASSUME NEW z \in ServiceId, publication'[z] # NoItem
          PROVE  publication'[z] = publication[z]
      BY <1>1, <1>7, <2>1 DEF P!Delete, P!TypeOK
    <2>2. QED
      BY <1>1, <1>7, <2>1 DEF P!Delete, PublicationInv, Justified
  <1>8. CASE UNCHANGED P!vars
    BY <1>1, <1>8 DEF P!vars, PublicationInv, Justified
  <1>9. QED
    BY <1>2, <1>3, <1>4, <1>5, <1>6, <1>7, <1>8 DEF P!Next

\* However the calls overlap, nothing is published that was not released to be
\* published, unless the owner asked for it.
THEOREM PublicationCorrect == P!Spec => []P!PublishedOnRequest
  <1>1. P!Init => PublicationInv
    BY DEF P!Init, PublicationInv, P!TypeOK
  <1>2. PublicationInv => P!PublishedOnRequest
    BY DEF PublicationInv, Justified, P!PublishedOnRequest
  <1>3. QED
    BY <1>1, <1>2, JustifiedStep, PTL DEF P!Spec

-----------------------------------------------------------------------------
(* Every step of the pipeline is a step of each component, or none of it    *)

LEMMA LifecycleStep == [Next]_vars => [L!Next]_L!vars
  <1> SUFFICES ASSUME [Next]_vars, ~ UNCHANGED lifecycleVars PROVE L!Next
    BY DEF L!vars, lifecycleVars
  <1>1. CASE StartRequest \/ EndRequest
    BY <1>1 DEF StartRequest, EndRequest, L!Next
  <1>2. QED
    BY <1>1 DEF Next, Request, Platform, Check, Watcher, Watch, SkipChange,
       Publicator, StartRelease, EndRelease, FailRelease, Deletor,
       HandleDeletion, FailDeletion, Act, EndAct, vars, systemVars

LEMMA PublicationStep == TypeOK /\ [Next]_vars => [P!Next]_P!vars
  <1> SUFFICES ASSUME TypeOK, [Next]_vars, ~ UNCHANGED publicationVars
               PROVE  P!Next
    BY DEF P!vars, publicationVars
  <1>1. ASSUME NEW w \in Worker, Publicator(w)
        PROVE  P!Next
    <2>1. ASSUME NEW m \in requestPublication, StartRelease(w, m)
          PROVE  P!Next
      BY <2>1 DEF StartRelease, TypeOK, PublicationMessages, P!Next
    <2>2. QED
      BY <1>1, <2>1 DEF Publicator, EndRelease, FailRelease, P!Next
  <1>2. ASSUME NEW m \in requestDeletion, Deletor(m)
        PROVE  P!Next
    BY <1>2 DEF Deletor, HandleDeletion, FailDeletion, TypeOK, P!Next,
                publicationVars
  <1>3. ASSUME NEW u \in Caller, Act(u) \/ EndAct(u)
        PROVE  P!Next
    BY <1>3 DEF Act, EndAct, TypeOK, P!Next
  <1>4. QED
    BY <1>1, <1>2, <1>3 DEF Next, Request, Platform, StartRequest, EndRequest,
       Check, Watcher, Watch, SkipChange, vars, systemVars

-----------------------------------------------------------------------------
(* Type correctness                                                         *)

\* A message that is put back has been delivered once more, and not too often.
LEMMA PutBackType ==
  ASSUME NEW queue, queue \subseteq PublicationMessages,
         NEW m \in PublicationMessages
  PROVE  PutBack(queue, m) \subseteq PublicationMessages
  BY DequeueAssumption DEF PutBack, PublicationMessages

LEMMA PutBackDeletionType ==
  ASSUME NEW queue, NEW m \in [id : ServiceId, dequeueCount : 0..MaxDequeue - 1],
         queue \subseteq [id : ServiceId, dequeueCount : 0..MaxDequeue - 1]
  PROVE  PutBack(queue, m)
           \subseteq [id : ServiceId, dequeueCount : 0..MaxDequeue - 1]
  BY DequeueAssumption DEF PutBack

\* The watcher sends the content of the document it sees.
LEMMA PublicationMessageType ==
  ASSUME L!TypeOK, NEW s \in ServiceId, L!Status[s] = "approved"
  PROVE  PublicationMessage(s) \in PublicationMessages
  <1>1. lifecycle[s] \in L!Document
    BY DEF L!TypeOK, L!Status
  <1>2. /\ lifecycle[s].content.data \in Data
        /\ lifecycle[s].content.autoPublish \in BOOLEAN
    BY <1>1 DEF L!Document, L!Content
  <1>3. QED
    BY <1>2, DequeueAssumption DEF PublicationMessage, PublicationMessages

\* TypeOK is not inductive: the watcher looks at a document without asking whether
\* it is there. It is, for only a write puts a service in the feed.
ChangedIsStored == \A s \in changed : lifecycle[s] # NoItem

LEMMA ChangedStep ==
  TypeOK /\ ChangedIsStored /\ [Next]_vars => ChangedIsStored'
  <1> SUFFICES ASSUME TypeOK, ChangedIsStored, [Next]_vars PROVE ChangedIsStored'
    OBVIOUS
  <1>1. \A z \in ServiceId : lifecycle'[z] = lifecycle[z] \/ lifecycle'[z] # NoItem
    BY LifecycleStep, LifecycleStores DEF TypeOK
  <1>2. CASE StartRequest \/ EndRequest
    BY <1>1, <1>2 DEF StartRequest, EndRequest, Feed, ChangedIsStored, TypeOK
  <1>3. CASE UNCHANGED lifecycleVars /\ changed' \subseteq changed
    BY <1>3 DEF lifecycleVars, ChangedIsStored
  <1>4. QED
    BY <1>2, <1>3 DEF Next, Request, Platform, Check, Watcher, Watch, SkipChange,
       Publicator, StartRelease, EndRelease, FailRelease, Deletor,
       HandleDeletion, FailDeletion, Act, EndAct, vars, systemVars

LEMMA TypeStep == TypeOK /\ ChangedIsStored /\ [Next]_vars => TypeOK'
  <1> SUFFICES ASSUME TypeOK, ChangedIsStored, [Next]_vars PROVE TypeOK'
    OBVIOUS
  <1>1. L!TypeOK' /\ P!TypeOK'
    BY LifecycleStep, LifecycleTypeStep, PublicationStep, PublicationTypeStep
    DEF TypeOK
  <1>2. hasty' \in BOOLEAN
    BY DEF Next, vars, TypeOK
  <1> DEFINE Deletions == [id : ServiceId, dequeueCount : 0..MaxDequeue - 1]
             Rest == /\ changed' \in SUBSET ServiceId
                     /\ requestPublication' \in SUBSET PublicationMessages
                     /\ requestDeletion' \in SUBSET Deletions
                     /\ leased' \in [Worker -> PublicationMessages \cup {Idle}]
                     /\ checked' \in [Caller -> [id : ServiceId,
                                                 action : {"publish", "unpublish"}]
                                                \cup {Idle}]
                     /\ abandoned' \in SUBSET ServiceId
                     /\ unpublishedAt' \in [ServiceId -> Nat]
  <1>3. CASE StartRequest \/ EndRequest
    <2>1. changed' \in SUBSET ServiceId
      BY <1>3 DEF StartRequest, EndRequest, Feed, TypeOK
    <2>2. Rest
      BY <1>3, <2>1 DEF StartRequest, EndRequest, queueVars, TypeOK
    <2>3. QED
      BY <1>1, <1>2, <2>2 DEF TypeOK
  <1>4. ASSUME NEW u \in Caller, NEW s \in ServiceId,
               NEW action \in {"publish", "unpublish"}, Check(u, s, action)
        PROVE  TypeOK'
    <2>1. Rest
      BY <1>4 DEF Check, queueVars, TypeOK
    <2>2. QED
      BY <1>1, <1>2, <2>1 DEF TypeOK
  <1>5. ASSUME NEW s \in ServiceId, NEW checkpoint \in BOOLEAN,
               Watch(s, checkpoint)
        PROVE  TypeOK'
    <2>1. requestPublication' \subseteq PublicationMessages
      <3>1. lifecycle[s].state = "approved" => L!Status[s] = "approved"
        BY <1>5 DEF Watch, ChangedIsStored, L!Status
      <3>2. QED
        BY <1>5, <3>1, PublicationMessageType DEF Watch, TypeOK
    <2>2. DeletionMessage(s) \in Deletions
      BY DequeueAssumption DEF DeletionMessage
    <2>3. Rest
      BY <1>5, <2>1, <2>2 DEF Watch, TypeOK
    <2>4. QED
      BY <1>1, <1>2, <2>3 DEF TypeOK
  <1>6. ASSUME NEW s \in ServiceId, SkipChange(s)
        PROVE  TypeOK'
    <2>1. Rest
      BY <1>6 DEF SkipChange, TypeOK
    <2>2. QED
      BY <1>1, <1>2, <2>1 DEF TypeOK
  <1>7. ASSUME NEW w \in Worker, NEW m \in requestPublication, StartRelease(w, m)
        PROVE  TypeOK'
    <2>1. Rest
      BY <1>7 DEF StartRelease, TypeOK
    <2>2. QED
      BY <1>1, <1>2, <2>1 DEF TypeOK
  <1>8. ASSUME NEW w \in Worker,
               (\E deleted \in BOOLEAN : EndRelease(w, deleted)) \/ FailRelease(w)
        PROVE  TypeOK'
    <2>1. leased[w] \in PublicationMessages
      BY <1>8 DEF EndRelease, FailRelease, TypeOK
    <2>2. PutBack(requestPublication, leased[w]) \subseteq PublicationMessages
      BY <2>1, PutBackType DEF TypeOK
    <2>3. GiveUp(leased[w]) \subseteq ServiceId
      BY <2>1 DEF GiveUp, PublicationMessages, TypeOK
    <2>4. Rest
      BY <1>8, <2>2, <2>3 DEF EndRelease, FailRelease, TypeOK
    <2>5. QED
      BY <1>1, <1>2, <2>4 DEF TypeOK
  <1>9. ASSUME NEW m \in requestDeletion, Deletor(m)
        PROVE  TypeOK'
    <2>1. m \in Deletions /\ requestDeletion \ {m} \subseteq Deletions
      BY DEF TypeOK
    <2>2. PutBack(requestDeletion \ {m}, m) \subseteq Deletions
      BY <2>1, PutBackDeletionType
    <2>3. GiveUp(m) \subseteq ServiceId
      BY <2>1 DEF GiveUp, TypeOK
    <2>4. Rest
      BY <1>9, <2>1, <2>2, <2>3 DEF Deletor, HandleDeletion, FailDeletion, TypeOK
    <2>5. QED
      BY <1>1, <1>2, <2>4 DEF TypeOK
  <1>10. ASSUME NEW u \in Caller, Act(u) \/ EndAct(u)
         PROVE  TypeOK'
    <2>1. unpublishedAt' \in [ServiceId -> Nat]
      BY <1>10 DEF Act, EndAct, TypeOK, L!TypeOK
    <2>2. Rest
      BY <1>10, <2>1 DEF Act, EndAct, queueVars, TypeOK
    <2>3. QED
      BY <1>1, <1>2, <2>2 DEF TypeOK
  <1>11. CASE UNCHANGED vars
    BY <1>1, <1>11 DEF vars, systemVars, queueVars, TypeOK
  <1>12. QED
    BY <1>3, <1>4, <1>5, <1>6, <1>7, <1>8, <1>9, <1>10, <1>11
    DEF Next, Request, Platform, Watcher, Publicator

LEMMA InitType == Init => TypeOK /\ ChangedIsStored
  <1>1. Init => L!TypeOK
    BY DEF Init, L!Init, L!TypeOK
  <1>2. Init => P!TypeOK
    BY DEF Init, P!Init, P!TypeOK
  <1>3. Init => /\ leased \in [Worker -> PublicationMessages \cup {Idle}]
                /\ checked \in [Caller -> [id : ServiceId,
                                           action : {"publish", "unpublish"}]
                                          \cup {Idle}]
                /\ unpublishedAt \in [ServiceId -> Nat]
    BY DEF Init
  <1>4. QED
    BY <1>1, <1>2, <1>3 DEF Init, TypeOK, ChangedIsStored

\* The queues, the calls and both containers keep their shape.
THEOREM TypeCorrect == Spec => []TypeOK
  BY InitType, TypeStep, ChangedStep, PTL DEF Spec

-----------------------------------------------------------------------------
(* The pipeline implements the two state machines                           *)

\* Seen through the lifecycle container and the calls on it, the pipeline is the
\* lifecycle: the watcher, the queues and the controllers never write it.
THEOREM ImplementsLifecycle == Spec => L!Spec
  <1>1. Init => L!Init
    BY DEF Init
  <1>2. QED
    BY <1>1, LifecycleStep, PTL DEF Spec, L!Spec

\* Seen through the publication container, it is the publication: workers, deletor
\* and controllers only use its operations, on services and contents that exist.
THEOREM ImplementsPublication == Spec => P!Spec
  <1>1. Init => P!Init
    BY DEF Init
  <1>2. QED
    BY <1>1, TypeCorrect, PublicationStep, PTL DEF Spec, P!Spec

-----------------------------------------------------------------------------
(* What is published was submitted and approved                             *)

\* In a history, a version of s with this content was approved, after one with the same content
\* was submitted, to be published on approval if publish.
WasApproved(history, s, data, publish) ==
  \E v, w \in history :
    /\ v.id = s /\ w.id = s
    /\ v.document.state = "submitted" /\ w.document.state = "approved"
    /\ v.document.version < w.document.version
    /\ v.document.content.data = data
    /\ w.document.content.data = data
    /\ publish => v.document.content.autoPublish

\* PublishedWasSubmitted says nothing of what is on its way: every message in the
\* queue or in the hands of a worker, and every release there has been, must carry
\* a content that was approved. The invariants of the components tie them to the
\* two containers.
IInv ==
  /\ TypeOK
  /\ ChangedIsStored
  /\ Lifecycle!ApprovalInv
  /\ PublicationInv
  /\ \A m \in requestPublication : WasApproved(versions, m.id, m.data, m.autoPublish)
  /\ \A w \in Worker :
       leased[w] # Idle =>
         WasApproved(versions, leased[w].id, leased[w].data,
                     leased[w].autoPublish)
  /\ \A x \in released : WasApproved(versions, x.id, x.data, x.publish)

\* Versions are never forgotten.
LEMMA VersionsGrow == [L!Next]_L!vars => versions \subseteq versions'
  <1>1. [Lifecycle!Next]_Lifecycle!vars => versions \subseteq versions'
    BY LifecycleAssumptions, Lifecycle!VersionsGrow DEF Lifecycle!VersionsGrow
  <1>2. QED
    BY <1>1, SameLifecycle

LEMMA ApprovedStays ==
  ASSUME versions \subseteq versions', NEW s, NEW data, NEW publish,
         WasApproved(versions, s, data, publish)
  PROVE  WasApproved(versions', s, data, publish)
  BY DEF WasApproved

\* The document the watcher sees is a version: if it is approved, its content was
\* submitted before.
LEMMA WatchedWasApproved ==
  ASSUME TypeOK, Lifecycle!ApprovalInv, NEW s \in ServiceId,
         lifecycle[s] # NoItem, lifecycle[s].state = "approved"
  PROVE  WasApproved(versions, s, lifecycle[s].content.data,
                     lifecycle[s].content.autoPublish)
  <1> DEFINE w == [id |-> s, document |-> lifecycle[s]]
  <1>1. w \in versions
    BY DEF Lifecycle!ApprovalInv, Lifecycle!Stored
  <1>2. Lifecycle!Submitted(versions, s, lifecycle[s].content,
                            lifecycle[s].version)
    BY <1>1 DEF Lifecycle!ApprovalInv, Lifecycle!ApprovedWasSubmitted
  <1>3. QED
    BY <1>1, <1>2 DEF Lifecycle!Submitted, WasApproved

LEMMA ApprovedStep == IInv /\ [Next]_vars => IInv'
  <1> SUFFICES ASSUME IInv, [Next]_vars PROVE IInv'
    OBVIOUS
  <1>1. TypeOK /\ TypeOK' /\ ChangedIsStored /\ ChangedIsStored'
    BY TypeStep, ChangedStep DEF IInv
  <1>2. Lifecycle!ApprovalInv /\ Lifecycle!ApprovalInv'
    BY <1>1, LifecycleStep, ApprovalStep DEF IInv, TypeOK
  <1>3. PublicationInv'
    BY <1>1, PublicationStep, JustifiedStep DEF IInv
  <1>4. versions \subseteq versions'
    BY LifecycleStep, VersionsGrow
  <1> DEFINE Sent(m) == WasApproved(versions', m.id, m.data, m.autoPublish)
             Queued == \A m \in requestPublication' : Sent(m)
             Held == \A w \in Worker : leased'[w] # Idle => Sent(leased'[w])
             Done == \A x \in released' : WasApproved(versions', x.id, x.data, x.publish)
  <1>5. /\ \A m \in requestPublication : Sent(m)
        /\ \A w \in Worker : leased[w] # Idle => Sent(leased[w])
        /\ \A x \in released : WasApproved(versions', x.id, x.data, x.publish)
    BY <1>4, ApprovedStays DEF IInv
  <1>6. (Queued /\ Held /\ Done) => IInv'
    BY <1>1, <1>2, <1>3 DEF IInv, WasApproved
  <1> HIDE DEF Sent
  <1>7. ASSUME NEW s \in ServiceId, NEW checkpoint \in BOOLEAN,
               Watch(s, checkpoint)
        PROVE  IInv'
    <2>1. lifecycle[s].state = "approved" => Sent(PublicationMessage(s))
      BY <1>1, <1>2, <1>4, <1>7, WatchedWasApproved, ApprovedStays
      DEF Watch, ChangedIsStored, PublicationMessage, Sent
    <2>2. QED
      BY <1>5, <1>6, <1>7, <2>1 DEF Watch, publicationVars
  <1>8. ASSUME NEW w \in Worker, NEW m \in requestPublication, StartRelease(w, m)
        PROVE  IInv'
    <2>1. Sent(m)
      BY <1>5
    <2>2. Queued /\ Held
      BY <1>1, <1>5, <1>8, <2>1 DEF StartRelease, TypeOK
    <2>3. released' = released \cup {[id |-> m.id, data |-> m.data,
                                      publish |-> m.autoPublish]}
      BY <1>8 DEF StartRelease, P!release
    <2>4. Done
      BY <1>5, <2>1, <2>3 DEF Sent
    <2>5. QED
      BY <1>6, <2>2, <2>4
  <1>9. ASSUME NEW w \in Worker,
               (\E deleted \in BOOLEAN : EndRelease(w, deleted)) \/ FailRelease(w)
        PROVE  IInv'
    <2>1. leased[w] \in PublicationMessages /\ Sent(leased[w])
      BY <1>1, <1>5, <1>9 DEF EndRelease, FailRelease, TypeOK
    <2>2. \A m \in PutBack(requestPublication, leased[w]) : Sent(m)
      BY <1>5, <2>1 DEF PutBack, PublicationMessages, Sent
    <2>3. Queued /\ Held
      BY <1>1, <1>5, <1>9, <2>2 DEF EndRelease, FailRelease, TypeOK
    <2>4. Done
      BY <1>5, <1>9 DEF EndRelease, FailRelease, P!Save, P!SaveError
    <2>5. QED
      BY <1>6, <2>3, <2>4
  <1>10. CASE UNCHANGED <<requestPublication, leased, released>>
    BY <1>5, <1>6, <1>10
  <1>11. QED
    BY <1>7, <1>8, <1>9, <1>10 DEF Next, Request, Platform, StartRequest,
       EndRequest, Check, Watcher, SkipChange, Publicator, Deletor,
       HandleDeletion, FailDeletion, Act, EndAct, P!Publish, P!Unpublish, P!Save,
       P!SaveError, P!Delete, queueVars, publicationVars, systemVars, vars

\* A content in the publication container was released, and what was released was
\* approved, after it was submitted.
THEOREM PublishedCorrect == Spec => []PublishedWasSubmitted
  <1>1. Init => IInv
    <2>1. Init => TypeOK /\ ChangedIsStored
      BY InitType
    <2>2. Init => Lifecycle!ApprovalInv
      BY DEF Init, L!Init, Lifecycle!ApprovalInv, Lifecycle!Stored,
         Lifecycle!Dated, Lifecycle!Backed, Lifecycle!ApprovedWasSubmitted
    <2>3. Init => PublicationInv
      BY <2>1 DEF Init, TypeOK, P!Init, PublicationInv
    <2>4. QED
      BY <2>1, <2>2, <2>3 DEF Init, IInv, P!Init
  <1>2. IInv => PublishedWasSubmitted
    <2> SUFFICES ASSUME IInv, NEW s \in ServiceId, publication[s] # NoItem
                 PROVE  \E v, w \in versions :
                          /\ v.id = s /\ w.id = s
                          /\ v.document.state = "submitted"
                          /\ w.document.state = "approved"
                          /\ v.document.version < w.document.version
                          /\ v.document.content.data = publication[s].data
                          /\ w.document.content.data = publication[s].data
                          /\ publication[s].state = "published" =>
                               v.document.content.autoPublish \/ s \in asked
      BY DEF PublishedWasSubmitted
    <2>1. PICK x \in released :
            /\ x.id = s
            /\ x.data = publication[s].data
            /\ publication[s].state = "published" => x.publish \/ s \in asked
      BY DEF IInv, PublicationInv, Justified
    <2>2. WasApproved(versions, s, publication[s].data, x.publish)
      BY <2>1 DEF IInv
    <2>3. QED
      BY <2>1, <2>2 DEF WasApproved
  <1>3. QED
    BY <1>1, <1>2, ApprovedStep, PTL DEF Spec

-----------------------------------------------------------------------------
(* Once all has settled, the publication mirrors the lifecycle              *)

\* An approval or a deletion that is about to be saved, or that was.
Deciding(c) == calls[c] # Idle /\ calls[c].state \in {"approved", "deleted"}

Decided(s) == lifecycle[s] # NoItem /\ lifecycle[s].state \in {"approved", "deleted"}

\* It is on its way to the publication container.
Underway ==
  \/ \E s \in changed : Decided(s)
  \/ requestPublication # {} \/ requestDeletion # {}
  \/ \E w \in Worker : leased[w] # Idle

\* The owner publishes or unpublishes.
Asking == \E u \in Caller : checked[u] # Idle \/ pending[u] # Idle

\* What waiting for everything to settle comes to: one decision at a time.
OneAtATime ==
  /\ \A c, d \in Client : Deciding(c) /\ Deciding(d) => c = d
  /\ (\E c \in Client : Deciding(c)) => ~ Underway /\ ~ Asking
  /\ Asking => ~ Underway

\* A message to publish is about a service that is not deleted, and if it is still
\* approved, about the content it has.
Fresh(m) ==
  /\ lifecycle[m.id] # NoItem
  /\ lifecycle[m.id].state # "deleted"
  /\ lifecycle[m.id].state = "approved" => lifecycle[m.id].content.data = m.data

Messages ==
  /\ \A m \in requestPublication : Fresh(m)
  /\ \A w \in Worker : leased[w] # Idle => Fresh(leased[w])
  /\ \A m \in requestDeletion :
       lifecycle[m.id] # NoItem /\ lifecycle[m.id].state # "approved"

\* What a worker is about to save is the content of its message.
Leases ==
  \A w \in Worker :
    IF leased[w] = Idle THEN pending[w] = Idle
    ELSE /\ pending[w] # Idle
         /\ pending[w].id = leased[w].id
         /\ pending[w].document.data = leased[w].data

\* What a caller is about to save is the content that is there.
Callers ==
  \A u \in Caller : pending[u] # Idle =>
    /\ publication[pending[u].id] # NoItem
    /\ pending[u].document.data = publication[pending[u].id].data

\* A decision is in the publication container or on its way there.
Mirrors(s) ==
  lifecycle[s] # NoItem =>
    /\ lifecycle[s].state = "approved" =>
         \/ s \in changed
         \/ \E m \in requestPublication : m.id = s
         \/ \E w \in Worker : leased[w] # Idle /\ leased[w].id = s
         \/ publication[s] # NoItem /\ publication[s].data = lifecycle[s].content.data
    /\ lifecycle[s].state = "deleted" =>
         \/ s \in changed
         \/ \E m \in requestDeletion : m.id = s
         \/ publication[s] = NoItem

\* SettledAgrees is not inductive: it says nothing of what is under way, which must
\* be about the last decision, and about no other.
Orderly ==
  /\ OneAtATime /\ Messages /\ Callers
  /\ \A s \in ServiceId \ abandoned : Mirrors(s)

MirrorInv == TypeOK /\ ChangedIsStored /\ (~ hasty => Leases /\ Orderly)

\* A request registers one call, or patches one document: its state and its data
\* stay.
LEMMA RequestMoves ==
  ASSUME L!TypeOK, NEW c \in Client, NEW s \in ServiceId,
         L!UserRequest(c, s) \/ L!ReviewRequest(c, s)
  PROVE  \/ /\ UNCHANGED lifecycle
            /\ calls[c] = Idle
            /\ \A d \in Client \ {c} : calls'[d] = calls[d]
         \/ /\ UNCHANGED calls
            /\ lifecycle[s] # NoItem
            /\ \A z \in ServiceId \ {s} : lifecycle'[z] = lifecycle[z]
            /\ lifecycle'[s] # NoItem
            /\ lifecycle'[s].state = lifecycle[s].state
            /\ lifecycle'[s].content.data = lifecycle[s].content.data
  <1>1. ASSUME NEW action, NEW authz, NEW content, L!apply(c, s, action, authz, content)
        PROVE  /\ UNCHANGED lifecycle
               /\ calls[c] = Idle
               /\ \A d \in Client \ {c} : calls'[d] = calls[d]
    BY <1>1 DEF L!apply, L!TypeOK
  <1>2. ASSUME NEW g \in Group \cup {NoGroup}, L!Patch(c, s, g)
        PROVE  /\ UNCHANGED calls
               /\ lifecycle[s] # NoItem
               /\ \A z \in ServiceId \ {s} : lifecycle'[z] = lifecycle[z]
               /\ lifecycle'[s] # NoItem
               /\ lifecycle'[s].state = lifecycle[s].state
               /\ lifecycle'[s].content.data = lifecycle[s].content.data
    <2>1. PICK content : content = [lifecycle[s].content EXCEPT !.group_id = g]
      OBVIOUS
    <2>2. lifecycle[s] \in L!Document
      BY <1>2 DEF L!Patch, L!TypeOK
    <2>3. content \in L!Content /\ content.data = lifecycle[s].content.data
      BY <2>1, <2>2 DEF L!Document, L!Content, L!MaybeGroup
    <2>4. PICK document : document = [content |-> content, state |-> lifecycle[s].state,
                                      version |-> etag + 1]
      OBVIOUS
    <2>5. /\ document \in L!Document
          /\ document.state = lifecycle[s].state
          /\ document.content.data = lifecycle[s].content.data
      BY <2>2, <2>3, <2>4 DEF L!Document, L!TypeOK
    <2>6. lifecycle' = [lifecycle EXCEPT ![s] = document] /\ UNCHANGED calls
      BY <1>2, <2>1, <2>4 DEF L!Patch, L!Write
    <2>7. QED
      BY <1>2, <2>5, <2>6, MarkerAssumption DEF L!Patch, L!TypeOK
  <1>3. QED
    BY <1>1, <1>2 DEF L!UserRequest, L!ReviewRequest, L!Edit, L!Submit, L!Delete,
       L!Create, L!Approve, L!Reject, L!MaybeGroup

\* A save ends one call, and stores its state in the document it is about.
LEMMA SaveMoves ==
  ASSUME L!TypeOK, NEW c \in Client, L!Save(c) \/ L!SaveError(c)
  PROVE  /\ calls[c] # Idle /\ calls'[c] = Idle
         /\ \A d \in Client \ {c} : calls'[d] = calls[d]
         /\ \A z \in ServiceId :
              \/ lifecycle'[z] = lifecycle[z]
              \/ lifecycle'[z] # NoItem /\ lifecycle'[z].state = calls[c].state
  <1>1. CASE L!SaveError(c)
    BY <1>1 DEF L!SaveError, L!TypeOK
  <1>2. CASE L!Save(c)
    <2>1. calls[c] \in L!Call
      BY <1>2 DEF L!Save, L!TypeOK
    <2>2. PICK document : document = [content |-> calls[c].content,
                                      state |-> calls[c].state, version |-> etag + 1]
      OBVIOUS
    <2>3. document \in L!Document /\ document.state = calls[c].state
      BY <2>1, <2>2 DEF L!Document, L!Call, L!TypeOK
    <2>4. /\ lifecycle' = [lifecycle EXCEPT ![calls[c].id] = document]
          /\ calls' = [calls EXCEPT ![c] = Idle]
          /\ calls[c] # Idle
      BY <1>2, <2>2 DEF L!Save, L!Write
    <2>5. QED
      BY <2>1, <2>3, <2>4, MarkerAssumption DEF L!TypeOK, L!Call
  <1>3. QED
    BY <1>1, <1>2

LEMMA SettledIsQuiet ==
  ASSUME TypeOK, Leases, Settled
  PROVE  /\ \A c \in Client : calls[c] = Idle
         /\ changed = {} /\ ~ Underway /\ ~ Asking
  BY DEF Settled, Leases, Underway, Asking

\* Who writes an approved or deleted document does so alone.
LEMMA DecisionIsAlone ==
  ASSUME TypeOK, ChangedIsStored, Leases, OneAtATime,
         StartRequest \/ EndRequest,
         hasty' = (hasty \/ (Decisive /\ ~ Settled)), ~ hasty',
         NEW z \in ServiceId, lifecycle'[z] # lifecycle[z], Decided(z)'
  PROVE  /\ ~ Underway /\ ~ Asking
         /\ \A d \in Client : ~ Deciding(d)'
  <1>1. L!TypeOK
    BY DEF TypeOK
  <1>2. CASE StartRequest
    <2>1. PICK c \in Client : \E s \in ServiceId :
            L!UserRequest(c, s) \/ L!ReviewRequest(c, s)
      BY <1>2 DEF StartRequest
    <2>2. PICK s \in ServiceId : L!UserRequest(c, s) \/ L!ReviewRequest(c, s)
      BY <2>1
    <2>3. UNCHANGED calls
      BY <1>1, <2>2, RequestMoves
    <2>4. Decisive
      BY <2>3 DEF Decisive, Decided
    <2>5. Settled
      BY <2>4
    <2>6. QED
      BY <2>3, <2>5, SettledIsQuiet DEF Deciding
  <1>3. CASE EndRequest
    <2>1. PICK c \in Client : L!Save(c) \/ L!SaveError(c)
      BY <1>3 DEF EndRequest
    <2>2. /\ calls[c] # Idle /\ calls'[c] = Idle
          /\ \A d \in Client \ {c} : calls'[d] = calls[d]
          /\ lifecycle'[z].state = calls[c].state
      BY <1>1, <2>1, SaveMoves
    <2>3. Deciding(c)
      BY <2>2 DEF Deciding, Decided
    <2>4. \A d \in Client : ~ Deciding(d)'
      BY <2>2, <2>3 DEF OneAtATime, Deciding
    <2>5. QED
      BY <2>3, <2>4 DEF OneAtATime
  <1>4. QED
    BY <1>2, <1>3

\* Who starts an approval or a deletion does so when all has settled.
LEMMA DecisionStarts ==
  ASSUME TypeOK, Leases, StartRequest \/ EndRequest,
         hasty' = (hasty \/ (Decisive /\ ~ Settled)), ~ hasty',
         NEW c \in Client, Deciding(c)', ~ Deciding(c)
  PROVE  /\ \A d \in Client \ {c} : ~ Deciding(d)'
         /\ changed = {} /\ ~ Underway /\ ~ Asking
         /\ UNCHANGED lifecycle
  <1>1. L!TypeOK
    BY DEF TypeOK
  <1>2. calls'[c] # calls[c] /\ calls'[c] # Idle
    BY DEF Deciding
  <1>3. ASSUME NEW d \in Client, L!Save(d) \/ L!SaveError(d)
        PROVE  FALSE
    BY <1>1, <1>2, <1>3, SaveMoves
  <1>4. PICK d \in Client : \E s \in ServiceId :
          L!UserRequest(d, s) \/ L!ReviewRequest(d, s)
    BY <1>3 DEF StartRequest, EndRequest
  <1>5. PICK s \in ServiceId : L!UserRequest(d, s) \/ L!ReviewRequest(d, s)
    BY <1>4
  <1>6. /\ UNCHANGED lifecycle
        /\ calls[d] = Idle
        /\ \A e \in Client \ {d} : calls'[e] = calls[e]
    BY <1>1, <1>2, <1>5, RequestMoves
  <1>7. d = c /\ Decisive
    BY <1>2, <1>6 DEF Decisive, Deciding
  <1>8. Settled
    BY <1>7
  <1>9. QED
    BY <1>6, <1>7, <1>8, SettledIsQuiet DEF Deciding

LEMMA RequestKeepsOrder ==
  ASSUME TypeOK, ChangedIsStored, Leases, Orderly,
         StartRequest \/ EndRequest,
         hasty' = (hasty \/ (Decisive /\ ~ Settled)), ~ hasty'
  PROVE  Orderly' /\ Leases'
  <1>1. UNCHANGED <<publication, pending, requestPublication, requestDeletion, leased,
                    abandoned, checked>>
    BY DEF StartRequest, EndRequest, publicationVars, queueVars
  <1>2. /\ changed \subseteq changed'
        /\ \A z \in changed' : z \in changed \/ lifecycle'[z] # lifecycle[z]
        /\ \A z \in ServiceId : lifecycle'[z] # lifecycle[z] => z \in changed'
    BY DEF StartRequest, EndRequest, Feed
  <1>3. changed' \subseteq ServiceId
    BY DEF StartRequest, EndRequest, Feed, TypeOK
  <1>4. \A z \in ServiceId : lifecycle'[z] = lifecycle[z] \/ lifecycle'[z] # NoItem
    <2>1. [L!Next]_L!vars
      BY DEF StartRequest, EndRequest, L!Next
    <2>2. QED
      BY <2>1, LifecycleStores DEF TypeOK
  <1>5. Asking' <=> Asking
    BY <1>1 DEF Asking
  <1>6. OneAtATime
    BY DEF Orderly
  <1>7. ASSUME Underway', ~ Underway
        PROVE  \E z \in ServiceId : lifecycle'[z] # lifecycle[z] /\ Decided(z)'
    <2>1. \E z \in changed' : Decided(z)'
      BY <1>1, <1>7 DEF Underway
    <2>2. QED
      BY <1>2, <1>3, <1>7, <2>1 DEF Underway, Decided
  <1>8. OneAtATime'
    <2>1. ASSUME NEW c \in Client, NEW d \in Client, Deciding(c)', Deciding(d)'
          PROVE  c = d
      BY <1>6, <2>1, DecisionStarts DEF OneAtATime
    <2>2. ASSUME NEW c \in Client, Deciding(c)'
          PROVE  ~ Underway' /\ ~ Asking'
      <3>1. ~ Underway /\ ~ Asking
        BY <1>6, <2>2, DecisionStarts DEF OneAtATime
      <3>2. ~ Underway'
        BY <1>6, <1>7, <2>2, <3>1, DecisionIsAlone
      <3>3. QED
        BY <1>5, <3>1, <3>2
    <2>3. ASSUME Asking'
          PROVE  ~ Underway'
      <3>1. Asking /\ ~ Underway
        BY <1>5, <1>6, <2>3 DEF OneAtATime
      <3>2. QED
        BY <1>6, <1>7, <3>1, DecisionIsAlone
    <2>4. QED
      BY <2>1, <2>2, <2>3 DEF OneAtATime
  <1>9. Messages'
    <2>1. ASSUME Underway, NEW z \in ServiceId, lifecycle'[z] # lifecycle[z]
          PROVE  /\ lifecycle'[z] # NoItem
                 /\ lifecycle'[z].state \notin {"approved", "deleted"}
      BY <1>4, <1>6, <2>1, DecisionIsAlone DEF Decided
    <2>2. ASSUME NEW m, m.id \in ServiceId, Fresh(m), Underway
          PROVE  Fresh(m)'
      BY <2>1, <2>2 DEF Fresh
    <2>3. \A m \in requestPublication : m.id \in ServiceId
      BY DEF TypeOK, PublicationMessages
    <2>4. \A w \in Worker : leased[w] # Idle => leased[w].id \in ServiceId
      BY DEF TypeOK, PublicationMessages
    <2>5. \A m \in requestPublication : Fresh(m)'
      BY <2>2, <2>3 DEF Orderly, Messages, Underway
    <2>6. \A w \in Worker : leased[w] # Idle => Fresh(leased[w])'
      BY <1>1, <2>2, <2>4 DEF Orderly, Messages, Underway, Fresh
    <2>7. \A m \in requestDeletion :
            lifecycle'[m.id] # NoItem /\ lifecycle'[m.id].state # "approved"
      <3>1. \A m \in requestDeletion : m.id \in ServiceId
        BY DEF TypeOK
      <3>2. QED
        BY <2>1, <3>1 DEF Orderly, Messages, Underway
    <2>8. QED
      BY <1>1, <2>5, <2>6, <2>7 DEF Messages, Fresh
  <1>10. Callers' /\ Leases'
    BY <1>1 DEF Orderly, Callers, Leases
  <1>11. ASSUME NEW s \in ServiceId \ abandoned
         PROVE  Mirrors(s)'
    <2>1. Mirrors(s)
      BY DEF Orderly
    <2>2. CASE s \in changed'
      BY <2>2 DEF Mirrors
    <2>3. CASE lifecycle'[s] = lifecycle[s]
      BY <1>1, <1>2, <2>1, <2>3 DEF Mirrors
    <2>4. QED
      BY <1>2, <2>2, <2>3
  <1>12. QED
    BY <1>1, <1>8, <1>9, <1>10, <1>11 DEF Orderly

\* The steps that leave the lifecycle alone and put nothing new under way keep the
\* decisions apart.
LEMMA StillOneAtATime ==
  ASSUME OneAtATime, UNCHANGED calls,
         Underway' => Underway, Asking' => Asking
  PROVE  OneAtATime'
  BY DEF OneAtATime, Deciding

LEMMA CheckKeepsOrder ==
  ASSUME TypeOK, Leases, Orderly, NEW u \in Caller, NEW s \in ServiceId, NEW action,
         Check(u, s, action),
         hasty' = (hasty \/ (Decisive /\ ~ Settled)), ~ hasty'
  PROVE  Orderly' /\ Leases'
  <1>1. UNCHANGED <<lifecycle, calls, publication, pending, changed,
                    requestPublication, requestDeletion, leased, abandoned>>
    BY DEF Check, lifecycleVars, publicationVars, queueVars
  <1>2. Messages' /\ Callers' /\ Leases' /\ \A z \in ServiceId \ abandoned : Mirrors(z)'
    BY <1>1 DEF Orderly, Messages, Fresh, Callers, Leases, Mirrors
  <1>3. Underway' <=> Underway
    BY <1>1 DEF Underway, Decided
  <1>4. CASE checked'[u] = Idle
    <2>1. checked' = checked
      BY <1>4 DEF Check, TypeOK
    <2>2. Asking' => Asking
      BY <1>1, <2>1 DEF Asking
    <2>3. QED
      BY <1>1, <1>2, <1>3, <2>2, StillOneAtATime DEF Orderly
  <1>5. CASE checked'[u] # Idle
    <2>1. Decisive
      BY <1>5 DEF Check, Decisive
    <2>2. ~ Underway /\ \A c \in Client : ~ Deciding(c)
      BY <2>1, SettledIsQuiet DEF Deciding
    <2>3. OneAtATime'
      BY <1>1, <1>3, <2>2 DEF OneAtATime, Deciding
    <2>4. QED
      BY <1>1, <1>2, <2>3 DEF Orderly
  <1>6. QED
    BY <1>4, <1>5

LEMMA WatchKeepsOrder ==
  ASSUME TypeOK, ChangedIsStored, Leases, Orderly,
         NEW s \in ServiceId, NEW checkpoint, Watch(s, checkpoint)
  PROVE  Orderly' /\ Leases'
  <1>1. UNCHANGED <<lifecycle, calls, publication, pending, leased, abandoned, checked>>
    BY DEF Watch, lifecycleVars, publicationVars
  <1>2. s \in changed /\ lifecycle[s] # NoItem /\ changed \ {s} \subseteq changed'
        /\ changed' \subseteq changed
    BY DEF Watch, ChangedIsStored
  <1>3. /\ requestPublication \subseteq requestPublication'
        /\ \A m \in requestPublication' : \/ m \in requestPublication
                                          \/ lifecycle[s].state = "approved"
                                             /\ m = PublicationMessage(s)
        /\ lifecycle[s].state = "approved"
             => PublicationMessage(s) \in requestPublication'
    BY DEF Watch
  <1>4. /\ requestDeletion \subseteq requestDeletion'
        /\ \A m \in requestDeletion' : \/ m \in requestDeletion
                                       \/ lifecycle[s].state = "deleted"
                                          /\ m = DeletionMessage(s)
        /\ lifecycle[s].state = "deleted" => DeletionMessage(s) \in requestDeletion'
    BY DEF Watch
  <1>5. /\ PublicationMessage(s).id = s /\ DeletionMessage(s).id = s
        /\ PublicationMessage(s).data = lifecycle[s].content.data
    BY DEF PublicationMessage, DeletionMessage
  <1>6. Underway' => Underway
    BY <1>1, <1>2, <1>3, <1>4 DEF Underway, Decided
  <1>7. OneAtATime'
    BY <1>1, <1>6, StillOneAtATime DEF Orderly, Asking
  <1>8. Messages'
    BY <1>1, <1>2, <1>3, <1>4, <1>5 DEF Orderly, Messages, Fresh
  <1>9. ASSUME NEW z \in ServiceId \ abandoned
        PROVE  Mirrors(z)'
    <2>1. Mirrors(z)
      BY DEF Orderly
    <2>2. CASE z = s
      BY <1>1, <1>3, <1>4, <1>5, <2>2 DEF Mirrors
    <2>3. CASE z # s
      BY <1>1, <1>2, <1>3, <1>4, <2>1, <2>3 DEF Mirrors
    <2>4. QED
      BY <2>2, <2>3
  <1>10. QED
    BY <1>1, <1>7, <1>8, <1>9 DEF Orderly, Callers, Leases

LEMMA SkipKeepsOrder ==
  ASSUME Leases, Orderly, NEW s \in ServiceId, SkipChange(s)
  PROVE  Orderly' /\ Leases'
  <1>1. UNCHANGED <<lifecycle, calls, publication, pending, requestPublication,
                    requestDeletion, leased, checked>>
    BY DEF SkipChange, lifecycleVars, publicationVars
  <1>2. changed' = changed \ {s} /\ abandoned' = abandoned \cup {s}
    BY DEF SkipChange
  <1>3. Underway' => Underway
    BY <1>1, <1>2 DEF Underway, Decided
  <1>4. OneAtATime'
    BY <1>1, <1>3, StillOneAtATime DEF Orderly, Asking
  <1>5. QED
    BY <1>1, <1>2, <1>4 DEF Orderly, Messages, Fresh, Callers, Leases, Mirrors

\* A message that is put back is about the same, or it is given up.
LEMMA PutBackKeeps ==
  ASSUME NEW queue, NEW m \in PublicationMessages
  PROVE  /\ queue \subseteq PutBack(queue, m)
         /\ \A x \in PutBack(queue, m) :
              x \in queue \/ (x.id = m.id /\ x.data = m.data)
         /\ (\E x \in PutBack(queue, m) : x.id = m.id) \/ m.id \in GiveUp(m)
         /\ abandoned \subseteq GiveUp(m)
  <1>1. PICK x : x = [m EXCEPT !.dequeueCount = @ + 1]
    OBVIOUS
  <1>2. x.id = m.id /\ x.data = m.data
    BY <1>1 DEF PublicationMessages
  <1>3. PutBack(queue, m) = IF m.dequeueCount + 1 < MaxDequeue THEN queue \cup {x}
                                                              ELSE queue
    BY <1>1 DEF PutBack
  <1>4. QED
    BY <1>2, <1>3 DEF GiveUp

LEMMA PutBackDeletionKeeps ==
  ASSUME NEW queue, NEW m \in [id : ServiceId, dequeueCount : 0..MaxDequeue - 1]
  PROVE  /\ queue \subseteq PutBack(queue, m)
         /\ \A x \in PutBack(queue, m) : x \in queue \/ x.id = m.id
         /\ (\E x \in PutBack(queue, m) : x.id = m.id) \/ m.id \in GiveUp(m)
         /\ abandoned \subseteq GiveUp(m)
  <1>1. PICK x : x = [m EXCEPT !.dequeueCount = @ + 1]
    OBVIOUS
  <1>2. x.id = m.id
    BY <1>1
  <1>3. PutBack(queue, m) = IF m.dequeueCount + 1 < MaxDequeue THEN queue \cup {x}
                                                              ELSE queue
    BY <1>1 DEF PutBack
  <1>4. QED
    BY <1>2, <1>3 DEF GiveUp

LEMMA StartReleaseKeepsOrder ==
  ASSUME TypeOK, Leases, Orderly, NEW w \in Worker, NEW m \in requestPublication,
         StartRelease(w, m)
  PROVE  Orderly' /\ Leases'
  <1>1. UNCHANGED <<lifecycle, calls, publication, changed, requestDeletion, abandoned,
                    checked>>
    BY DEF StartRelease, P!release, lifecycleVars
  <1>2. m \in PublicationMessages /\ m # Idle
    BY MarkerAssumption DEF TypeOK
  <1>3. PICK document : document =
          [data |-> m.data, state |-> IF m.autoPublish THEN "published" ELSE "unpublished"]
    OBVIOUS
  <1>4. document \in P!Document /\ document.data = m.data
    BY <1>2, <1>3 DEF P!Document, P!State, PublicationMessages
  <1>5. PICK write : write = [id |-> m.id, document |-> document]
    OBVIOUS
  <1>6. write \in P!Write /\ write.id = m.id /\ write.document = document /\ write # Idle
    BY <1>2, <1>4, <1>5, MarkerAssumption DEF P!Write, PublicationMessages
  <1>7. pending' = [pending EXCEPT ![w] = write]
    BY <1>3, <1>5 DEF StartRelease, P!release, P!Start
  <1>8. /\ leased[w] = Idle /\ leased'[w] = m
        /\ \A v \in Worker \ {w} : leased'[v] = leased[v]
        /\ requestPublication' = requestPublication \ {m}
    BY DEF StartRelease, TypeOK
  <1>9. /\ pending'[w] = write
        /\ \A r \in (Worker \cup Caller) \ {w} : pending'[r] = pending[r]
    BY <1>7 DEF TypeOK, P!TypeOK
  <1>10. \A u \in Caller : pending'[u] = pending[u]
    BY <1>9, RequestAssumption
  <1>11. OneAtATime'
    <2>1. Underway
      BY DEF Underway
    <2>2. Asking' => Asking
      BY <1>1, <1>10 DEF Asking
    <2>3. QED
      BY <1>1, <2>1, <2>2, StillOneAtATime DEF Orderly
  <1>12. Messages'
    BY <1>1, <1>8 DEF Orderly, Messages, Fresh
  <1>13. Callers'
    BY <1>1, <1>10 DEF Orderly, Callers
  <1>14. Leases'
    BY <1>2, <1>4, <1>6, <1>8, <1>9 DEF Leases
  <1>15. ASSUME NEW z \in ServiceId \ abandoned
         PROVE  Mirrors(z)'
    <2>1. Mirrors(z)
      BY DEF Orderly
    <2>2. (\E x \in requestPublication : x.id = z)
            => \/ \E x \in requestPublication' : x.id = z
               \/ leased'[w] # Idle /\ leased'[w].id = z
      BY <1>2, <1>8
    <2>3. QED
      BY <1>1, <1>8, <2>1, <2>2 DEF Mirrors
  <1>16. QED
    BY <1>1, <1>11, <1>12, <1>13, <1>14, <1>15 DEF Orderly

LEMMA EndReleaseKeepsOrder ==
  ASSUME TypeOK, Leases, Orderly, NEW w \in Worker,
         (\E deleted \in BOOLEAN : EndRelease(w, deleted)) \/ FailRelease(w)
  PROVE  Orderly' /\ Leases'
  <1> DEFINE m == leased[w]
  <1>1. UNCHANGED <<lifecycle, calls, changed, requestDeletion, checked>>
    BY DEF EndRelease, FailRelease, lifecycleVars
  <1>2. m # Idle /\ m \in PublicationMessages
    BY DEF EndRelease, FailRelease, TypeOK
  <1>3. /\ leased'[w] = Idle
        /\ \A v \in Worker \ {w} : leased'[v] = leased[v]
    BY DEF EndRelease, FailRelease, TypeOK
  <1>4. pending' = [pending EXCEPT ![w] = Idle]
    BY DEF EndRelease, FailRelease, P!Save, P!SaveError
  <1>5. /\ pending'[w] = Idle
        /\ \A r \in (Worker \cup Caller) \ {w} : pending'[r] = pending[r]
    BY <1>4 DEF TypeOK, P!TypeOK
  <1>6. \A u \in Caller : pending'[u] = pending[u]
    BY <1>5, RequestAssumption
  <1>7. Underway /\ ~ Asking
    BY <1>2 DEF Underway, Orderly, OneAtATime
  <1>8. /\ pending[w] # Idle /\ pending[w].id = m.id
        /\ pending[w].document.data = m.data
        /\ pending[w].document \in P!Document /\ pending[w].document # NoItem
    BY <1>2, MarkerAssumption DEF Leases, TypeOK, P!TypeOK, P!Write
  <1>9. /\ requestPublication \subseteq requestPublication'
        /\ \A x \in requestPublication' :
             x \in requestPublication \/ (x.id = m.id /\ x.data = m.data)
        /\ abandoned \subseteq abandoned'
    BY <1>2, PutBackKeeps DEF EndRelease, FailRelease
  <1>10. OneAtATime'
    <2>1. ~ Asking'
      BY <1>1, <1>6, <1>7 DEF Asking
    <2>2. QED
      BY <1>1, <1>7, <2>1, StillOneAtATime DEF Orderly
  <1>11. Messages'
    <2>1. Fresh(m)
      BY <1>2 DEF Orderly, Messages
    <2>2. QED
      BY <1>1, <1>3, <1>9, <2>1 DEF Orderly, Messages, Fresh
  <1>12. Callers'
    BY <1>6, <1>7 DEF Callers, Asking
  <1>13. Leases'
    BY <1>3, <1>5 DEF Leases
  <1>14. ASSUME NEW z \in ServiceId \ abandoned'
         PROVE  Mirrors(z)'
    <2>1. Mirrors(z) /\ Fresh(m)
      BY <1>2, <1>9 DEF Orderly, Messages
    <2>2. ASSUME z # m.id
          PROVE  publication'[z] = publication[z]
      BY <1>8, <2>2 DEF EndRelease, FailRelease, P!Save, P!SaveError, TypeOK, P!TypeOK
    <2>3. CASE z # m.id
      BY <1>1, <1>3, <1>9, <2>1, <2>2, <2>3 DEF Mirrors
    <2>4. CASE z = m.id /\ P!Save(w)
      <3>1. publication'[z] # NoItem /\ publication'[z].data = m.data
        BY <1>8, <2>4 DEF P!Save, TypeOK, P!TypeOK
      <3>2. QED
        BY <1>1, <2>1, <2>4, <3>1 DEF Mirrors, Fresh
    <2>5. CASE z = m.id /\ FailRelease(w)
      <3>1. \E x \in requestPublication' : x.id = z
        BY <1>2, <2>5, PutBackKeeps DEF FailRelease
      <3>2. QED
        BY <1>1, <2>1, <2>5, <3>1 DEF Mirrors, Fresh
    <2>6. QED
      BY <2>3, <2>4, <2>5 DEF EndRelease
  <1>15. QED
    BY <1>10, <1>11, <1>12, <1>13, <1>14 DEF Orderly

LEMMA DeletorKeepsOrder ==
  ASSUME TypeOK, Leases, Orderly, NEW m \in requestDeletion, Deletor(m)
  PROVE  Orderly' /\ Leases'
  <1>1. UNCHANGED <<lifecycle, calls, changed, requestPublication, leased, pending,
                    checked>>
    BY DEF Deletor, HandleDeletion, FailDeletion, P!Delete, lifecycleVars,
           publicationVars
  <1>2. m \in [id : ServiceId, dequeueCount : 0..MaxDequeue - 1]
    BY DEF TypeOK
  <1>3. Underway /\ ~ Asking
    BY DEF Underway, Orderly, OneAtATime
  <1>4. /\ requestDeletion \ {m} \subseteq requestDeletion'
        /\ \A x \in requestDeletion' : x \in requestDeletion \/ x.id = m.id
        /\ abandoned \subseteq abandoned'
    BY <1>2, PutBackDeletionKeeps DEF Deletor, HandleDeletion, FailDeletion
  <1>5. lifecycle[m.id] # NoItem /\ lifecycle[m.id].state # "approved"
    BY DEF Orderly, Messages
  <1>6. OneAtATime'
    BY <1>1, <1>3, StillOneAtATime DEF Orderly, Asking
  <1>7. Messages'
    BY <1>1, <1>4, <1>5 DEF Orderly, Messages, Fresh
  <1>8. Callers' /\ Leases'
    BY <1>1, <1>3 DEF Callers, Asking, Leases
  <1>9. ASSUME NEW z \in ServiceId \ abandoned'
        PROVE  Mirrors(z)'
    <2>1. Mirrors(z)
      BY <1>4 DEF Orderly
    <2>2. ASSUME z # m.id
          PROVE  publication'[z] = publication[z]
      BY <2>2 DEF Deletor, HandleDeletion, FailDeletion, P!Delete, publicationVars,
                  TypeOK, P!TypeOK
    <2>3. CASE z # m.id
      BY <1>1, <1>4, <2>1, <2>2, <2>3 DEF Mirrors
    <2>4. CASE z = m.id /\ \E deleted \in BOOLEAN : HandleDeletion(m, deleted)
      <3>1. publication'[z] = NoItem
        BY <2>4 DEF HandleDeletion, P!Delete, TypeOK, P!TypeOK
      <3>2. QED
        BY <1>1, <1>5, <2>4, <3>1 DEF Mirrors
    <2>5. CASE z = m.id /\ FailDeletion(m)
      <3>1. \E x \in requestDeletion' : x.id = z
        BY <1>2, <2>5, PutBackDeletionKeeps DEF FailDeletion
      <3>2. QED
        BY <1>1, <1>5, <2>5, <3>1 DEF Mirrors
    <2>6. QED
      BY <2>3, <2>4, <2>5 DEF Deletor
  <1>10. QED
    BY <1>6, <1>7, <1>8, <1>9 DEF Orderly

LEMMA ActKeepsOrder ==
  ASSUME TypeOK, Leases, Orderly, NEW u \in Caller, Act(u)
  PROVE  Orderly' /\ Leases'
  <1> DEFINE s == checked[u].id
  <1>1. UNCHANGED <<lifecycle, calls, publication, changed, requestPublication,
                    requestDeletion, leased, abandoned>>
    BY DEF Act, P!Publish, P!Unpublish, lifecycleVars, queueVars
  <1>2. checked[u] # Idle /\ s \in ServiceId
    BY DEF Act, TypeOK
  <1>3. \/ UNCHANGED pending
        \/ \E t \in P!FSM : /\ t.from = P!stateOf(s)
                            /\ P!Start(u, s, [data |-> publication[s].data, state |-> t.to])
    BY DEF Act, P!Publish, P!Unpublish, P!apply
  <1>4. \A r \in (Worker \cup Caller) \ {u} : pending'[r] = pending[r]
    BY <1>3 DEF P!Start, TypeOK, P!TypeOK
  <1>5. \A w \in Worker : pending'[w] = pending[w]
    BY <1>4, RequestAssumption
  <1>6. ASSUME pending'[u] # pending[u]
        PROVE  /\ publication[s] # NoItem
               /\ pending'[u].id = s /\ pending'[u].document.data = publication[s].data
    <2>1. PICK t \in P!FSM :
            /\ t.from = P!stateOf(s)
            /\ P!Start(u, s, [data |-> publication[s].data, state |-> t.to])
      BY <1>3, <1>6
    <2>2. PICK document : document = [data |-> publication[s].data, state |-> t.to]
      OBVIOUS
    <2>3. pending' = [pending EXCEPT ![u] = [id |-> s, document |-> document]]
      BY <2>1, <2>2 DEF P!Start
    <2>4. pending'[u] = [id |-> s, document |-> document]
      BY <2>3 DEF TypeOK, P!TypeOK
    <2>5. publication[s] # NoItem
      BY <2>1 DEF P!FSM, P!stateOf
    <2>6. QED
      BY <2>2, <2>4, <2>5
  <1>7. OneAtATime'
    <2>1. Asking /\ (Underway' <=> Underway)
      BY <1>1, <1>2 DEF Asking, Underway, Decided
    <2>2. QED
      BY <1>1, <2>1, StillOneAtATime DEF Orderly
  <1>8. Callers'
    BY <1>1, <1>4, <1>6 DEF Orderly, Callers
  <1>9. Messages' /\ Leases' /\ \A z \in ServiceId \ abandoned : Mirrors(z)'
    BY <1>1, <1>5 DEF Orderly, Messages, Fresh, Leases, Mirrors
  <1>10. QED
    BY <1>1, <1>7, <1>8, <1>9 DEF Orderly

LEMMA EndActKeepsOrder ==
  ASSUME TypeOK, Leases, Orderly, NEW u \in Caller, EndAct(u)
  PROVE  Orderly' /\ Leases'
  <1> DEFINE s == pending[u].id
  <1>1. UNCHANGED <<lifecycle, calls, changed, requestPublication, requestDeletion,
                    leased, abandoned, checked>>
    BY DEF EndAct, lifecycleVars, queueVars
  <1>2. pending[u] # Idle /\ pending[u] \in P!Write
    BY DEF EndAct, P!Save, P!SaveError, TypeOK, P!TypeOK
  <1>3. /\ s \in ServiceId
        /\ pending[u].document \in P!Document /\ pending[u].document # NoItem
    BY <1>2, MarkerAssumption DEF P!Write
  <1>4. /\ publication[s] # NoItem
        /\ pending[u].document.data = publication[s].data
    BY <1>2 DEF Orderly, Callers
  <1>5. \A z \in ServiceId :
          /\ publication'[z] = NoItem <=> publication[z] = NoItem
          /\ publication[z] # NoItem => publication'[z].data = publication[z].data
    <2>1. CASE P!SaveError(u)
      BY <2>1 DEF P!SaveError
    <2>2. CASE P!Save(u)
      <3>1. publication' = [publication EXCEPT ![s] = pending[u].document]
        BY <2>2 DEF P!Save
      <3>2. QED
        BY <1>3, <1>4, <3>1 DEF TypeOK, P!TypeOK
    <2>3. QED
      BY <2>1, <2>2 DEF EndAct
  <1>6. pending' = [pending EXCEPT ![u] = Idle]
    BY DEF EndAct, P!Save, P!SaveError
  <1>7. /\ \A r \in Worker \cup Caller : pending'[r] \in {pending[r], Idle}
        /\ \A w \in Worker : pending'[w] = pending[w]
    BY <1>6, RequestAssumption DEF TypeOK, P!TypeOK
  <1>8. OneAtATime'
    <2>1. Asking /\ (Underway' <=> Underway)
      BY <1>1, <1>2 DEF Asking, Underway, Decided
    <2>2. QED
      BY <1>1, <2>1, StillOneAtATime DEF Orderly
  <1>9. Callers'
    <2>1. SUFFICES ASSUME NEW v \in Caller, pending'[v] # Idle
                   PROVE  /\ publication'[pending'[v].id] # NoItem
                          /\ pending'[v].document.data = publication'[pending'[v].id].data
      BY DEF Callers
    <2>2. pending'[v] = pending[v] /\ pending[v] # Idle /\ pending[v].id \in ServiceId
      BY <1>7, <2>1 DEF TypeOK, P!TypeOK, P!Write
    <2>3. QED
      BY <1>5, <2>2 DEF Orderly, Callers
  <1>10. Messages' /\ Leases'
    BY <1>1, <1>7 DEF Orderly, Messages, Fresh, Leases
  <1>11. \A z \in ServiceId \ abandoned : Mirrors(z)'
    BY <1>1, <1>5 DEF Orderly, Mirrors
  <1>12. QED
    BY <1>1, <1>8, <1>9, <1>10, <1>11 DEF Orderly

LEMMA MirrorStep == MirrorInv /\ [Next]_vars => MirrorInv'
  <1> SUFFICES ASSUME MirrorInv, [Next]_vars PROVE MirrorInv'
    OBVIOUS
  <1>1. TypeOK /\ TypeOK' /\ ChangedIsStored /\ ChangedIsStored'
    BY TypeStep, ChangedStep DEF MirrorInv
  <1>2. SUFFICES ASSUME ~ hasty' PROVE Orderly' /\ Leases'
    BY <1>1 DEF MirrorInv
  <1>3. CASE UNCHANGED vars
    <2>1. Orderly /\ Leases
      BY <1>2, <1>3 DEF MirrorInv, vars
    <2>2. UNCHANGED <<lifecycle, calls, publication, pending, changed, requestPublication,
                      requestDeletion, leased, abandoned, checked>>
      BY <1>3 DEF vars, systemVars, lifecycleVars, publicationVars, queueVars
    <2>3. QED
      BY <2>1, <2>2 DEF Orderly, OneAtATime, Deciding, Underway, Decided, Asking,
         Messages, Fresh, Callers, Mirrors, Leases
  <1>4. CASE Next
    <2>1. hasty' = (hasty \/ (Decisive /\ ~ Settled)) /\ ~ hasty
      BY <1>2, <1>4 DEF Next, MirrorInv, TypeOK
    <2>2. Orderly /\ Leases
      BY <2>1 DEF MirrorInv
    <2>3. CASE Request
      BY <1>1, <1>2, <2>1, <2>2, <2>3, RequestKeepsOrder, CheckKeepsOrder DEF Request
    <2>4. CASE Platform
      <3>1. CASE EndRequest
        BY <1>1, <1>2, <2>1, <2>2, <3>1, RequestKeepsOrder
      <3>2. ASSUME NEW s \in ServiceId, Watcher(s)
            PROVE  Orderly' /\ Leases'
        BY <1>1, <2>2, <3>2, WatchKeepsOrder, SkipKeepsOrder DEF Watcher
      <3>3. ASSUME NEW w \in Worker, Publicator(w)
            PROVE  Orderly' /\ Leases'
        BY <1>1, <2>2, <3>3, StartReleaseKeepsOrder, EndReleaseKeepsOrder DEF Publicator
      <3>4. QED
        BY <1>1, <2>2, <2>4, <3>1, <3>2, <3>3, DeletorKeepsOrder, ActKeepsOrder,
           EndActKeepsOrder DEF Platform
    <2>5. QED
      BY <1>4, <2>3, <2>4 DEF Next
  <1>5. QED
    BY <1>3, <1>4

\* Once all has settled, an approved service is in the publication container with
\* its content and a deleted one is not, if people waited before they decided.
THEOREM SettledCorrect == Spec => []SettledAgrees
  <1>1. Init => MirrorInv
    <2> SUFFICES ASSUME Init PROVE MirrorInv
      OBVIOUS
    <2>1. TypeOK /\ ChangedIsStored
      BY InitType
    <2>2. /\ \A s \in ServiceId : lifecycle[s] = NoItem
          /\ \A c \in Client : calls[c] = Idle
          /\ \A r \in Worker \cup Caller : pending[r] = Idle
          /\ \A w \in Worker : leased[w] = Idle
          /\ \A u \in Caller : checked[u] = Idle
          /\ changed = {} /\ requestPublication = {} /\ requestDeletion = {}
      BY DEF Init, L!Init, P!Init
    <2>3. Leases /\ Orderly
      BY <2>2 DEF Leases, Orderly, OneAtATime, Deciding, Underway, Asking, Messages,
         Callers, Mirrors
    <2>4. QED
      BY <2>1, <2>3 DEF MirrorInv
  <1>2. MirrorInv => SettledAgrees
    BY DEF MirrorInv, Orderly, Mirrors, Leases, Settled, SettledAgrees
  <1>3. QED
    BY <1>1, <1>2, MirrorStep, PTL DEF Spec
=============================================================================
