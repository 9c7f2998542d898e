----------------------- MODULE ServiceLifecycle_proofs ----------------------
(***************************************************************************)
(* Proofs about ServiceLifecycle, for any sets of services, contents,      *)
(* groups and clients, and any bound on the versions.                      *)
(***************************************************************************)
EXTENDS ServiceLifecycle, TLAPS

-----------------------------------------------------------------------------
(* Type correctness                                                         *)

\* A transition ends in a state of the machine.
LEMMA TransitionEnds ==
  ASSUME NEW action, NEW item, NEW t \in Matching(action, item)
  PROVE  /\ t.to \in State
         /\ t \in FSM
         /\ t.action = action
         /\ t.from = IF item = NoItem THEN "*" ELSE item.state
  BY DEF Matching, FSM, Transition

\* No transition but create applies to a service that does not exist.
LEMMA NothingWithoutItem ==
  ASSUME NEW action, action # "create", NEW t \in Matching(action, NoItem)
  PROVE  FALSE
  BY DEF Matching, FSM, Transition

\* apply() with a proper content registers a proper call.
LEMMA ApplyType ==
  ASSUME TypeOK, NEW c \in Client, NEW s \in ServiceId,
         NEW action \in ActionName, NEW authz, NEW content,
         lifecycle[s] # NoItem \/ action = "create" => content \in Content,
         apply(c, s, action, authz, content)
  PROVE  TypeOK'
  <1>1. PICK t \in Matching(action, lifecycle[s]) :
          calls' = [calls EXCEPT ![c] = [id |-> s, content |-> content,
                                         state |-> t.to]]
    BY DEF apply
  <1>2. content \in Content
    <2>1. CASE lifecycle[s] # NoItem \/ action = "create"
      BY <2>1
    <2>2. CASE lifecycle[s] = NoItem /\ action # "create"
      BY <1>1, <2>2, NothingWithoutItem
    <2>3. QED
      BY <2>1, <2>2
  <1>3. [id |-> s, content |-> content, state |-> t.to] \in Call
    BY <1>1, <1>2, TransitionEnds DEF Call
  <1>4. QED
    BY <1>1, <1>3 DEF TypeOK, apply

\* A write of a proper document.
LEMMA WriteType ==
  ASSUME TypeOK, NEW s \in ServiceId, NEW content \in Content,
         NEW state \in State, Write(s, content, state),
         calls' \in [Client -> Call \cup {Idle}]
  PROVE  TypeOK'
  <1> DEFINE document == [content |-> content, state |-> state,
                          version |-> etag + 1]
  <1>1. document \in Document
    BY DEF Document, TypeOK
  <1>2. /\ lifecycle' = [lifecycle EXCEPT ![s] = document]
        /\ etag' = etag + 1
        /\ versions' = versions \cup {[id |-> s, document |-> document]}
    BY DEF Write
  <1>3. QED
    BY <1>1, <1>2 DEF TypeOK

\* What is stored under an id that is in the store.
LEMMA StoredType ==
  ASSUME TypeOK, NEW s \in ServiceId, lifecycle[s] # NoItem
  PROVE  /\ lifecycle[s] \in Document
         /\ lifecycle[s].content \in Content
         /\ lifecycle[s].state \in State
  BY DEF TypeOK, Document

\* A call in flight.
LEMMA CallType ==
  ASSUME TypeOK, NEW c \in Client, calls[c] # Idle
  PROVE  /\ calls[c] \in Call
         /\ calls[c].id \in ServiceId
         /\ calls[c].content \in Content
         /\ calls[c].state \in State
  BY DEF TypeOK, Call

LEMMA TypeStep == TypeOK /\ [Next]_vars => TypeOK'
  <1> SUFFICES ASSUME TypeOK, [Next]_vars PROVE TypeOK'
    OBVIOUS
  <1> USE DEF ActionName
  <1>1. ASSUME NEW c \in Client, NEW s \in ServiceId, UserRequest(c, s)
        PROVE  TypeOK'
    <2>1. ASSUME NEW authz \in SUBSET Group, NEW data \in Data,
                 Edit(c, s, authz, data)
          PROVE  TypeOK'
      <3>1. lifecycle[s] # NoItem =>
              [data |-> data, group_id |-> lifecycle[s].content.group_id,
               autoPublish |-> FALSE] \in Content
        BY StoredType DEF Content
      <3>2. QED
        BY <2>1, <3>1, ApplyType DEF Edit
    <2>2. ASSUME NEW authz \in SUBSET Group, NEW autoPublish \in BOOLEAN,
                 Submit(c, s, authz, autoPublish)
          PROVE  TypeOK'
      <3>1. lifecycle[s] # NoItem =>
              [lifecycle[s].content EXCEPT !.autoPublish = autoPublish] \in Content
        BY StoredType DEF Content
      <3>2. QED
        BY <2>2, <3>1, ApplyType DEF Submit
    <2>3. ASSUME NEW authz \in SUBSET Group, Delete(c, s, authz)
          PROVE  TypeOK'
      <3>1. lifecycle[s] # NoItem =>
              [lifecycle[s].content EXCEPT !.autoPublish = FALSE] \in Content
        BY StoredType DEF Content
      <3>2. QED
        BY <2>3, <3>1, ApplyType DEF Delete
    <2>4. ASSUME NEW data \in Data, NEW g \in MaybeGroup, Create(c, s, data, g)
          PROVE  TypeOK'
      <3>1. [data |-> data, group_id |-> g, autoPublish |-> FALSE] \in Content
        BY DEF Content
      <3>2. QED
        BY <2>4, <3>1, ApplyType DEF Create
    <2>5. ASSUME NEW g \in MaybeGroup, Patch(c, s, g)
          PROVE  TypeOK'
      <3>1. [lifecycle[s].content EXCEPT !.group_id = g] \in Content
        BY <2>5, StoredType DEF Content, Patch
      <3>2. QED
        BY <2>5, <3>1, StoredType, WriteType DEF Patch, TypeOK
    <2>6. QED
      BY <1>1, <2>1, <2>2, <2>3, <2>4, <2>5 DEF UserRequest
  <1>2. ASSUME NEW c \in Client, NEW s \in ServiceId, ReviewRequest(c, s)
        PROVE  TypeOK'
    <2>1. CASE Approve(c, s)
      BY <2>1, StoredType, ApplyType DEF Approve
    <2>2. CASE Reject(c, s)
      <3>1. lifecycle[s] # NoItem =>
              [lifecycle[s].content EXCEPT !.autoPublish = FALSE] \in Content
        BY StoredType DEF Content
      <3>2. QED
        BY <2>2, <3>1, ApplyType DEF Reject
    <2>3. QED
      BY <1>2, <2>1, <2>2 DEF ReviewRequest
  <1>3. ASSUME NEW c \in Client, Save(c)
        PROVE  TypeOK'
    <2>1. calls' \in [Client -> Call \cup {Idle}]
      BY <1>3 DEF Save, TypeOK
    <2>2. QED
      BY <1>3, <2>1, CallType, WriteType DEF Save
  <1>4. ASSUME NEW c \in Client, SaveError(c)
        PROVE  TypeOK'
    BY <1>4 DEF SaveError, TypeOK
  <1>5. CASE UNCHANGED vars
    BY <1>5 DEF vars, TypeOK
  <1>6. QED
    BY <1>1, <1>2, <1>3, <1>4, <1>5 DEF Next

\* The containers and the requests in flight keep their shape.
THEOREM TypeCorrect == Spec => []TypeOK
  <1>1. Init => TypeOK
    BY DEF Init, TypeOK
  <1>2. QED
    BY <1>1, TypeStep, PTL DEF Spec

\* A write of s stores a document with the next etag.
Rewritten(s) ==
  /\ lifecycle'[s] # NoItem
  /\ etag' = etag + 1
  /\ lifecycle'[s].version = etag + 1

LEMMA WriteStores ==
  ASSUME TypeOK, NEW s \in ServiceId, NEW content \in Content,
         NEW state \in State, Write(s, content, state)
  PROVE  /\ Rewritten(s)
         /\ \A z \in ServiceId \ {s} : lifecycle'[z] = lifecycle[z]
  <1>1. [content |-> content, state |-> state, version |-> etag + 1] \in Document
    BY DEF TypeOK, Document
  <1>2. QED
    BY <1>1, MarkerAssumption DEF Write, TypeOK, Rewritten

\* A step that changes a document stores another one: nothing is ever removed.
LEMMA ChangeStores ==
  TypeOK /\ [Next]_vars =>
    /\ etag' \in {etag, etag + 1}
    /\ \A z \in ServiceId : lifecycle'[z] = lifecycle[z] \/ Rewritten(z)
  <1> SUFFICES ASSUME TypeOK, [Next]_vars
               PROVE  /\ etag' \in {etag, etag + 1}
                      /\ \A z \in ServiceId :
                           lifecycle'[z] = lifecycle[z] \/ Rewritten(z)
    OBVIOUS
  <1>1. ASSUME NEW c \in Client, Save(c)
        PROVE  /\ etag' = etag + 1
               /\ \A z \in ServiceId :
                    lifecycle'[z] = lifecycle[z] \/ Rewritten(z)
    BY <1>1, CallType, WriteStores DEF Save, Write
  <1>2. ASSUME NEW c \in Client, NEW s \in ServiceId, NEW g \in MaybeGroup,
               Patch(c, s, g)
        PROVE  /\ etag' = etag + 1
               /\ \A z \in ServiceId :
                    lifecycle'[z] = lifecycle[z] \/ Rewritten(z)
    <2>1. [lifecycle[s].content EXCEPT !.group_id = g] \in Content
      BY <1>2, StoredType DEF Content, Patch
    <2>2. QED
      BY <1>2, <2>1, StoredType, WriteStores DEF Patch, Write
  <1>3. QED
    BY <1>1, <1>2 DEF Next, UserRequest, ReviewRequest, Edit, Submit, Delete,
       Approve, Reject, Create, apply, SaveError, vars

\* What a request does to the call of another: nothing.
LEMMA RequestFrame ==
  ASSUME TypeOK, NEW c \in Client, NEW s \in ServiceId, UserRequest(c, s)
  PROVE  \A d \in Client \ {c} : calls'[d] = calls[d]
  BY DEF UserRequest, Edit, Submit, Delete, Create, Patch, apply, TypeOK

LEMMA SaveFrame ==
  ASSUME TypeOK, NEW c \in Client, Save(c) \/ SaveError(c)
  PROVE  \A d \in Client \ {c} : calls'[d] = calls[d]
  BY DEF Save, SaveError, TypeOK

\* A verdict is prepared on a submitted service, and leaves the others alone.
LEMMA VerdictStarts ==
  ASSUME TypeOK, NEW c \in Client, NEW s \in ServiceId,
         Approve(c, s) \/ Reject(c, s)
  PROVE  /\ UNCHANGED <<lifecycle, etag, versions>>
         /\ Status[s] = "submitted"
         /\ calls'[c] # Idle
         /\ calls'[c].id = s
         /\ calls'[c].state \in {"approved", "rejected"}
         /\ \A d \in Client \ {c} : calls'[d] = calls[d]
  <1>1. PICK action \in {"approve", "reject"},
             content \in {lifecycle[s].content,
                          [lifecycle[s].content EXCEPT !.autoPublish = FALSE]} :
          apply(c, s, action, {}, content)
    BY DEF Approve, Reject
  <1>2. PICK t \in Matching(action, lifecycle[s]) :
          calls' = [calls EXCEPT ![c] = [id |-> s, content |-> content,
                                         state |-> t.to]]
    BY <1>1 DEF apply
  <1>3. /\ t.to \in {"approved", "rejected"}
        /\ lifecycle[s] # NoItem
        /\ Status[s] = "submitted"
    BY TransitionEnds DEF FSM, Status
  <1>4. content \in Content
    BY <1>3, StoredType DEF Content
  <1>5. [id |-> s, content |-> content, state |-> t.to] \in Call
    BY <1>3, <1>4 DEF Call, State
  <1>6. calls'[c] = [id |-> s, content |-> content, state |-> t.to]
    BY <1>2 DEF TypeOK
  <1>7. QED
    BY <1>1, <1>2, <1>3, <1>5, <1>6, MarkerAssumption DEF apply, TypeOK

\* The history only grows.
LEMMA VersionsGrow == [Next]_vars => versions \subseteq versions'
  <1>1. ASSUME NEW c \in Client, Save(c)
        PROVE  versions \subseteq versions'
    BY <1>1 DEF Save, Write
  <1>2. ASSUME NEW c \in Client, NEW s \in ServiceId, NEW g \in MaybeGroup,
               Patch(c, s, g)
        PROVE  versions \subseteq versions'
    BY <1>2 DEF Patch, Write
  <1>3. QED
    BY <1>1, <1>2 DEF Next, UserRequest, ReviewRequest, Edit, Submit, Delete,
       Approve, Reject, Create, apply, SaveError, vars

-----------------------------------------------------------------------------
(* Approved documents were submitted, however the requests overlap          *)

\* The current document of a service is in the history.
Stored == \A s \in ServiceId : lifecycle[s] # NoItem =>
            [id |-> s, document |-> lifecycle[s]] \in versions

\* The history is older than the next write.
Dated == \A v \in versions : v.document.version <= etag

\* Who is about to store an approved document read it as submitted.
Backed == \A c \in Client : calls[c] # Idle /\ calls[c].state = "approved" =>
            Submitted(versions, calls[c].id, calls[c].content, etag + 1)

\* ApprovedWasSubmitted speaks of the history alone: what makes it inductive is
\* that the request which will extend the history is backed already.
ApprovalInv == Stored /\ Dated /\ Backed /\ ApprovedWasSubmitted

\* A document submitted before a version was so before any later one, whatever
\* has been stored since.
LEMMA SubmittedGrows ==
  ASSUME TypeOK, versions \subseteq versions',
         NEW s, NEW content, NEW m \in Nat, NEW n \in Nat, m <= n,
         Submitted(versions, s, content, m)
  PROVE  Submitted(versions', s, content, n)
  <1>1. PICK w \in versions :
          /\ w.id = s
          /\ w.document.state = "submitted"
          /\ w.document.version < m
          /\ w.document.content.data = content.data
          /\ w.document.content.autoPublish = content.autoPublish
    BY DEF Submitted
  <1>2. w \in versions' /\ w.document.version \in Nat
    BY DEF TypeOK, Document
  <1>3. w.document.version < n
    BY <1>1, <1>2
  <1>4. QED
    BY <1>1, <1>2, <1>3 DEF Submitted

\* The first step of a request: only the approval of a submitted document
\* registers an approved one.
LEMMA ApplyApproval ==
  ASSUME TypeOK, TypeOK', ApprovalInv,
         NEW c \in Client, NEW s \in ServiceId, NEW action \in ActionName,
         NEW authz, NEW content,
         action = "approve" => content = lifecycle[s].content,
         apply(c, s, action, authz, content)
  PROVE  ApprovalInv'
  <1>1. PICK t \in Matching(action, lifecycle[s]) :
          calls' = [calls EXCEPT ![c] = [id |-> s, content |-> content,
                                         state |-> t.to]]
    BY DEF apply
  <1>2. UNCHANGED <<lifecycle, etag, versions>>
    BY DEF apply
  <1>3. Stored' /\ Dated' /\ ApprovedWasSubmitted'
    BY <1>2 DEF ApprovalInv, Stored, Dated, ApprovedWasSubmitted
  <1>4. Backed'
    <2> SUFFICES ASSUME NEW d \in Client, calls'[d] # Idle,
                        calls'[d].state = "approved"
                 PROVE  Submitted(versions', calls'[d].id, calls'[d].content,
                                  etag' + 1)
      BY <1>2 DEF Backed
    <2>1. CASE d # c
      <3>1. calls'[d] = calls[d]
        BY <1>1, <2>1 DEF TypeOK
      <3>2. Submitted(versions, calls[d].id, calls[d].content, etag + 1)
        BY <3>1 DEF ApprovalInv, Backed
      <3>3. QED
        BY <1>2, <3>1, <3>2
    <2>2. CASE d = c
      <3>1. calls'[c] = [id |-> s, content |-> content, state |-> t.to]
        BY <1>1 DEF TypeOK
      <3>2. t.to = "approved"
        BY <2>2, <3>1
      <3>3. t.from = "submitted" /\ action = "approve"
        BY <1>1, <3>2, TransitionEnds DEF FSM, Transition
      <3>4. lifecycle[s] # NoItem /\ lifecycle[s].state = "submitted"
        BY <1>1, <3>3, TransitionEnds
      <3>5. [id |-> s, document |-> lifecycle[s]] \in versions
        BY <3>4 DEF ApprovalInv, Stored
      <3>6. lifecycle[s].version < etag + 1
        <4>1. lifecycle[s].version <= etag
          BY <3>5 DEF ApprovalInv, Dated
        <4>2. lifecycle[s].version \in Nat /\ etag \in Nat
          BY <3>4, StoredType DEF TypeOK, Document
        <4>3. QED
          BY <4>1, <4>2
      <3>7. content = lifecycle[s].content
        BY <3>3
      <3>8. QED
        BY <1>2, <2>2, <3>1, <3>4, <3>5, <3>6, <3>7 DEF Submitted
    <2>3. QED
      BY <2>1, <2>2
  <1>5. QED
    BY <1>3, <1>4 DEF ApprovalInv

\* A write: an approved document must be backed when it is written.
LEMMA WriteApproval ==
  ASSUME TypeOK, TypeOK', ApprovalInv,
         NEW s \in ServiceId, NEW content \in Content, NEW state \in State,
         Write(s, content, state),
         state = "approved" => Submitted(versions, s, content, etag + 1),
         \A c \in Client : calls'[c] # Idle => calls'[c] = calls[c]
  PROVE  ApprovalInv'
  <1> DEFINE document == [content |-> content, state |-> state,
                          version |-> etag + 1]
  <1>1. /\ lifecycle' = [lifecycle EXCEPT ![s] = document]
        /\ etag' = etag + 1
        /\ versions' = versions \cup {[id |-> s, document |-> document]}
    BY DEF Write
  <1>2. etag \in Nat /\ etag' \in Nat /\ versions \subseteq versions'
    BY <1>1 DEF TypeOK
  <1>3. Stored'
    BY <1>1 DEF ApprovalInv, Stored, TypeOK
  <1>4. Dated'
    <2> SUFFICES ASSUME NEW v \in versions'
                 PROVE  v.document.version <= etag'
      BY DEF Dated
    <2>1. CASE v \in versions
      <3>1. v.document.version <= etag
        BY <2>1 DEF ApprovalInv, Dated
      <3>2. v.document.version \in Nat
        BY <2>1 DEF TypeOK, Document
      <3>3. QED
        BY <1>1, <1>2, <3>1, <3>2
    <2>2. CASE v = [id |-> s, document |-> document]
      BY <1>1, <1>2, <2>2
    <2>3. QED
      BY <1>1, <2>1, <2>2
  <1>5. Backed'
    <2> SUFFICES ASSUME NEW c \in Client, calls'[c] # Idle,
                        calls'[c].state = "approved"
                 PROVE  Submitted(versions', calls'[c].id, calls'[c].content,
                                  etag' + 1)
      BY DEF Backed
    <2>1. calls'[c] = calls[c]
      OBVIOUS
    <2>2. Submitted(versions, calls[c].id, calls[c].content, etag + 1)
      BY <2>1 DEF ApprovalInv, Backed
    <2>3. Submitted(versions', calls[c].id, calls[c].content, etag' + 1)
      <3>1. etag + 1 \in Nat /\ etag' + 1 \in Nat /\ etag + 1 <= etag' + 1
        BY <1>1, <1>2
      <3>2. QED
        BY <1>2, <2>2, <3>1, SubmittedGrows
    <2>4. QED
      BY <2>1, <2>3
  <1>6. ApprovedWasSubmitted'
    <2> SUFFICES ASSUME NEW v \in versions', v.document.state = "approved"
                 PROVE  Submitted(versions', v.id, v.document.content,
                                  v.document.version)
      BY DEF ApprovedWasSubmitted
    <2>1. CASE v \in versions
      <3>1. Submitted(versions, v.id, v.document.content, v.document.version)
        BY <2>1 DEF ApprovalInv, ApprovedWasSubmitted
      <3>2. v.document.version \in Nat
        BY <2>1 DEF TypeOK, Document
      <3>3. QED
        BY <1>2, <3>1, <3>2, SubmittedGrows
    <2>2. CASE v = [id |-> s, document |-> document]
      <3>1. Submitted(versions, s, content, etag + 1)
        BY <2>2
      <3>2. QED
        BY <1>2, <2>2, <3>1, SubmittedGrows
    <2>3. QED
      BY <1>1, <2>1, <2>2
  <1>7. QED
    BY <1>3, <1>4, <1>5, <1>6 DEF ApprovalInv

LEMMA ApprovalStep ==
  TypeOK /\ TypeOK' /\ ApprovalInv /\ [Next]_vars => ApprovalInv'
  <1> SUFFICES ASSUME TypeOK, TypeOK', ApprovalInv, [Next]_vars
               PROVE  ApprovalInv'
    OBVIOUS
  <1> USE DEF ActionName
  <1>1. ASSUME NEW c \in Client, NEW s \in ServiceId, UserRequest(c, s)
        PROVE  ApprovalInv'
    <2>1. ASSUME NEW g \in MaybeGroup, Patch(c, s, g)
          PROVE  ApprovalInv'
      <3> DEFINE content == [lifecycle[s].content EXCEPT !.group_id = g]
      <3>1. /\ lifecycle[s] # NoItem
            /\ Write(s, content, lifecycle[s].state)
            /\ calls' = calls
        BY <2>1 DEF Patch
      <3>2. /\ content \in Content
            /\ content.data = lifecycle[s].content.data
            /\ content.autoPublish = lifecycle[s].content.autoPublish
        BY <3>1, StoredType DEF Content
      <3>3. lifecycle[s].state = "approved" => Submitted(versions, s, content, etag + 1)
        <4> SUFFICES ASSUME lifecycle[s].state = "approved"
                     PROVE  Submitted(versions, s, content, etag + 1)
          OBVIOUS
        <4>1. [id |-> s, document |-> lifecycle[s]] \in versions
          BY <3>1 DEF ApprovalInv, Stored
        <4>2. Submitted(versions, s, lifecycle[s].content, lifecycle[s].version)
          BY <4>1 DEF ApprovalInv, ApprovedWasSubmitted
        <4>3. PICK w \in versions :
                /\ w.id = s
                /\ w.document.state = "submitted"
                /\ w.document.version < lifecycle[s].version
                /\ w.document.content.data = lifecycle[s].content.data
                /\ w.document.content.autoPublish = lifecycle[s].content.autoPublish
          BY <4>2 DEF Submitted
        <4>4. w.document.version < etag + 1
          <5>1. w.document.version <= etag
            BY DEF ApprovalInv, Dated
          <5>2. w.document.version \in Nat /\ etag \in Nat
            BY DEF TypeOK, Document
          <5>3. QED
            BY <5>1, <5>2
        <4>5. QED
          BY <3>2, <4>3, <4>4 DEF Submitted
      <3>4. QED
        BY <3>1, <3>2, <3>3, StoredType, WriteApproval
    <2>2. QED
      BY <1>1, <2>1, ApplyApproval DEF UserRequest, Edit, Submit, Delete, Create
  <1>2. ASSUME NEW c \in Client, NEW s \in ServiceId, ReviewRequest(c, s)
        PROVE  ApprovalInv'
    BY <1>2, ApplyApproval DEF ReviewRequest, Approve, Reject
  <1>3. ASSUME NEW c \in Client, Save(c)
        PROVE  ApprovalInv'
    <2>1. calls[c].state = "approved" =>
            Submitted(versions, calls[c].id, calls[c].content, etag + 1)
      BY <1>3 DEF Save, ApprovalInv, Backed
    <2>2. \A d \in Client : calls'[d] # Idle => calls'[d] = calls[d]
      BY <1>3 DEF Save, TypeOK
    <2>3. QED
      BY <1>3, <2>1, <2>2, CallType, WriteApproval DEF Save
  <1>4. ASSUME NEW c \in Client, SaveError(c)
        PROVE  ApprovalInv'
    BY <1>4 DEF SaveError, TypeOK, ApprovalInv, Stored, Dated, Backed,
                ApprovedWasSubmitted
  <1>5. CASE UNCHANGED vars
    BY <1>5 DEF vars, ApprovalInv, Stored, Dated, Backed, ApprovedWasSubmitted
  <1>6. QED
    BY <1>1, <1>2, <1>3, <1>4, <1>5 DEF Next

\* Whatever the interleaving of the requests, an approved document has the
\* content and the autoPublish flag of a document submitted before it.
THEOREM ApprovalCorrect == Spec => []ApprovedWasSubmitted
  <1>1. Init => ApprovalInv
    BY DEF Init, ApprovalInv, Stored, Dated, Backed, ApprovedWasSubmitted
  <1>2. ApprovalInv => ApprovedWasSubmitted
    BY DEF ApprovalInv
  <1>3. QED
    BY <1>1, <1>2, TypeCorrect, ApprovalStep, PTL DEF Spec

-----------------------------------------------------------------------------
(* However the requests overlap, the store follows the state diagram        *)

LEMMA TransitionsAreArrows ==
  ASSUME NEW t \in FSM
  PROVE  [from |-> t.from, to |-> t.to] \in Diagram!Arrows
  BY DEF FSM, Transition, Diagram!Arrows, Diagram!Arrow

\* A write moves the status of one service.
LEMMA WriteMoves ==
  ASSUME TypeOK, TypeOK', NEW s \in ServiceId, NEW content \in Content,
         NEW state \in State, Write(s, content, state)
  PROVE  Status' = [Status EXCEPT ![s] = state]
  <1> DEFINE document == [content |-> content, state |-> state,
                          version |-> etag + 1]
  <1>1. lifecycle' = [lifecycle EXCEPT ![s] = document]
    BY DEF Write
  <1>2. document \in Document
    BY DEF TypeOK, Document
  <1>3. document # NoItem
    BY <1>2, MarkerAssumption
  <1>4. QED
    BY <1>1, <1>3 DEF TypeOK, Status

\* A client takes up a request.
LEMMA AskedGains ==
  ASSUME TypeOK, NEW c \in Client, calls[c] = Idle, NEW call \in Call,
         calls' = [calls EXCEPT ![c] = call]
  PROVE  Asked' = [Asked EXCEPT ![call.id] = @ \cup {call.state}]
  <1>1. call # Idle /\ call.id \in ServiceId
    BY MarkerAssumption DEF Call
  <1>2. calls'[c] = call /\ \A d \in Client \ {c} : calls'[d] = calls[d]
    BY DEF TypeOK
  <1>3. ASSUME NEW z \in ServiceId
        PROVE  Asked'[z] = IF z = call.id THEN Asked[z] \cup {call.state}
                                          ELSE Asked[z]
    <2>1. ASSUME NEW x
          PROVE  x \in Asked'[z] <=> \E d \in Client :
                   calls'[d] # Idle /\ calls'[d].id = z /\ calls'[d].state = x
      BY DEF Asked
    <2>2. ASSUME NEW x
          PROVE  x \in Asked[z] <=> \E d \in Client :
                   calls[d] # Idle /\ calls[d].id = z /\ calls[d].state = x
      BY DEF Asked
    <2>3. ASSUME NEW x
          PROVE  x \in Asked'[z]
                   <=> x \in Asked[z] \/ (z = call.id /\ x = call.state)
      BY <1>1, <1>2, <2>1, <2>2
    <2>4. QED
      BY <2>3
  <1>4. QED
    BY <1>1, <1>3 DEF Asked

\* A client is done with its request: another one can lead to the same status.
LEMMA AskedSettles ==
  ASSUME TypeOK, NEW c \in Client, calls[c] # Idle,
         calls' = [calls EXCEPT ![c] = Idle]
  PROVE  /\ calls[c].state \in Asked[calls[c].id]
         /\ Diagram!Settle(calls[c].id, calls[c].state)
  <1> DEFINE call == calls[c]
  <1>1. call.id \in ServiceId
    BY CallType
  <1>2. calls'[c] = Idle /\ \A d \in Client \ {c} : calls'[d] = calls[d]
    BY DEF TypeOK
  <1>3. ASSUME NEW z \in ServiceId, NEW x
        PROVE  /\ x \in Asked'[z] <=> \E d \in Client :
                    calls'[d] # Idle /\ calls'[d].id = z /\ calls'[d].state = x
               /\ x \in Asked[z] <=> \E d \in Client :
                    calls[d] # Idle /\ calls[d].id = z /\ calls[d].state = x
    BY DEF Asked
  <1>4. call.state \in Asked[call.id]
    BY <1>1, <1>3
  <1>5. ASSUME NEW z \in ServiceId \ {call.id}
        PROVE  Asked'[z] = Asked[z]
    <2>1. ASSUME NEW x
          PROVE  x \in Asked'[z] <=> x \in Asked[z]
      BY <1>2, <1>3
    <2>2. QED
      BY <2>1 DEF Asked
  <1>6. Asked'[call.id] \in {Asked[call.id], Asked[call.id] \ {call.state}}
    <2>1. ASSUME NEW x, x # call.state
          PROVE  x \in Asked'[call.id] <=> x \in Asked[call.id]
      BY <1>1, <1>2, <1>3, <2>1
    <2>2. ASSUME NEW x
          PROVE  x \in Asked'[call.id] => x \in Asked[call.id]
      BY <1>1, <1>2, <1>3
    <2>3. CASE call.state \in Asked'[call.id]
      <3>1. Asked'[call.id] = Asked[call.id]
        BY <1>4, <2>1, <2>3
      <3>2. QED
        BY <3>1
    <2>4. CASE call.state \notin Asked'[call.id]
      <3>1. Asked'[call.id] = Asked[call.id] \ {call.state}
        BY <2>1, <2>4
      <3>2. QED
        BY <3>1
    <2>5. QED
      BY <2>3, <2>4
  <1>7. Asked' \in {Asked, [Asked EXCEPT ![call.id] = @ \ {call.state}]}
    <2>1. /\ Asked = [z \in ServiceId |-> Asked[z]]
          /\ Asked' = [z \in ServiceId |-> Asked'[z]]
      BY DEF Asked
    <2>2. CASE Asked'[call.id] = Asked[call.id]
      <3>1. \A z \in ServiceId : Asked'[z] = Asked[z]
        BY <1>5, <2>2
      <3>2. QED
        BY <2>1, <3>1
    <2>3. CASE Asked'[call.id] = Asked[call.id] \ {call.state}
      <3>1. Asked' = [Asked EXCEPT ![call.id] = @ \ {call.state}]
        BY <1>5, <2>1, <2>3
      <3>2. QED
        BY <3>1
    <2>4. QED
      BY <1>6, <2>2, <2>3
  <1>8. QED
    BY <1>4, <1>7 DEF Diagram!Settle

\* Each step takes an arrow up, follows one that was taken up, gives one up, or
\* leaves every status as it is.
LEMMA DiagramStep ==
  ASSUME TypeOK, TypeOK', [Next]_vars
  PROVE  [Diagram!Next]_(Diagram!vars)
  <1> USE DEF ActionName
  <1>1. ASSUME NEW c \in Client, NEW s \in ServiceId, NEW action, NEW authz,
               NEW content, apply(c, s, action, authz, content)
        PROVE  Diagram!Next \/ UNCHANGED Diagram!vars
    <2>1. PICK t \in Matching(action, lifecycle[s]) :
            calls' = [calls EXCEPT ![c] = [id |-> s, content |-> content,
                                           state |-> t.to]]
      BY <1>1 DEF apply
    <2> DEFINE call == [id |-> s, content |-> content, state |-> t.to]
    <2>2. calls[c] = Idle /\ Status' = Status
      BY <1>1 DEF apply, Status
    <2>3. [from |-> Status[s], to |-> t.to] \in Diagram!Arrows
      BY <2>1, TransitionEnds, TransitionsAreArrows DEF Status
    <2>4. CASE call \in Call
      <3>1. Asked' = [Asked EXCEPT ![s] = @ \cup {t.to}]
        BY <2>1, <2>2, <2>4, AskedGains
      <3>2. Diagram!Ask(s)
        BY <2>2, <2>3, <3>1 DEF Diagram!Ask
      <3>3. QED
        BY <3>2 DEF Diagram!Next
    <2>5. CASE call \notin Call
      <3>1. calls' = calls
        BY <2>1, <2>2, <2>5 DEF TypeOK
      <3>2. Asked' = Asked
        BY <3>1 DEF Asked
      <3>3. QED
        BY <2>2, <3>2 DEF Diagram!vars
    <2>6. QED
      BY <2>4, <2>5
  <1>2. ASSUME NEW c \in Client, NEW s \in ServiceId, UserRequest(c, s)
        PROVE  Diagram!Next \/ UNCHANGED Diagram!vars
    <2>1. ASSUME NEW g \in MaybeGroup, Patch(c, s, g)
          PROVE  UNCHANGED Diagram!vars
      <3> DEFINE content == [lifecycle[s].content EXCEPT !.group_id = g]
      <3>1. /\ calls' = calls
            /\ lifecycle[s] # NoItem
            /\ Write(s, content, lifecycle[s].state)
        BY <2>1 DEF Patch
      <3>2. content \in Content /\ lifecycle[s].state \in State
        BY <3>1, StoredType DEF Content
      <3>3. Status' = [Status EXCEPT ![s] = lifecycle[s].state]
        BY <3>1, <3>2, WriteMoves
      <3>4. Status' = Status
        BY <3>1, <3>3 DEF Status
      <3>5. Asked' = Asked
        BY <3>1 DEF Asked
      <3>6. QED
        BY <3>4, <3>5 DEF Diagram!vars
    <2>2. QED
      BY <1>1, <1>2, <2>1 DEF UserRequest, Edit, Submit, Delete, Create
  <1>3. ASSUME NEW c \in Client, NEW s \in ServiceId, ReviewRequest(c, s)
        PROVE  Diagram!Next \/ UNCHANGED Diagram!vars
    BY <1>1, <1>3 DEF ReviewRequest, Approve, Reject
  <1>4. ASSUME NEW c \in Client, Save(c)
        PROVE  Diagram!Next
    <2>1. Status' = [Status EXCEPT ![calls[c].id] = calls[c].state]
      BY <1>4, CallType, WriteMoves DEF Save
    <2>2. Diagram!Answer(calls[c].id)
      BY <1>4, <2>1, AskedSettles DEF Save, Diagram!Answer
    <2>3. QED
      BY <1>4, <2>2, CallType DEF Diagram!Next, Save
  <1>5. ASSUME NEW c \in Client, SaveError(c)
        PROVE  Diagram!Next
    <2>1. Status' = Status
      BY <1>5 DEF SaveError, Status
    <2>2. Diagram!GiveUp(calls[c].id)
      BY <1>5, <2>1, AskedSettles DEF SaveError, Diagram!GiveUp
    <2>3. QED
      BY <1>5, <2>2, CallType DEF Diagram!Next, SaveError
  <1>6. CASE UNCHANGED vars
    BY <1>6 DEF vars, Status, Asked, Diagram!vars
  <1>7. QED
    BY <1>2, <1>3, <1>4, <1>5, <1>6 DEF Next

\* The store implements the README's diagram, however many requests overlap.
THEOREM FollowsDiagramCorrect == Spec => FollowsDiagram
  <1>1. Init => Diagram!Init
    BY DEF Init, Diagram!Init, Status, Asked
  <1>2. TypeOK /\ TypeOK' /\ [Next]_vars => [Diagram!Next]_(Diagram!vars)
    BY DiagramStep
  <1>3. QED
    BY <1>1, <1>2, TypeCorrect, PTL DEF Spec, FollowsDiagram, Diagram!Spec

\* A deleted service on which no request is in flight stays deleted: no arrow
\* leaves deleted, and there is none that was taken before the deletion.
THEOREM DeletionSettlesCorrect == Spec => DeletionSettles
  <1> DEFINE Settled == \A s \in ServiceId :
                          Status[s] = "deleted" /\ Asked[s] = {}
                            => Status'[s] = "deleted" /\ Asked'[s] = {}
  <1>1. ASSUME [Diagram!Next]_(Diagram!vars)
        PROVE  Settled
    <2> SUFFICES ASSUME NEW s \in ServiceId, Status[s] = "deleted", Asked[s] = {}
                 PROVE  Status'[s] = "deleted" /\ Asked'[s] = {}
      OBVIOUS
    <2>1. ASSUME NEW z \in ServiceId, Diagram!Ask(z)
          PROVE  z # s /\ Status'[s] = Status[s] /\ Asked'[s] = Asked[s]
      <3>1. z # s
        BY <2>1 DEF Diagram!Ask, Diagram!Arrows, Diagram!Arrow
      <3>2. QED
        BY <2>1, <3>1 DEF Diagram!Ask, Asked
    <2>2. ASSUME NEW z \in ServiceId, Diagram!Answer(z) \/ Diagram!GiveUp(z)
          PROVE  Status'[s] = Status[s] /\ Asked'[s] = Asked[s]
      <3>1. z # s
        BY <2>2 DEF Diagram!Answer, Diagram!GiveUp
      <3>2. QED
        BY <2>2, <3>1 DEF Diagram!Answer, Diagram!GiveUp, Diagram!Settle,
                          Asked, Status
    <2>3. CASE UNCHANGED Diagram!vars
      BY <2>3 DEF Diagram!vars
    <2>4. QED
      BY <1>1, <2>1, <2>2, <2>3 DEF Diagram!Next
  <1>2. TypeOK /\ TypeOK' /\ [Next]_vars => [Settled]_vars
    BY <1>1, DiagramStep
  <1>3. QED
    BY <1>2, TypeCorrect, PTL DEF Spec, DeletionSettles
=============================================================================
