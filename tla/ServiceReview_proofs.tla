------------------------- MODULE ServiceReview_proofs -------------------------
(***************************************************************************)
(* Proofs about ServiceReview, for any sets of services, requests and      *)
(* handlers, any number of tickets, deliveries and faults. What was proved *)
(* of the lifecycle alone is used here: every step of the review is a step *)
(* of it, or leaves it alone.                                              *)
(***************************************************************************)
EXTENDS ServiceReview, SequenceTheorems, TLAPS

Lifecycle == INSTANCE ServiceLifecycle_proofs

-----------------------------------------------------------------------------
(* The proofs of the lifecycle speak of the same state machine              *)

LEMMA SameLifecycle ==
  /\ L!Init = Lifecycle!Init
  /\ L!Next = Lifecycle!Next
  /\ L!vars = Lifecycle!vars /\ L!vars' = Lifecycle!vars'
  /\ L!TypeOK = Lifecycle!TypeOK /\ L!TypeOK' = Lifecycle!TypeOK'
  /\ L!Document = Lifecycle!Document /\ L!Call = Lifecycle!Call
  /\ L!Status = Lifecycle!Status
  /\ \A c, s : /\ L!UserRequest(c, s) = Lifecycle!UserRequest(c, s)
               /\ L!Approve(c, s) = Lifecycle!Approve(c, s)
               /\ L!Reject(c, s) = Lifecycle!Reject(c, s)
  /\ \A c : /\ L!Save(c) = Lifecycle!Save(c)
            /\ L!SaveError(c) = Lifecycle!SaveError(c)
  <1> USE DEF L!State, Lifecycle!State, L!MaybeGroup, Lifecycle!MaybeGroup,
              L!Content, Lifecycle!Content, L!Document, Lifecycle!Document,
              L!Call, Lifecycle!Call, L!Create, Lifecycle!Create,
              L!NewId, Lifecycle!NewId, L!Edit, Lifecycle!Edit, L!Submit,
              Lifecycle!Submit, L!Delete, Lifecycle!Delete, L!Approve,
              Lifecycle!Approve, L!Reject, Lifecycle!Reject, L!Patch,
              Lifecycle!Patch, L!Save, Lifecycle!Save, L!SaveError,
              Lifecycle!SaveError, L!Write, Lifecycle!Write, L!apply,
              Lifecycle!apply, L!authorize, Lifecycle!authorize, L!Matching,
              Lifecycle!Matching, L!FSM, Lifecycle!FSM, L!Transition,
              Lifecycle!Transition, L!ActionName, Lifecycle!ActionName,
              L!UserRequest, Lifecycle!UserRequest
  <1>1. L!Next = Lifecycle!Next
    BY DEF L!Next, Lifecycle!Next, L!ReviewRequest, Lifecycle!ReviewRequest
  <1>2. \A c, s : L!UserRequest(c, s) = Lifecycle!UserRequest(c, s)
    OBVIOUS
  <1>3. \A c, s : /\ L!Approve(c, s) = Lifecycle!Approve(c, s)
                  /\ L!Reject(c, s) = Lifecycle!Reject(c, s)
    OBVIOUS
  <1>4. \A c : /\ L!Save(c) = Lifecycle!Save(c)
               /\ L!SaveError(c) = Lifecycle!SaveError(c)
    OBVIOUS
  <1>5. QED
    BY <1>1, <1>2, <1>3, <1>4 DEF L!Init, Lifecycle!Init, L!vars,
       Lifecycle!vars, L!TypeOK,
       Lifecycle!TypeOK, L!Status, Lifecycle!Status

LEMMA LifecycleAssumptions ==
  /\ Lifecycle!GroupAssumption
  /\ Lifecycle!BoundAssumption
  /\ Lifecycle!MarkerAssumption
  BY GroupAssumption, BoundAssumption, MarkerAssumption, SameLifecycle
  DEF Lifecycle!GroupAssumption, Lifecycle!BoundAssumption,
      Lifecycle!MarkerAssumption

LEMMA LifecycleTypeStep == L!TypeOK /\ [L!Next]_L!vars => L!TypeOK'
  <1>1. Lifecycle!TypeOK /\ [Lifecycle!Next]_Lifecycle!vars => Lifecycle!TypeOK'
    BY LifecycleAssumptions, Lifecycle!TypeStep DEF Lifecycle!TypeStep
  <1>2. QED
    BY <1>1, SameLifecycle

\* A write of s stores a document with the next etag.
Rewritten(s) ==
  /\ lifecycle'[s] # NoItem
  /\ etag' = etag + 1
  /\ lifecycle'[s].version = etag + 1

LEMMA LifecycleStores ==
  L!TypeOK /\ [L!Next]_L!vars =>
    /\ etag' \in {etag, etag + 1}
    /\ \A z \in ServiceId : lifecycle'[z] = lifecycle[z] \/ Rewritten(z)
  <1>1. Lifecycle!TypeOK /\ [Lifecycle!Next]_Lifecycle!vars =>
          /\ etag' \in {etag, etag + 1}
          /\ \A z \in ServiceId : lifecycle'[z] = lifecycle[z] \/ Rewritten(z)
    BY LifecycleAssumptions, Lifecycle!ChangeStores
    DEF Lifecycle!ChangeStores, Lifecycle!Rewritten, Rewritten
  <1>2. QED
    BY <1>1, SameLifecycle

LEMMA VerdictStarts ==
  ASSUME L!TypeOK, NEW c \in Client, NEW s \in ServiceId,
         L!Approve(c, s) \/ L!Reject(c, s)
  PROVE  /\ UNCHANGED <<lifecycle, etag, versions>>
         /\ L!Status[s] = "submitted"
         /\ calls'[c] # Idle
         /\ calls'[c].id = s
         /\ calls'[c].state \in {"approved", "rejected"}
         /\ \A d \in Client \ {c} : calls'[d] = calls[d]
  <1>1. Lifecycle!TypeOK /\ (Lifecycle!Approve(c, s) \/ Lifecycle!Reject(c, s))
    BY SameLifecycle
  <1>2. QED
    BY <1>1, SameLifecycle, LifecycleAssumptions, Lifecycle!VerdictStarts
    DEF Lifecycle!VerdictStarts

\* A request or a save changes the call of one client.
LEMMA RequestFrame ==
  ASSUME L!TypeOK, NEW c \in Client, NEW s \in ServiceId, L!UserRequest(c, s)
  PROVE  \A d \in Client \ {c} : calls'[d] = calls[d]
  <1>1. Lifecycle!TypeOK /\ Lifecycle!UserRequest(c, s)
    BY SameLifecycle
  <1>2. QED
    BY <1>1, LifecycleAssumptions, Lifecycle!RequestFrame
    DEF Lifecycle!RequestFrame

LEMMA SaveFrame ==
  ASSUME L!TypeOK, NEW c \in Client, L!Save(c) \/ L!SaveError(c)
  PROVE  \A d \in Client \ {c} : calls'[d] = calls[d]
  <1>1. Lifecycle!TypeOK /\ (Lifecycle!Save(c) \/ Lifecycle!SaveError(c))
    BY SameLifecycle
  <1>2. QED
    BY <1>1, LifecycleAssumptions, Lifecycle!SaveFrame DEF Lifecycle!SaveFrame

-----------------------------------------------------------------------------
(* Every step of the review is a step of the lifecycle, or none of it       *)

\* What TypeOK leaves to the components, and what it needs to be inductive: the
\* watcher and the checker look at documents and tickets without asking whether
\* they are there.
Shape ==
  /\ L!TypeOK
  /\ TypeOK
  /\ \A s \in changed : lifecycle[s] # NoItem
  /\ Len(tickets) <= MaxTicket
  /\ \A r \in Reviewer :
       reviewing[r] # Idle /\ reviewing[r].step \in {"update", "reopen", "insert"}
         => reviewing[r].ticket \in DOMAIN tickets
  /\ \A row \in rows \cup checker.rows : row.ticket \in DOMAIN tickets

LEMMA LifecycleStep == Shape /\ [Next]_vars => [L!Next]_L!vars
  <1> SUFFICES ASSUME Shape, [Next]_vars, ~ UNCHANGED lifecycleVars PROVE L!Next
    BY DEF L!vars, lifecycleVars
  <1>1. CASE StartRequest \/ EndRequest
    BY <1>1 DEF StartRequest, EndRequest, L!Next, Client
  <1>2. ASSUME NEW v \in Validator, Validation(v)
        PROVE  L!Next
    <2>1. ASSUME NEW m \in requestValidation, NEW verdict, Validate(v, m, verdict)
          PROVE  L!Next
      BY <2>1 DEF Validate, Shape, TypeOK, Message, L!Next, L!ReviewRequest, Client
    <2>2. ASSUME NEW saved, NEW fault, EndValidation(v, saved, fault)
          PROVE  L!Next
      BY <2>2 DEF EndValidation, L!Next, Client
    <2>3. QED
      BY <1>2, <2>1, <2>2 DEF Validation, PassOn, ValidateTooLate
  <1>3. ASSUME NEW r \in Reviewer, Review(r)
        PROVE  L!Next
    <2>1. ASSUME NEW m \in requestReview, AutoApprove(r, m)
          PROVE  L!Next
      BY <2>1 DEF AutoApprove, Shape, TypeOK, Message, L!Next, L!ReviewRequest,
                  Client
    <2>2. CASE FailReview(r) \/ EndAutoApprove(r)
      BY <2>2 DEF FailReview, EndAutoApprove, L!Next, Client
    <2>3. QED
      BY <1>3, <2>1, <2>2 DEF Review, SearchTicket, AutoApproveTooLate,
         CreateTicket, UpdateTicket, ReopenTicket, InsertRow
  <1>4. CASE Checker
    <2>1. ASSUME NEW w \in checker.work, ApplyVerdict(w) \/ SaveVerdict(w)
          PROVE  L!Next
      <3>1. w \in Work
        BY DEF Shape, TypeOK
      <3>2. w.ticket \in Client /\ w.row.id \in ServiceId
        BY <3>1 DEF Work, Row, Client
      <3>3. QED
        BY <2>1, <3>2 DEF ApplyVerdict, SaveVerdict, L!Next, L!ReviewRequest
    <2>2. QED
      BY <1>4, <2>1 DEF Checker, ReadPending, SearchDecided, FailSearch,
                        UpdateStatus
  <1>5. QED
    BY <1>1, <1>2, <1>3, <1>4 DEF Next, Watch, Operator, Decide, vars

-----------------------------------------------------------------------------
(* Type correctness                                                         *)

LEMMA PutBackType ==
  ASSUME NEW queue, queue \subseteq Message, NEW m \in Message
  PROVE  PutBack(queue, m) \subseteq Message
  BY DequeueAssumption DEF PutBack, Message

LEMMA GiveUpType ==
  ASSUME lost \subseteq ServiceId, NEW m \in Message, GiveUp(m)
  PROVE  lost' \subseteq ServiceId
  BY DEF GiveUp, Message

TicketType == [id : ServiceId, version : Nat,
               status : {"OPEN", "APPROVED", "REJECTED"}]

\* A ticket is changed in place, and no other.
LEMMA TicketUpdate ==
  ASSUME NEW old \in Seq(TicketType), NEW t \in DOMAIN old,
         NEW new \in TicketType
  PROVE  /\ [old EXCEPT ![t] = new] \in Seq(TicketType)
         /\ DOMAIN [old EXCEPT ![t] = new] = DOMAIN old
         /\ Len([old EXCEPT ![t] = new]) = Len(old)
  BY ExceptSeq

\* What a step that opens no ticket and changes none has to keep: the queues and
\* the handlers (Hands), the table and the checker (Table).
Hands ==
  /\ requestValidation \subseteq Message /\ requestReview \subseteq Message
  /\ lost \subseteq ServiceId
  /\ validating \in [Validator -> Message \cup {Idle}]
  /\ reviewing \in [Reviewer -> Task \cup {Idle}]

Table ==
  /\ rows \subseteq Row
  /\ checker \in [rows : SUBSET Row, work : SUBSET Work]

Jira == tickets \in Seq(TicketType) /\ Len(tickets) <= MaxTicket

Linked ==
  /\ \A r \in Reviewer :
       reviewing[r] # Idle /\ reviewing[r].step \in {"update", "reopen", "insert"}
         => reviewing[r].ticket \in DOMAIN tickets
  /\ \A row \in rows \cup checker.rows : row.ticket \in DOMAIN tickets

Platform ==
  /\ L!TypeOK
  /\ changed \subseteq ServiceId
  /\ \A s \in changed : lifecycle[s] # NoItem
  /\ faults \in [ServiceId -> 0..MaxFault]
  /\ trusted \subseteq ServiceId

LEMMA ShapeParts == Shape <=> Platform /\ Hands /\ Table /\ Jira /\ Linked
  BY DEF Shape, TypeOK, Platform, Hands, Table, Jira, Linked, TicketType

LEMMA ShapePartsNext ==
  Platform' /\ Hands' /\ Table' /\ Jira' /\ Linked' => Shape'
  BY DEF Shape, TypeOK, Platform, Hands, Table, Jira, Linked, TicketType

\* A step counts a fault of one service, or none.
Counted == NoFault \/ \E s : Fault(s)

LEMMA FaultType ==
  ASSUME faults \in [ServiceId -> 0..MaxFault], Counted
  PROVE  /\ faults' \in [ServiceId -> 0..MaxFault]
         /\ \A s \in ServiceId : faults'[s] = 0 => faults[s] = 0
  <1>1. ASSUME NEW s, Fault(s)
        PROVE  /\ faults' \in [ServiceId -> 0..MaxFault]
               /\ \A z \in ServiceId : faults'[z] = 0 => faults[z] = 0
    <2>1. CASE s \in ServiceId
      BY <1>1, <2>1, BoundAssumption DEF Fault
    <2>2. CASE s \notin ServiceId
      BY <1>1, <2>2 DEF Fault
    <2>3. QED
      BY <2>1, <2>2
  <1>2. QED
    BY <1>1 DEF Counted, NoFault

LEMMA StepCounts == [Next]_vars => Counted
  <1>1. ASSUME NEW s \in ServiceId, NEW fault \in BOOLEAN, Watch(s, fault)
        PROVE  Counted
    BY <1>1 DEF Watch, May, Counted
  <1>2. ASSUME NEW v \in Validator, Validation(v)
        PROVE  Counted
    BY <1>2 DEF Validation, PassOn, Validate, ValidateTooLate, EndValidation, May,
       NoFault, Counted
  <1>3. ASSUME NEW r \in Reviewer, Review(r)
        PROVE  Counted
    BY <1>3 DEF Review, SearchTicket, AutoApprove, AutoApproveTooLate, CreateTicket,
       UpdateTicket, ReopenTicket, InsertRow, EndAutoApprove, FailReview, May, NoFault,
       Counted
  <1>4. ASSUME NEW t \in DOMAIN tickets, Operator(t)
        PROVE  NoFault
    BY <1>4 DEF Operator, Decide, NoFault
  <1>5. Checker => Counted
    BY DEF Checker, ReadPending, SearchDecided, FailSearch, ApplyVerdict, SaveVerdict,
       UpdateStatus, May, NoFault, Counted
  <1>6. QED
    BY <1>1, <1>2, <1>3, <1>4, <1>5 DEF Next, vars, StartRequest, EndRequest, NoFault,
       Counted

LEMMA NextCounts ==
  ASSUME Shape, [Next]_vars
  PROVE  /\ faults' \in [ServiceId -> 0..MaxFault]
         /\ \A s \in ServiceId : faults'[s] = 0 => faults[s] = 0
  BY StepCounts, FaultType DEF Shape, TypeOK

\* What changes a service also feeds the watcher.
LEMMA StepFeeds ==
  [Next]_vars => Feed \/ (UNCHANGED lifecycle /\ changed' \subseteq changed)
  <1> DEFINE Unfed == UNCHANGED lifecycle /\ changed' \subseteq changed
  <1>1. /\ \A c, s : L!Approve(c, s) \/ L!Reject(c, s) => UNCHANGED lifecycle
        /\ \A c : L!SaveError(c) => UNCHANGED lifecycle
    BY DEF L!Approve, L!Reject, L!apply, L!SaveError
  <1>2. ASSUME NEW s \in ServiceId, NEW fault \in BOOLEAN, Watch(s, fault)
        PROVE  Unfed
    BY <1>2 DEF Watch, lifecycleVars
  <1>3. ASSUME NEW v \in Validator, Validation(v)
        PROVE  Feed \/ Unfed
    BY <1>1, <1>3 DEF Validation, PassOn, Validate, ValidateTooLate, EndValidation,
       lifecycleVars
  <1>4. ASSUME NEW r \in Reviewer, Review(r)
        PROVE  Feed \/ Unfed
    BY <1>1, <1>4 DEF Review, SearchTicket, AutoApprove, AutoApproveTooLate,
       CreateTicket, UpdateTicket, ReopenTicket, InsertRow, EndAutoApprove,
       FailReview, lifecycleVars
  <1>5. ASSUME NEW t \in DOMAIN tickets, Operator(t)
        PROVE  Unfed
    BY <1>5 DEF Operator, Decide, lifecycleVars
  <1>6. Checker => Feed \/ Unfed
    BY <1>1 DEF Checker, ReadPending, SearchDecided, FailSearch, ApplyVerdict,
       SaveVerdict, UpdateStatus, lifecycleVars
  <1>7. QED
    BY <1>2, <1>3, <1>4, <1>5, <1>6 DEF Next, vars, StartRequest, EndRequest,
       lifecycleVars

LEMMA PlatformStep == Shape /\ [Next]_vars => Platform'
  <1> SUFFICES ASSUME Shape, [Next]_vars PROVE Platform'
    OBVIOUS
  <1>1. L!TypeOK /\ L!TypeOK'
    BY LifecycleStep, LifecycleTypeStep DEF Shape
  <1>2. \A z \in ServiceId : lifecycle'[z] = lifecycle[z] \/ lifecycle'[z] # NoItem
    BY LifecycleStep, LifecycleStores DEF Shape, Rewritten
  <1>3. Feed \/ (UNCHANGED lifecycle /\ changed' \subseteq changed)
    BY StepFeeds
  <1>4. /\ changed' \subseteq ServiceId
        /\ \A s \in changed' : lifecycle'[s] # NoItem
    BY <1>2, <1>3 DEF Feed, Shape, TypeOK
  <1>5. trusted' = trusted
    BY ZenonT(40) DEF Next, vars, StartRequest, EndRequest, Watch, Validation, PassOn,
       Validate, ValidateTooLate, EndValidation, Review, SearchTicket,
       AutoApprove, AutoApproveTooLate, CreateTicket, UpdateTicket,
       ReopenTicket, InsertRow, EndAutoApprove, FailReview, Operator, Decide,
       Checker, ReadPending, SearchDecided, FailSearch, ApplyVerdict,
       SaveVerdict, UpdateStatus
  <1>6. QED
    BY <1>1, <1>4, <1>5, NextCounts DEF Platform, Shape, TypeOK

\* The queues and the handlers.
LEMMA ValidationHands ==
  ASSUME Shape, NEW v \in Validator, Validation(v)
  PROVE  Hands'
  <1>1. ASSUME NEW m \in requestValidation, NEW fault \in BOOLEAN,
               PassOn(v, m, fault)
        PROVE  Hands'
    <2>1. m \in Message
      BY DEF Shape, TypeOK
    <2>2. [m EXCEPT !.dequeueCount = 0] \in Message
      BY <2>1, DequeueAssumption DEF Message
    <2>3. PutBack(requestValidation \ {m}, m) \subseteq Message
      BY <2>1, PutBackType DEF Shape, TypeOK
    <2>4. lost' \subseteq ServiceId
      <3>1. GiveUp(m) \/ UNCHANGED lost
        BY <1>1 DEF PassOn
      <3>2. QED
        BY <2>1, <3>1, GiveUpType DEF Shape, TypeOK
    <2>5. QED
      BY <1>1, <2>2, <2>3, <2>4 DEF PassOn, Hands, Shape, TypeOK
  <1>2. ASSUME NEW m \in requestValidation, NEW verdict, Validate(v, m, verdict)
        PROVE  Hands'
    BY <1>2 DEF Validate, Hands, Shape, TypeOK
  <1>3. ASSUME NEW m \in requestValidation, ValidateTooLate(v, m)
        PROVE  Hands'
    <2>1. m \in Message
      BY DEF Shape, TypeOK
    <2>2. PutBack(requestValidation \ {m}, m) \subseteq Message
      BY <2>1, PutBackType DEF Shape, TypeOK
    <2>3. lost' \subseteq ServiceId
      BY <1>3, <2>1, GiveUpType DEF ValidateTooLate, Shape, TypeOK
    <2>4. QED
      BY <1>3, <2>2, <2>3 DEF ValidateTooLate, Hands, Shape, TypeOK
  <1>4. ASSUME NEW saved \in BOOLEAN, NEW fault \in BOOLEAN,
               EndValidation(v, saved, fault)
        PROVE  Hands'
    <2>1. validating[v] \in Message
      BY <1>4 DEF EndValidation, Shape, TypeOK
    <2>2. PutBack(requestValidation, validating[v]) \subseteq Message
      BY <2>1, PutBackType DEF Shape, TypeOK
    <2>3. lost' \subseteq ServiceId
      BY <1>4, <2>1, GiveUpType DEF EndValidation, Shape, TypeOK
    <2>4. QED
      BY <1>4, <2>2, <2>3 DEF EndValidation, Hands, Shape, TypeOK
  <1>5. QED
    BY <1>1, <1>2, <1>3, <1>4 DEF Validation

\* The tasks of the reviewers and the tickets they are about.
LEMMA GoType ==
  ASSUME Shape, NEW r \in Reviewer, NEW m \in Message, NEW step \in Step,
         NEW ticket \in 0..MaxTicket, Go(r, m, step, ticket),
         DOMAIN tickets \subseteq DOMAIN tickets',
         step \in {"update", "reopen", "insert"} => ticket \in DOMAIN tickets'
  PROVE  /\ reviewing' \in [Reviewer -> Task \cup {Idle}]
         /\ \A q \in Reviewer :
              /\ reviewing'[q] # Idle
              /\ reviewing'[q].step \in {"update", "reopen", "insert"}
              => reviewing'[q].ticket \in DOMAIN tickets'
  <1>1. [message |-> m, step |-> step, ticket |-> ticket] \in Task
    BY DEF Task
  <1>2. QED
    BY <1>1 DEF Go, Shape, TypeOK

\* A task that is over leaves the others.
LEMMA DoneType ==
  ASSUME Shape, NEW r \in Reviewer, reviewing' = [reviewing EXCEPT ![r] = Idle],
         tickets' = tickets
  PROVE  /\ reviewing' \in [Reviewer -> Task \cup {Idle}]
         /\ \A q \in Reviewer :
              /\ reviewing'[q] # Idle
              /\ reviewing'[q].step \in {"update", "reopen", "insert"}
              => reviewing'[q].ticket \in DOMAIN tickets'
  BY DEF Shape, TypeOK

\* The tickets are as many as their bound lets there be.
LEMMA TicketsType ==
  ASSUME Shape
  PROVE  /\ tickets \in Seq(TicketType)
         /\ Len(tickets) \in Nat /\ Len(tickets) <= MaxTicket
         /\ DOMAIN tickets = 1..Len(tickets)
         /\ DOMAIN tickets \subseteq Ticket
         /\ \A t \in DOMAIN tickets : tickets[t] \in TicketType
  <1>1. tickets \in Seq(TicketType) /\ Len(tickets) <= MaxTicket
    BY DEF Shape, TypeOK, TicketType
  <1>2. /\ Len(tickets) \in Nat
        /\ DOMAIN tickets = 1..Len(tickets)
        /\ \A t \in DOMAIN tickets : tickets[t] \in TicketType
    BY <1>1
  <1>3. QED
    BY <1>1, <1>2, BoundAssumption DEF Ticket

LEMMA ReviewStep ==
  ASSUME Shape, NEW r \in Reviewer, Review(r)
  PROVE  Hands' /\ Jira' /\ Table' /\ Linked'
  <1> USE TicketsType
  <1>1. ASSUME NEW m \in requestReview, SearchTicket(r, m)
        PROVE  Hands' /\ Jira' /\ Table' /\ Linked'
    <2>1. m \in Message /\ requestReview' \subseteq Message
      BY <1>1 DEF SearchTicket, Shape, TypeOK
    <2>2. \E step \in Step, ticket \in 0..MaxTicket :
            /\ Go(r, m, step, ticket)
            /\ step \in {"update", "reopen", "insert"} => ticket \in DOMAIN tickets
      <3>1. CASE Go(r, m, "create", 0)
        BY <3>1, BoundAssumption DEF Step
      <3>2. ASSUME NEW t \in PendingAndRejected(m.id),
                   Go(r, m, IF tickets[t].status = "REJECTED" THEN "update"
                            ELSE "insert", t)
            PROVE  \E step \in Step, ticket \in 0..MaxTicket :
                     /\ Go(r, m, step, ticket)
                     /\ step \in {"update", "reopen", "insert"}
                          => ticket \in DOMAIN tickets
        <4>1. t \in DOMAIN tickets /\ t \in 0..MaxTicket
          BY BoundAssumption DEF PendingAndRejected, Ticket
        <4>2. QED
          BY <3>2, <4>1 DEF Step
      <3>3. QED
        BY <1>1, <3>1, <3>2 DEF SearchTicket
    <2>3. tickets' = tickets
      BY <1>1 DEF SearchTicket, trackVars
    <2>4. /\ reviewing' \in [Reviewer -> Task \cup {Idle}]
          /\ \A q \in Reviewer :
               /\ reviewing'[q] # Idle
               /\ reviewing'[q].step \in {"update", "reopen", "insert"}
               => reviewing'[q].ticket \in DOMAIN tickets'
      BY <2>1, <2>2, <2>3, GoType
    <2>5. QED
      BY <1>1, <2>1, <2>4 DEF SearchTicket, trackVars, Hands, Jira, Table, Linked,
                              Shape, TypeOK
  <1>2. ASSUME NEW m \in requestReview, AutoApprove(r, m)
        PROVE  Hands' /\ Jira' /\ Table' /\ Linked'
    <2>1. m \in Message /\ requestReview' \subseteq Message
      BY <1>2 DEF AutoApprove, Shape, TypeOK
    <2>2. tickets' = tickets
      BY <1>2 DEF AutoApprove, trackVars
    <2>3. /\ reviewing' \in [Reviewer -> Task \cup {Idle}]
          /\ \A q \in Reviewer :
               /\ reviewing'[q] # Idle
               /\ reviewing'[q].step \in {"update", "reopen", "insert"}
               => reviewing'[q].ticket \in DOMAIN tickets'
      BY <1>2, <2>1, <2>2, BoundAssumption, GoType DEF AutoApprove, Step
    <2>4. QED
      BY <1>2, <2>1, <2>3 DEF AutoApprove, trackVars, Hands, Jira, Table, Linked,
                              Shape, TypeOK
  <1>3. ASSUME NEW m \in requestReview, AutoApproveTooLate(r, m)
        PROVE  Hands' /\ Jira' /\ Table' /\ Linked'
    <2>1. m \in Message
      BY DEF Shape, TypeOK
    <2>2. PutBack(requestReview \ {m}, m) \subseteq Message
      BY <2>1, PutBackType DEF Shape, TypeOK
    <2>3. lost' \subseteq ServiceId
      BY <1>3, <2>1, GiveUpType DEF AutoApproveTooLate, Shape, TypeOK
    <2>4. QED
      BY <1>3, <2>2, <2>3 DEF AutoApproveTooLate, trackVars, Hands, Jira, Table,
                              Linked, Shape, TypeOK
  <1>4. CASE CreateTicket(r)
    <2> DEFINE m == reviewing[r].message
               new == [id |-> m.id, version |-> m.version, status |-> "OPEN"]
    <2>1. m \in Message
      BY <1>4 DEF CreateTicket, At, Shape, TypeOK, Task
    <2>2. new \in TicketType
      BY <2>1 DEF Message, TicketType
    <2>3. /\ tickets' = Append(tickets, new)
          /\ Go(r, m, "insert", Len(tickets) + 1)
          /\ Len(tickets) < MaxTicket
      BY <1>4 DEF CreateTicket
    <2>4. /\ tickets' \in Seq(TicketType)
          /\ Len(tickets') = Len(tickets) + 1
          /\ DOMAIN tickets' = 1..Len(tickets) + 1
      BY <2>2, <2>3
    <2>5. Jira'
      BY <2>3, <2>4, BoundAssumption DEF Jira
    <2>6. /\ DOMAIN tickets \subseteq DOMAIN tickets'
          /\ Len(tickets) + 1 \in DOMAIN tickets'
          /\ Len(tickets) + 1 \in 0..MaxTicket
      BY <2>3, <2>4, BoundAssumption
    <2>7. /\ reviewing' \in [Reviewer -> Task \cup {Idle}]
          /\ \A q \in Reviewer :
               /\ reviewing'[q] # Idle
               /\ reviewing'[q].step \in {"update", "reopen", "insert"}
               => reviewing'[q].ticket \in DOMAIN tickets'
      BY <2>1, <2>3, <2>6, GoType DEF Step
    <2>8. QED
      BY <1>4, <2>5, <2>6, <2>7 DEF CreateTicket, Hands, Table, Linked, Shape,
                                    TypeOK
  <1>5. CASE UpdateTicket(r) \/ ReopenTicket(r)
    <2> DEFINE m == reviewing[r].message
               t == reviewing[r].ticket
    <2>1. m \in Message /\ t \in DOMAIN tickets /\ t \in 0..MaxTicket
      BY <1>5 DEF UpdateTicket, ReopenTicket, At, Shape, TypeOK, Task
    <2>2. \E new \in TicketType : tickets' = [tickets EXCEPT ![t] = new]
      <3>1. tickets[t] \in TicketType
        BY <2>1
      <3>2. /\ [tickets[t] EXCEPT !.version = m.version] \in TicketType
            /\ [tickets[t] EXCEPT !.status = "OPEN"] \in TicketType
        BY <2>1, <3>1 DEF TicketType, Message
      <3>3. \/ tickets' = [tickets EXCEPT ![t] = [tickets[t] EXCEPT !.version = m.version]]
            \/ tickets' = [tickets EXCEPT ![t] = [tickets[t] EXCEPT !.status = "OPEN"]]
        BY <1>5 DEF UpdateTicket, ReopenTicket
      <3>4. QED
        BY <3>2, <3>3
    <2>3. Jira' /\ DOMAIN tickets' = DOMAIN tickets
      BY <2>1, <2>2, TicketUpdate DEF Jira
    <2>4. \E step \in {"reopen", "insert"} : Go(r, m, step, t)
      BY <1>5 DEF UpdateTicket, ReopenTicket
    <2>5. /\ reviewing' \in [Reviewer -> Task \cup {Idle}]
          /\ \A q \in Reviewer :
               /\ reviewing'[q] # Idle
               /\ reviewing'[q].step \in {"update", "reopen", "insert"}
               => reviewing'[q].ticket \in DOMAIN tickets'
      BY <2>1, <2>3, <2>4, GoType DEF Step
    <2>6. QED
      BY <1>5, <2>3, <2>5 DEF UpdateTicket, ReopenTicket, Hands, Table, Linked,
                              Shape, TypeOK
  <1>6. ASSUME NEW fault \in BOOLEAN, InsertRow(r, fault)
        PROVE  Hands' /\ Jira' /\ Table' /\ Linked'
    <2> DEFINE m == reviewing[r].message
    <2>1. m \in Message /\ reviewing[r].ticket \in DOMAIN tickets
      BY <1>6 DEF InsertRow, At, Shape, TypeOK, Task
    <2>2. PutBack(requestReview, m) \subseteq Message
      BY <2>1, PutBackType DEF Shape, TypeOK
    <2>3. lost' \subseteq ServiceId
      BY <1>6, <2>1, GiveUpType DEF InsertRow, Shape, TypeOK
    <2>4. [id |-> m.id, version |-> m.version, ticket |-> reviewing[r].ticket,
           status |-> "PENDING"] \in Row
      BY <2>1 DEF Row, Message
    <2>5. /\ rows' \subseteq Row
          /\ \A row \in rows' : row.ticket \in DOMAIN tickets
      BY <1>6, <2>1, <2>4 DEF InsertRow, Shape, TypeOK
    <2>6. reviewing' = [reviewing EXCEPT ![r] = Idle] /\ tickets' = tickets
      BY <1>6 DEF InsertRow
    <2>7. QED
      BY <1>6, <2>2, <2>3, <2>5, <2>6, DoneType DEF InsertRow, Hands, Jira, Table,
                                                    Linked, Shape, TypeOK
  <1>7. CASE EndAutoApprove(r)
    <2>1. reviewing' = [reviewing EXCEPT ![r] = Idle] /\ tickets' = tickets
      BY <1>7 DEF EndAutoApprove, trackVars
    <2>2. QED
      BY <1>7, <2>1, DoneType DEF EndAutoApprove, trackVars, Hands, Jira, Table,
                                  Linked, Shape, TypeOK
  <1>8. CASE FailReview(r)
    <2>1. reviewing[r].message \in Message
      BY <1>8 DEF FailReview, Shape, TypeOK, Task
    <2>2. PutBack(requestReview, reviewing[r].message) \subseteq Message
      BY <2>1, PutBackType DEF Shape, TypeOK
    <2>3. lost' \subseteq ServiceId
      BY <1>8, <2>1, GiveUpType DEF FailReview, Shape, TypeOK
    <2>4. reviewing' = [reviewing EXCEPT ![r] = Idle] /\ tickets' = tickets
      BY <1>8 DEF FailReview, trackVars
    <2>5. QED
      BY <1>8, <2>2, <2>3, <2>4, DoneType DEF FailReview, trackVars, Hands, Jira,
                                              Table, Linked, Shape, TypeOK
  <1>9. QED
    BY <1>1, <1>2, <1>3, <1>4, <1>5, <1>6, <1>7, <1>8 DEF Review

\* The runs of the checker: what they look for, and what they do with it.
LEMMA CheckerStep ==
  ASSUME Shape, Checker
  PROVE  Table' /\ Linked'
  <1> USE TicketsType
  <1>1. NoRun \in [rows : SUBSET Row, work : SUBSET Work]
    BY DEF NoRun
  <1>2. CASE ReadPending
    <2>1. checker' = [rows |-> {row \in rows : row.status = "PENDING"}, work |-> {}]
      BY <1>2 DEF ReadPending, NoRun
    <2>2. QED
      BY <1>2, <2>1 DEF ReadPending, workVars, trackVars, Table, Linked, Shape,
                        TypeOK
  <1>3. CASE FailSearch
    BY <1>1, <1>3 DEF FailSearch, NoRun, workVars, trackVars, Table, Linked, Shape,
                      TypeOK
  <1>4. CASE SearchDecided
    <2> DEFINE decided == {t \in {row.ticket : row \in checker.rows} :
                             tickets[t].status \in {"APPROVED", "REJECTED"}}
    <2>1. PICK item \in [decided -> checker.rows] :
            checker' = [rows |-> {},
                        work |-> {[ticket |-> t, row |-> item[t], step |-> "apply",
                                   verdict |-> tickets[t].status] : t \in decided}]
      BY <1>4 DEF SearchDecided
    <2>2. ASSUME NEW t \in decided
          PROVE  [ticket |-> t, row |-> item[t], step |-> "apply",
                  verdict |-> tickets[t].status] \in Work
      <3>1. t \in Ticket
        BY DEF Shape
      <3>2. item[t] \in Row
        BY <2>1 DEF Shape, TypeOK
      <3>3. QED
        BY <3>1, <3>2 DEF Work
    <2>3. QED
      BY <1>4, <2>1, <2>2 DEF SearchDecided, workVars, trackVars, Table, Linked,
                              Shape, TypeOK
  <1>5. ASSUME NEW w \in checker.work,
               ApplyVerdict(w) \/ SaveVerdict(w) \/ UpdateStatus(w)
        PROVE  Table' /\ Linked'
    <2>1. w \in Work
      BY DEF Shape, TypeOK
    <2>2. \A step \in {"save", "update"} : [w EXCEPT !.step = step] \in Work
      BY <2>1 DEF Work
    <2>3. \/ Drop(w)
          \/ \E step \in {"save", "update"} : Advance(w, step)
      BY <1>5 DEF ApplyVerdict, SaveVerdict, UpdateStatus
    <2>4. checker' \in [rows : SUBSET Row, work : SUBSET Work]
          /\ checker'.rows = checker.rows
      BY <2>2, <2>3, ShapeParts DEF Drop, Advance, Table
    <2>5. tickets' = tickets /\ reviewing' = reviewing
      BY <1>5 DEF ApplyVerdict, SaveVerdict, UpdateStatus, workVars, trackVars
    <2>6. /\ rows' \subseteq Row
          /\ \A row \in rows' : row.ticket \in DOMAIN tickets
      <3>1. CASE rows' = rows
        BY <3>1 DEF Shape, TypeOK
      <3>2. CASE rows' = {IF row.id = w.row.id /\ row.version = w.row.version
                          THEN [row EXCEPT !.status = w.verdict] ELSE row : row \in rows}
        <4>1. ASSUME NEW row \in rows
              PROVE  /\ [row EXCEPT !.status = w.verdict] \in Row
                     /\ [row EXCEPT !.status = w.verdict].ticket = row.ticket
                     /\ row \in Row /\ row.ticket \in DOMAIN tickets
          BY <2>1 DEF Work, Row, Shape, TypeOK
        <4>2. QED
          BY <3>2, <4>1
      <3>3. QED
        BY <1>5, <3>1, <3>2 DEF ApplyVerdict, SaveVerdict, UpdateStatus, trackVars
    <2>7. QED
      BY <2>4, <2>5, <2>6 DEF Table, Linked, Shape
  <1>6. QED
    BY <1>2, <1>3, <1>4, <1>5 DEF Checker

LEMMA ShapeStep == Shape /\ [Next]_vars => Shape'
  <1> SUFFICES ASSUME Shape, [Next]_vars PROVE Shape'
    OBVIOUS
  <1>1. Platform'
    BY PlatformStep
  <1>2. Hands /\ Table /\ Jira /\ Linked
    BY ShapeParts
  <1>3. ASSUME UNCHANGED <<workVars, trackVars, checker>>
        PROVE  Shape'
    BY <1>1, <1>2, <1>3, ShapePartsNext DEF workVars, trackVars, Hands, Table, Jira,
                                            Linked
  <1>4. ASSUME NEW s \in ServiceId, NEW fault \in BOOLEAN, Watch(s, fault)
        PROVE  Shape'
    <2>1. lifecycle[s] \in L!Document
      BY <1>4 DEF Watch, Shape, L!TypeOK
    <2>2. [id |-> s, version |-> lifecycle[s].version, dequeueCount |-> 0] \in Message
      BY <2>1, DequeueAssumption DEF Message, L!Document
    <2>3. Hands'
      BY <1>2, <1>4, <2>2 DEF Watch, Hands
    <2>4. QED
      BY <1>1, <1>2, <1>4, <2>3, ShapePartsNext DEF Watch, trackVars, Table, Jira,
                                                    Linked
  <1>5. ASSUME NEW v \in Validator, Validation(v)
        PROVE  Shape'
    <2>1. Hands'
      BY <1>5, ValidationHands
    <2>2. UNCHANGED <<tickets, rows, checker, reviewing>>
      BY <1>5 DEF Validation, PassOn, Validate, ValidateTooLate, EndValidation,
                  trackVars
    <2>3. QED
      BY <1>1, <1>2, <2>1, <2>2, ShapePartsNext DEF Table, Jira, Linked
  <1>6. ASSUME NEW r \in Reviewer, Review(r)
        PROVE  Shape'
    BY <1>1, <1>6, ReviewStep, ShapePartsNext
  <1>7. ASSUME NEW t \in DOMAIN tickets, Operator(t)
        PROVE  Shape'
    <2>1. PICK verdict \in {"APPROVED", "REJECTED"} :
            tickets' = [tickets EXCEPT ![t] = [tickets[t] EXCEPT !.status = verdict]]
      BY <1>7 DEF Operator, Decide
    <2>2. [tickets[t] EXCEPT !.status = verdict] \in TicketType
      BY TicketsType DEF TicketType
    <2>3. Jira' /\ DOMAIN tickets' = DOMAIN tickets
      BY <2>1, <2>2, TicketsType, TicketUpdate DEF Jira
    <2>4. QED
      BY <1>1, <1>2, <1>7, <2>3, ShapePartsNext DEF Operator, Decide, workVars, Hands,
                                                    Table, Linked
  <1>8. CASE Checker
    <2>1. Table' /\ Linked'
      BY <1>8, CheckerStep
    <2>2. UNCHANGED <<workVars, tickets>>
      BY <1>8 DEF Checker, ReadPending, SearchDecided, FailSearch, ApplyVerdict,
                  SaveVerdict, UpdateStatus, trackVars
    <2>3. QED
      BY <1>1, <1>2, <2>1, <2>2, ShapePartsNext DEF workVars, Hands, Jira
  <1>9. QED
    BY <1>3, <1>4, <1>5, <1>6, <1>7, <1>8 DEF Next, StartRequest, EndRequest, vars

LEMMA InitShape == Init => Shape
  <1> SUFFICES ASSUME Init PROVE Shape
    OBVIOUS
  <1>1. Platform
    BY BoundAssumption DEF Init, Platform, L!Init, L!TypeOK
  <1>2. Hands
    BY DEF Init, Hands
  <1>3. Jira
    BY BoundAssumption DEF Init, Jira
  <1>4. Table /\ Linked
    BY DEF Init, Table, Linked, NoRun
  <1>5. QED
    BY <1>1, <1>2, <1>3, <1>4, ShapeParts

\* The queues, Jira, the table and the checker keep their shape.
THEOREM TypeCorrect == Spec => []TypeOK
  <1>1. Shape => TypeOK
    BY DEF Shape
  <1>2. QED
    BY <1>1, InitShape, ShapeStep, PTL DEF Spec

\* Seen through the lifecycle container and the calls on it, the review is the
\* lifecycle: no verdict is written but through its operations.
THEOREM ImplementsLifecycle == Spec => L!Spec
  <1>1. Init => L!Init
    BY DEF Init
  <1>2. QED
    BY <1>1, InitShape, ShapeStep, LifecycleStep, PTL DEF Spec, L!Spec

-----------------------------------------------------------------------------
(* What is approved was submitted                                           *)

\* What was proved of the lifecycle alone holds of the review, which implements it.
THEOREM ApprovalCorrect == Spec => []ApprovedWasSubmitted
  <1>1. L!Spec => []Lifecycle!ApprovedWasSubmitted
    <2>1. /\ L!Init => Lifecycle!Init
          /\ [L!Next]_L!vars => [Lifecycle!Next]_Lifecycle!vars
      BY SameLifecycle
    <2>2. L!Spec => Lifecycle!Spec
      BY <2>1, PTL DEF L!Spec, Lifecycle!Spec
    <2>3. QED
      BY <2>2, LifecycleAssumptions, Lifecycle!ApprovalCorrect, PTL
      DEF Lifecycle!ApprovalCorrect
  <1>2. Lifecycle!ApprovedWasSubmitted => ApprovedWasSubmitted
    BY DEF Lifecycle!ApprovedWasSubmitted, ApprovedWasSubmitted,
           L!ApprovedWasSubmitted, Lifecycle!Submitted, L!Submitted
  <1>3. QED
    BY <1>1, <1>2, ImplementsLifecycle, PTL

-----------------------------------------------------------------------------
(* A submitted service is never forgotten                                   *)

\* A message or a row is about version n of s, which is the one under review.
Current(s, n) == L!Status[s] = "submitted" /\ lifecycle[s].version = n

\* Whatever is in the queues, in the hands of a handler or in the table is about a
\* version that has been stored.
Dated ==
  /\ \A s \in ServiceId : lifecycle[s] # NoItem => lifecycle[s].version <= etag
  /\ \A m \in requestValidation \cup requestReview : m.version <= etag
  /\ \A v \in Validator : validating[v] # Idle => validating[v].version <= etag
  /\ \A r \in Reviewer : reviewing[r] # Idle => reviewing[r].message.version <= etag
  /\ \A row \in rows \cup checker.rows : row.version <= etag
  /\ \A w \in checker.work : w.row.version <= etag

\* The call of a handler is about the service it handles, and the checker has one
\* call for each ticket.
ValidatorCalls ==
  \A v \in Validator : validating[v] # Idle => calls[v].id = validating[v].id

ReviewerCalls ==
  \A r \in Reviewer : At(r, "approve") => calls[r].id = reviewing[r].message.id

CheckerCalls ==
  /\ \A w \in checker.work : w.step = "save" => calls[w.ticket].id = w.row.id
  /\ \A w, x \in checker.work : w.ticket = x.ticket => w = x

Verdicts == ValidatorCalls /\ ReviewerCalls /\ CheckerCalls

\* A row is updated only once its version is not under review any more.
Undecided ==
  /\ \A row \in rows : Current(row.id, row.version) => row.status = "PENDING"
  /\ \A w \in checker.work :
       w.step = "update" => ~ Current(w.row.id, w.row.version)

\* Somebody has version n of s in his hands.
Queued(s, n) ==
  \E m \in requestValidation \cup requestReview : m.id = s /\ m.version = n

Validated(s, n) ==
  \E v \in Validator :
    validating[v] # Idle /\ validating[v].id = s /\ validating[v].version = n

Reviewed(s, n) ==
  \E r \in Reviewer :
    /\ reviewing[r] # Idle
    /\ reviewing[r].message.id = s /\ reviewing[r].message.version = n

InTable(s, n) == \E row \in rows : row.id = s /\ row.version = n

InHand(s, n) ==
  \/ s \in changed \/ s \in lost
  \/ Queued(s, n) \/ Validated(s, n) \/ Reviewed(s, n) \/ InTable(s, n)

Tracked == \A s \in ServiceId, n \in Nat : Current(s, n) => InHand(s, n)

\* SubmittedIsTracked is not inductive: that a row is pending does not say that it is
\* the row of the version under review, which the checker will not close by mistake.
IInv == Shape /\ Dated /\ Verdicts /\ Undecided /\ Tracked

\* A new version is later than all those that are known.
LEMMA VersionsStep ==
  ASSUME Shape, Dated, [Next]_vars
  PROVE  /\ etag \in Nat /\ etag' \in Nat /\ etag <= etag'
         /\ \A s \in ServiceId : lifecycle'[s] # NoItem => lifecycle'[s].version <= etag'
         /\ \A s \in ServiceId, n \in Nat :
              n <= etag /\ Current(s, n)' => Current(s, n) /\ lifecycle'[s] = lifecycle[s]
  <1>1. /\ etag' \in {etag, etag + 1}
        /\ \A s \in ServiceId : lifecycle'[s] = lifecycle[s] \/ Rewritten(s)
    BY LifecycleStep, LifecycleStores DEF Shape
  <1>2. etag \in Nat /\ L!TypeOK
    BY DEF Shape, L!TypeOK
  <1>3. \A s \in ServiceId : lifecycle[s] # NoItem => lifecycle[s].version \in Nat
    BY <1>2 DEF L!TypeOK, L!Document
  <1>4. \A s \in ServiceId : lifecycle'[s] # NoItem => lifecycle'[s].version <= etag'
    BY <1>1, <1>2, <1>3 DEF Dated, Rewritten
  <1>5. ASSUME NEW s \in ServiceId, NEW n \in Nat, n <= etag, Current(s, n)'
        PROVE  Current(s, n) /\ lifecycle'[s] = lifecycle[s]
    <2>1. ~ Rewritten(s)
      BY <1>2, <1>5 DEF Current, Rewritten
    <2>2. lifecycle'[s] = lifecycle[s]
      BY <1>1, <2>1
    <2>3. QED
      BY <1>5, <2>2 DEF Current, L!Status
  <1>6. QED
    BY <1>1, <1>2, <1>4, <1>5

\* A save stores a new version.
LEMMA SaveIsNew ==
  ASSUME Shape, NEW c \in Client, L!Save(c)
  PROVE  /\ calls[c].id \in ServiceId
         /\ Rewritten(calls[c].id)
  <1>1. calls[c] \in L!Call
    BY DEF L!Save, Shape, L!TypeOK
  <1>2. /\ calls[c].id \in ServiceId
        /\ calls[c].content \in L!Content
        /\ calls[c].state \in L!State
    BY <1>1 DEF L!Call
  <1>3. /\ lifecycle'[calls[c].id] = [content |-> calls[c].content,
                                      state |-> calls[c].state,
                                      version |-> etag + 1]
        /\ etag' = etag + 1 /\ etag \in Nat
    BY <1>2 DEF L!Save, L!Write, Shape, L!TypeOK
  <1>4. lifecycle'[calls[c].id] \in L!Document
    BY <1>2, <1>3 DEF L!Document
  <1>5. QED
    BY <1>2, <1>3, <1>4, MarkerAssumption DEF Rewritten

\* Messages are put back, and passed on, with the version they came with.
LEMMA PutBackKeeps ==
  ASSUME NEW queue, NEW m \in Message
  PROVE  /\ \A x \in PutBack(queue, m) :
              x \in queue \/ (x.id = m.id /\ x.version = m.version)
         /\ queue \subseteq PutBack(queue, m)
         /\ GiveUp(m) =>
              /\ lost \subseteq lost'
              /\ \/ m.id \in lost'
                 \/ \E x \in PutBack(queue, m) : x.id = m.id /\ x.version = m.version
  <1> DEFINE again == [m EXCEPT !.dequeueCount = @ + 1]
  <1>1. again.id = m.id /\ again.version = m.version
    BY DEF Message
  <1> HIDE DEF again
  <1>2. PutBack(queue, m) = IF m.dequeueCount + 1 < MaxDequeue
                            THEN queue \cup {again} ELSE queue
    BY DEF PutBack, again
  <1>3. \A x \in PutBack(queue, m) :
          x \in queue \/ (x.id = m.id /\ x.version = m.version)
    BY <1>1, <1>2
  <1>4. queue \subseteq PutBack(queue, m)
    BY <1>2
  <1>5. ASSUME GiveUp(m), m.dequeueCount + 1 < MaxDequeue
        PROVE  lost' = lost /\ again \in PutBack(queue, m)
    BY <1>2, <1>5 DEF GiveUp
  <1>6. ASSUME GiveUp(m), ~ (m.dequeueCount + 1 < MaxDequeue)
        PROVE  lost' = lost \cup {m.id}
    BY <1>6 DEF GiveUp
  <1>7. QED
    BY <1>1, <1>3, <1>4, <1>5, <1>6

\* The table after the rows of a version got a verdict.
Updated(table, w) ==
  {IF row.id = w.row.id /\ row.version = w.row.version
   THEN [row EXCEPT !.status = w.verdict] ELSE row : row \in table}

\* An update concerns the rows of one version, which it keeps.
LEMMA UpdateKeeps ==
  ASSUME NEW table, table \subseteq Row, NEW w
  PROVE  /\ \A x \in Updated(table, w) : \E row \in table :
              /\ x.id = row.id /\ x.version = row.version
              /\ \/ x = row
                 \/ row.id = w.row.id /\ row.version = w.row.version
         /\ \A row \in table : \E x \in Updated(table, w) :
              x.id = row.id /\ x.version = row.version
  <1> DEFINE ruled(row) == row.id = w.row.id /\ row.version = w.row.version
             new(row) == IF ruled(row) THEN [row EXCEPT !.status = w.verdict] ELSE row
  <1>1. ASSUME NEW row \in table
        PROVE  /\ new(row).id = row.id /\ new(row).version = row.version
               /\ new(row) = row \/ ruled(row)
    BY DEF Row
  <1>2. Updated(table, w) = {new(row) : row \in table}
    BY DEF Updated
  <1> HIDE DEF new
  <1>3. QED
    BY <1>1, <1>2

LEMMA DatedStep == Shape /\ Dated /\ [Next]_vars => Dated'
  <1> SUFFICES ASSUME Shape, Dated, [Next]_vars PROVE Dated'
    OBVIOUS
  <1>1. /\ etag \in Nat /\ etag' \in Nat /\ etag <= etag'
        /\ \A s \in ServiceId : lifecycle'[s] # NoItem => lifecycle'[s].version <= etag'
    BY VersionsStep
  <1>2. \A n \in Nat : n <= etag => n <= etag'
    BY <1>1
  <1> DEFINE Known(n) == n <= etag'
             Queues == \A m \in requestValidation' \cup requestReview' : Known(m.version)
             Validators == \A v \in Validator :
                             validating'[v] # Idle => Known(validating'[v].version)
             Reviewers == \A r \in Reviewer :
                            reviewing'[r] # Idle => Known(reviewing'[r].message.version)
             Rows == \A row \in rows' \cup checker'.rows : Known(row.version)
             Works == \A w \in checker'.work : Known(w.row.version)
  <1>3. /\ \A m \in requestValidation \cup requestReview :
             m \in Message /\ Known(m.version)
        /\ \A v \in Validator :
             validating[v] # Idle => validating[v] \in Message /\ Known(validating[v].version)
        /\ \A r \in Reviewer :
             reviewing[r] # Idle =>
               /\ reviewing[r] \in Task /\ reviewing[r].message \in Message
               /\ Known(reviewing[r].message.version)
        /\ \A row \in rows \cup checker.rows : row \in Row /\ Known(row.version)
        /\ \A w \in checker.work : w \in Work /\ w.row \in Row /\ Known(w.row.version)
    <2>1. \A m \in requestValidation \cup requestReview :
            m \in Message /\ Known(m.version)
      BY <1>2 DEF Shape, TypeOK, Dated, Message
    <2>2. \A v \in Validator :
            validating[v] # Idle => validating[v] \in Message /\ Known(validating[v].version)
      BY <1>2 DEF Shape, TypeOK, Dated, Message
    <2>3. \A r \in Reviewer :
            reviewing[r] # Idle =>
              /\ reviewing[r] \in Task /\ reviewing[r].message \in Message
              /\ Known(reviewing[r].message.version)
      BY <1>2 DEF Shape, TypeOK, Dated, Message, Task
    <2>4. \A row \in rows \cup checker.rows : row \in Row /\ Known(row.version)
      BY <1>2 DEF Shape, TypeOK, Dated, Row
    <2>5. \A w \in checker.work : w \in Work /\ w.row \in Row /\ Known(w.row.version)
      BY <1>2 DEF Shape, TypeOK, Dated, Row, Work
    <2>6. QED
      BY <2>1, <2>2, <2>3, <2>4, <2>5
  <1>4. Queues /\ Validators /\ Reviewers /\ Rows /\ Works => Dated'
    BY <1>1 DEF Dated
  <1> HIDE DEF Known
  <1>5. ASSUME UNCHANGED <<workVars, rows, checker>>
        PROVE  Dated'
    BY <1>3, <1>4, <1>5 DEF workVars
  <1>6. ASSUME NEW s \in ServiceId, NEW fault \in BOOLEAN, Watch(s, fault)
        PROVE  Dated'
    <2>1. Known(lifecycle[s].version)
      <3>1. lifecycle[s] # NoItem /\ lifecycle' = lifecycle
        BY <1>6 DEF Watch, lifecycleVars, Shape
      <3>2. QED
        BY <1>1, <3>1 DEF Known
    <2>2. Queues
      BY <1>3, <1>6, <2>1 DEF Watch
    <2>3. QED
      BY <1>3, <1>4, <1>6, <2>2 DEF Watch, trackVars
  <1>7. ASSUME NEW v \in Validator, Validation(v)
        PROVE  Dated'
    <2>1. Queues /\ Validators
      <3>1. ASSUME NEW m \in requestValidation, NEW fault \in BOOLEAN,
                   PassOn(v, m, fault)
            PROVE  Queues /\ Validators
        <4>1. m \in Message /\ [m EXCEPT !.dequeueCount = 0].version = m.version
          BY <1>3 DEF Message
        <4>2. \A x \in requestValidation' : Known(x.version)
          BY <1>3, <3>1, <4>1, PutBackKeeps DEF PassOn
        <4>3. \A x \in requestReview' : Known(x.version)
          BY <1>3, <3>1, <4>1 DEF PassOn
        <4>4. validating' = validating
          BY <3>1 DEF PassOn
        <4>5. QED
          BY <1>3, <4>2, <4>3, <4>4
      <3>2. ASSUME NEW m \in requestValidation, NEW verdict, Validate(v, m, verdict)
            PROVE  Queues /\ Validators
        BY <1>3, <3>2 DEF Validate, Shape, TypeOK
      <3>3. ASSUME NEW m \in requestValidation, ValidateTooLate(v, m)
            PROVE  Queues /\ Validators
        BY <1>3, <3>3, PutBackKeeps DEF ValidateTooLate
      <3>4. ASSUME NEW saved \in BOOLEAN, NEW fault \in BOOLEAN,
                   EndValidation(v, saved, fault)
            PROVE  Queues /\ Validators
        <4>1. validating[v] \in Message /\ Known(validating[v].version)
          BY <1>3, <3>4 DEF EndValidation
        <4>2. Queues
          BY <1>3, <3>4, <4>1, PutBackKeeps DEF EndValidation
        <4>3. Validators
          BY <1>3, <3>4 DEF EndValidation, Shape, TypeOK
        <4>4. QED
          BY <4>2, <4>3
      <3>5. QED
        BY <1>7, <3>1, <3>2, <3>3, <3>4 DEF Validation
    <2>2. UNCHANGED <<tickets, rows, checker, reviewing>>
      BY <1>7 DEF Validation, PassOn, Validate, ValidateTooLate, EndValidation,
                  trackVars
    <2>3. QED
      BY <1>3, <1>4, <2>1, <2>2
  <1>8. ASSUME NEW r \in Reviewer, Review(r)
        PROVE  Dated'
    <2>1. UNCHANGED <<checker, requestValidation, validating>>
      BY <1>8 DEF Review, SearchTicket, AutoApprove, AutoApproveTooLate,
                  CreateTicket, UpdateTicket, ReopenTicket, InsertRow,
                  EndAutoApprove, FailReview
    <2>2. ASSUME NEW m \in Message, Known(m.version), NEW step, NEW ticket,
                 Go(r, m, step, ticket)
          PROVE  Reviewers
      <3>1. reviewing'[r].message = m
        BY <2>2 DEF Go, Shape, TypeOK
      <3>2. \A q \in Reviewer : q # r => reviewing'[q] = reviewing[q]
        BY <2>2 DEF Go, Shape, TypeOK
      <3>3. QED
        BY <1>3, <2>2, <3>1, <3>2
    <2>3. ASSUME reviewing' = [reviewing EXCEPT ![r] = Idle]
          PROVE  Reviewers
      BY <1>3, <2>3 DEF Shape, TypeOK
    <2>4. ASSUME NEW m \in requestReview,
                 SearchTicket(r, m) \/ AutoApprove(r, m)
          PROVE  Dated'
      <3>1. m \in Message /\ Known(m.version)
        BY <1>3
      <3>2. \E step, ticket : Go(r, m, step, ticket)
        BY <2>4 DEF SearchTicket, AutoApprove
      <3>3. Reviewers
        BY <2>2, <3>1, <3>2
      <3>4. requestReview' \subseteq requestReview /\ rows' = rows
        BY <2>4 DEF SearchTicket, AutoApprove, trackVars
      <3>5. QED
        BY <1>3, <1>4, <2>1, <3>3, <3>4
    <2>5. ASSUME NEW m \in requestReview, AutoApproveTooLate(r, m)
          PROVE  Dated'
      <3>1. m \in Message /\ Known(m.version)
        BY <1>3
      <3>2. Queues
        BY <1>3, <2>1, <2>5, <3>1, PutBackKeeps DEF AutoApproveTooLate
      <3>3. rows' = rows /\ reviewing' = reviewing
        BY <2>5 DEF AutoApproveTooLate, trackVars
      <3>4. QED
        BY <1>3, <1>4, <2>1, <3>2, <3>3
    <2>6. ASSUME CreateTicket(r) \/ UpdateTicket(r) \/ ReopenTicket(r)
          PROVE  Dated'
      <3>1. reviewing[r] # Idle
        BY <2>6 DEF CreateTicket, UpdateTicket, ReopenTicket, At
      <3>2. \E step, ticket : Go(r, reviewing[r].message, step, ticket)
        BY <2>6 DEF CreateTicket, UpdateTicket, ReopenTicket
      <3>3. Reviewers
        BY <1>3, <2>2, <3>1, <3>2
      <3>4. requestReview' = requestReview /\ rows' = rows
        BY <2>6 DEF CreateTicket, UpdateTicket, ReopenTicket
      <3>5. QED
        BY <1>3, <1>4, <2>1, <3>3, <3>4
    <2>7. ASSUME NEW fault \in BOOLEAN, InsertRow(r, fault)
          PROVE  Dated'
      <3> DEFINE m == reviewing[r].message
      <3>1. m \in Message /\ Known(m.version)
        BY <1>3, <2>7 DEF InsertRow, At
      <3>2. Queues
        BY <1>3, <2>1, <2>7, <3>1, PutBackKeeps DEF InsertRow
      <3>3. \A row \in rows' : Known(row.version)
        BY <1>3, <2>7, <3>1 DEF InsertRow
      <3>4. Reviewers
        BY <2>3, <2>7 DEF InsertRow
      <3>5. QED
        BY <1>3, <1>4, <2>1, <3>2, <3>3, <3>4
    <2>8. ASSUME EndAutoApprove(r)
          PROVE  Dated'
      <3>1. Reviewers
        BY <2>3, <2>8 DEF EndAutoApprove
      <3>2. requestReview' = requestReview /\ rows' = rows
        BY <2>8 DEF EndAutoApprove, trackVars
      <3>3. QED
        BY <1>3, <1>4, <2>1, <3>1, <3>2
    <2>9. ASSUME FailReview(r)
          PROVE  Dated'
      <3>1. reviewing[r].message \in Message /\ Known(reviewing[r].message.version)
        BY <1>3, <2>9 DEF FailReview
      <3>2. Queues
        BY <1>3, <2>1, <2>9, <3>1, PutBackKeeps DEF FailReview
      <3>3. Reviewers
        BY <2>3, <2>9 DEF FailReview
      <3>4. rows' = rows
        BY <2>9 DEF FailReview, trackVars
      <3>5. QED
        BY <1>3, <1>4, <2>1, <3>2, <3>3, <3>4
    <2>10. QED
      BY <1>8, <2>4, <2>5, <2>6, <2>7, <2>8, <2>9 DEF Review
  <1>9. ASSUME Checker
        PROVE  Dated'
    <2>1. UNCHANGED workVars
      BY <1>9 DEF Checker, ReadPending, SearchDecided, FailSearch, ApplyVerdict,
                  SaveVerdict, UpdateStatus
    <2>2. CASE ReadPending \/ FailSearch
      <3>1. rows' = rows /\ checker'.rows \subseteq rows /\ checker'.work = {}
        BY <2>2 DEF ReadPending, FailSearch, NoRun, trackVars
      <3>2. QED
        BY <1>3, <1>4, <2>1, <3>1 DEF workVars
    <2>3. CASE SearchDecided
      <3>1. PICK item \in [{t \in {row.ticket : row \in checker.rows} :
                               tickets[t].status \in {"APPROVED", "REJECTED"}}
                             -> checker.rows] :
              checker' = [rows |-> {},
                          work |-> {[ticket |-> t, row |-> item[t], step |-> "apply",
                                     verdict |-> tickets[t].status] :
                              t \in {t \in {row.ticket : row \in checker.rows} :
                                tickets[t].status \in {"APPROVED", "REJECTED"}}}]
        BY <2>3 DEF SearchDecided
      <3>2. \A w \in checker'.work : w.row \in checker.rows
        BY <3>1
      <3>3. rows' = rows /\ checker'.rows = {}
        BY <2>3, <3>1 DEF SearchDecided, trackVars
      <3>4. QED
        BY <1>3, <1>4, <2>1, <3>2, <3>3 DEF workVars
    <2>4. ASSUME NEW w \in checker.work,
                 ApplyVerdict(w) \/ SaveVerdict(w) \/ UpdateStatus(w)
          PROVE  Dated'
      <3>1. \A step : [w EXCEPT !.step = step].row = w.row
        BY <1>3 DEF Work
      <3>2. checker'.rows = checker.rows
            /\ \A x \in checker'.work : \E y \in checker.work : x.row = y.row
        <4>1. Drop(w) \/ \E step : Advance(w, step)
          BY <2>4 DEF ApplyVerdict, SaveVerdict, UpdateStatus
        <4>2. \A S : /\ [checker EXCEPT !.work = S].rows = checker.rows
                     /\ [checker EXCEPT !.work = S].work = S
          BY DEF Shape, TypeOK
        <4>3. CASE Drop(w)
          BY <4>2, <4>3 DEF Drop
        <4>4. ASSUME NEW step, Advance(w, step)
              PROVE  /\ checker'.rows = checker.rows
                     /\ \A x \in checker'.work : \E y \in checker.work : x.row = y.row
          <5>1. /\ checker'.rows = checker.rows
                /\ checker'.work = (checker.work \ {w}) \cup {[w EXCEPT !.step = step]}
            BY <4>2, <4>4 DEF Advance
          <5>2. QED
            BY <3>1, <5>1
        <4>5. QED
          BY <4>1, <4>3, <4>4
      <3>3. \A row \in rows' : Known(row.version)
        <4>1. CASE rows' = rows
          BY <1>3, <4>1
        <4>2. CASE rows' = Updated(rows, w)
          BY <1>3, <4>2, UpdateKeeps DEF Shape, TypeOK
        <4>3. QED
          BY <2>4, <4>1, <4>2 DEF ApplyVerdict, SaveVerdict, UpdateStatus, trackVars,
                                  Updated
      <3>4. QED
        BY <1>3, <1>4, <2>1, <3>2, <3>3 DEF workVars
    <2>5. QED
      BY <1>9, <2>2, <2>3, <2>4 DEF Checker
  <1>10. ASSUME NEW t \in DOMAIN tickets, Operator(t)
         PROVE  Dated'
    BY <1>5, <1>10 DEF Operator, Decide
  <1>11. CASE StartRequest \/ EndRequest \/ UNCHANGED vars
    BY <1>5, <1>11 DEF StartRequest, EndRequest, trackVars, vars
  <1>12. QED
    BY <1>6, <1>7, <1>8, <1>9, <1>10, <1>11 DEF Next

\* A client is of one kind, so that what it does leaves the calls of the others.
LEMMA OtherCalls ==
  ASSUME NEW c \in Client, \A d \in Client \ {c} : calls'[d] = calls[d]
  PROVE  /\ c \notin Validator => \A v \in Validator : calls'[v] = calls[v]
         /\ c \notin Reviewer => \A r \in Reviewer : calls'[r] = calls[r]
         /\ c \notin Ticket => \A t \in Ticket : calls'[t] = calls[t]
  BY DEF Client

LEMMA ValidationVerdicts ==
  ASSUME Shape, Verdicts, NEW v \in Validator, Validation(v)
  PROVE  Verdicts'
  <1>1. v \in Client /\ v \notin Reviewer /\ v \notin Ticket
    BY ClientAssumption DEF Client
  <1>2. UNCHANGED <<reviewing, checker>>
    BY DEF Validation, PassOn, Validate, ValidateTooLate, EndValidation
  <1>3. CASE UNCHANGED <<calls, validating>>
    BY <1>2, <1>3 DEF Verdicts, ValidatorCalls, ReviewerCalls, CheckerCalls, At
  <1>4. ASSUME \A d \in Client \ {v} : calls'[d] = calls[d],
               validating'[v] # Idle => calls'[v].id = validating'[v].id,
               \A u \in Validator \ {v} : validating'[u] = validating[u]
        PROVE  Verdicts'
    <2>1. /\ \A r \in Reviewer : calls'[r] = calls[r]
          /\ \A t \in Ticket : calls'[t] = calls[t]
      BY <1>1, <1>4, OtherCalls
    <2>2. ValidatorCalls'
      BY <1>4 DEF Verdicts, ValidatorCalls, Client
    <2>3. ReviewerCalls'
      BY <1>2, <2>1 DEF Verdicts, ReviewerCalls, At
    <2>4. CheckerCalls'
      BY <1>2, <2>1 DEF Verdicts, CheckerCalls, Shape, TypeOK, Work
    <2>5. QED
      BY <2>2, <2>3, <2>4 DEF Verdicts
  <1>5. ASSUME NEW m \in requestValidation, NEW verdict, Validate(v, m, verdict)
        PROVE  Verdicts'
    <2>1. m.id \in ServiceId
      BY DEF Shape, TypeOK, Message
    <2>2. /\ calls'[v].id = m.id
          /\ \A d \in Client \ {v} : calls'[d] = calls[d]
      BY <1>1, <1>5, <2>1, VerdictStarts DEF Validate, Shape
    <2>3. /\ validating'[v] = m
          /\ \A u \in Validator \ {v} : validating'[u] = validating[u]
      BY <1>5 DEF Validate, Shape, TypeOK
    <2>4. QED
      BY <1>4, <2>2, <2>3
  <1>6. ASSUME NEW saved \in BOOLEAN, NEW fault \in BOOLEAN,
               EndValidation(v, saved, fault)
        PROVE  Verdicts'
    <2>1. \A d \in Client \ {v} : calls'[d] = calls[d]
      BY <1>1, <1>6, SaveFrame DEF EndValidation, Shape
    <2>2. /\ validating'[v] = Idle
          /\ \A u \in Validator \ {v} : validating'[u] = validating[u]
      BY <1>6 DEF EndValidation, Shape, TypeOK
    <2>3. QED
      BY <1>4, <2>1, <2>2
  <1>7. QED
    BY <1>3, <1>5, <1>6 DEF Validation, PassOn, ValidateTooLate, lifecycleVars

LEMMA ReviewVerdicts ==
  ASSUME Shape, Verdicts, NEW r \in Reviewer, Review(r)
  PROVE  Verdicts'
  <1>1. r \in Client /\ r \notin Validator /\ r \notin Ticket
    BY ClientAssumption DEF Client
  <1>2. UNCHANGED <<validating, checker>>
    BY DEF Review, SearchTicket, AutoApprove, AutoApproveTooLate, CreateTicket,
           UpdateTicket, ReopenTicket, InsertRow, EndAutoApprove, FailReview
  <1>3. ASSUME \A d \in Client \ {r} : calls'[d] = calls[d],
               At(r, "approve")' => calls'[r].id = reviewing'[r].message.id,
               \A q \in Reviewer \ {r} : reviewing'[q] = reviewing[q]
        PROVE  Verdicts'
    <2>1. /\ \A v \in Validator : calls'[v] = calls[v]
          /\ \A t \in Ticket : calls'[t] = calls[t]
      BY <1>1, <1>3, OtherCalls
    <2>2. ValidatorCalls'
      BY <1>2, <2>1 DEF Verdicts, ValidatorCalls
    <2>3. ReviewerCalls'
      BY <1>3 DEF Verdicts, ReviewerCalls, At, Client
    <2>4. CheckerCalls'
      BY <1>2, <2>1 DEF Verdicts, CheckerCalls, Shape, TypeOK, Work
    <2>5. QED
      BY <2>2, <2>3, <2>4 DEF Verdicts
  <1>4. ASSUME NEW m, NEW step, NEW ticket, Go(r, m, step, ticket)
        PROVE  /\ reviewing'[r].message = m /\ reviewing'[r].step = step
               /\ \A q \in Reviewer \ {r} : reviewing'[q] = reviewing[q]
    BY <1>4 DEF Go, Shape, TypeOK
  <1>5. ASSUME reviewing' = [reviewing EXCEPT ![r] = Idle]
        PROVE  /\ reviewing'[r] = Idle
               /\ \A q \in Reviewer \ {r} : reviewing'[q] = reviewing[q]
    BY <1>5 DEF Shape, TypeOK
  <1>6. CASE UNCHANGED <<calls, reviewing>>
    BY <1>2, <1>6 DEF Verdicts, ValidatorCalls, ReviewerCalls, CheckerCalls, At
  <1>7. ASSUME NEW m \in requestReview, SearchTicket(r, m)
        PROVE  Verdicts'
    <2>1. \E step \in {"create", "update", "insert"} : \E ticket : Go(r, m, step, ticket)
      BY <1>7 DEF SearchTicket
    <2>2. calls' = calls
      BY <1>7 DEF SearchTicket, lifecycleVars
    <2>3. QED
      BY <1>3, <1>4, <2>1, <2>2 DEF At
  <1>8. ASSUME NEW m \in requestReview, AutoApprove(r, m)
        PROVE  Verdicts'
    <2>1. m.id \in ServiceId
      BY DEF Shape, TypeOK, Message
    <2>2. /\ calls'[r].id = m.id
          /\ \A d \in Client \ {r} : calls'[d] = calls[d]
      BY <1>1, <1>8, <2>1, VerdictStarts DEF AutoApprove, Shape
    <2>3. QED
      BY <1>3, <1>4, <1>8, <2>2 DEF AutoApprove
  <1>9. ASSUME CreateTicket(r) \/ UpdateTicket(r) \/ ReopenTicket(r)
        PROVE  Verdicts'
    <2>1. \E m, ticket : \E step \in {"insert", "reopen"} : Go(r, m, step, ticket)
      BY <1>9 DEF CreateTicket, UpdateTicket, ReopenTicket
    <2>2. calls' = calls
      BY <1>9 DEF CreateTicket, UpdateTicket, ReopenTicket, lifecycleVars
    <2>3. QED
      BY <1>3, <1>4, <2>1, <2>2 DEF At
  <1>10. ASSUME NEW fault \in BOOLEAN, InsertRow(r, fault)
         PROVE  Verdicts'
    BY <1>3, <1>5, <1>10 DEF InsertRow, lifecycleVars, At
  <1>11. ASSUME EndAutoApprove(r) \/ FailReview(r)
         PROVE  Verdicts'
    <2>1. \A d \in Client \ {r} : calls'[d] = calls[d]
      BY <1>1, <1>11, SaveFrame DEF EndAutoApprove, FailReview, lifecycleVars, Shape
    <2>2. QED
      BY <1>3, <1>5, <1>11, <2>1 DEF EndAutoApprove, FailReview, At
  <1>12. QED
    BY <1>6, <1>7, <1>8, <1>9, <1>10, <1>11 DEF Review, AutoApproveTooLate,
       lifecycleVars

\* What is left to the checker after a step on one of its works.
LEMMA WorkAdvances ==
  ASSUME Shape, NEW w \in checker.work
  PROVE  /\ Drop(w) => checker'.work = checker.work \ {w}
         /\ \A step : Advance(w, step) =>
              \E x : /\ checker'.work = (checker.work \ {w}) \cup {x}
                    /\ x.step = step
                    /\ x.ticket = w.ticket /\ x.row = w.row
  <1>1. w \in Work
    BY DEF Shape, TypeOK
  <1>2. \A S : [checker EXCEPT !.work = S].work = S
    BY DEF Shape, TypeOK
  <1>3. ASSUME NEW step
        PROVE  /\ [w EXCEPT !.step = step].step = step
               /\ [w EXCEPT !.step = step].ticket = w.ticket
               /\ [w EXCEPT !.step = step].row = w.row
    BY <1>1 DEF Work
  <1>4. ASSUME NEW step, Advance(w, step)
        PROVE  checker'.work = (checker.work \ {w}) \cup {[w EXCEPT !.step = step]}
    BY <1>2, <1>4 DEF Advance
  <1>5. Drop(w) => checker'.work = checker.work \ {w}
    BY <1>2 DEF Drop
  <1>6. ASSUME NEW step, Advance(w, step)
        PROVE  \E x : /\ checker'.work = (checker.work \ {w}) \cup {x}
                      /\ x.step = step
                      /\ x.ticket = w.ticket /\ x.row = w.row
    <2>1. WITNESS [w EXCEPT !.step = step]
    <2>2. QED
      BY <1>3, <1>4, <1>6
  <1>7. QED
    BY <1>5, <1>6

\* The works the checker makes out of the tickets that were decided.
LEMMA WorkStarts ==
  ASSUME Shape, SearchDecided
  PROVE  /\ \A w \in checker'.work : w.step = "apply" /\ w.row \in checker.rows
         /\ \A w, x \in checker'.work : w.ticket = x.ticket => w = x
  <1> DEFINE decided == {t \in {row.ticket : row \in checker.rows} :
                           tickets[t].status \in {"APPROVED", "REJECTED"}}
  <1>1. PICK item \in [decided -> checker.rows] :
          checker' = [rows |-> {},
                      work |-> {[ticket |-> t, row |-> item[t], step |-> "apply",
                                 verdict |-> tickets[t].status] : t \in decided}]
    BY DEF SearchDecided
  <1>2. checker'.work = {[ticket |-> t, row |-> item[t], step |-> "apply",
                          verdict |-> tickets[t].status] : t \in decided}
    BY <1>1
  <1> HIDE DEF decided
  <1>3. QED
    BY <1>1, <1>2

LEMMA CheckerVerdicts ==
  ASSUME Shape, Verdicts, Checker
  PROVE  Verdicts'
  <1>1. UNCHANGED <<validating, reviewing>>
    BY DEF Checker, ReadPending, SearchDecided, FailSearch, ApplyVerdict,
           SaveVerdict, UpdateStatus, workVars
  <1>2. ASSUME UNCHANGED calls
        PROVE  ValidatorCalls' /\ ReviewerCalls'
    BY <1>1, <1>2 DEF Verdicts, ValidatorCalls, ReviewerCalls, At
  <1>3. CASE ReadPending \/ FailSearch
    <2>1. checker'.work = {} /\ calls' = calls
      BY <1>3 DEF ReadPending, FailSearch, NoRun, lifecycleVars
    <2>2. QED
      BY <1>2, <2>1 DEF Verdicts, CheckerCalls
  <1>4. CASE SearchDecided
    <2>1. calls' = calls
      BY <1>4 DEF SearchDecided, lifecycleVars
    <2>2. CheckerCalls'
      BY <1>4, WorkStarts DEF CheckerCalls
    <2>3. QED
      BY <1>2, <2>1, <2>2 DEF Verdicts
  <1>5. ASSUME NEW w \in checker.work,
               ApplyVerdict(w) \/ SaveVerdict(w) \/ UpdateStatus(w)
        PROVE  Verdicts'
    <2>1. w \in Work /\ w.ticket \in Ticket /\ w.row.id \in ServiceId
      BY DEF Shape, TypeOK, Work, Row
    <2>2. w.ticket \in Client /\ w.ticket \notin Validator /\ w.ticket \notin Reviewer
      BY <2>1, ClientAssumption DEF Client
    <2>3. \A d \in Client \ {w.ticket} : calls'[d] = calls[d]
      BY <1>5, <2>1, <2>2, VerdictStarts, SaveFrame
      DEF ApplyVerdict, SaveVerdict, UpdateStatus, lifecycleVars, Shape
    <2>4. ValidatorCalls' /\ ReviewerCalls'
      BY <1>1, <2>2, <2>3, OtherCalls
      DEF Verdicts, ValidatorCalls, ReviewerCalls, At
    <2>5. \A x \in checker.work \ {w} : /\ x.ticket # w.ticket
                                        /\ calls'[x.ticket] = calls[x.ticket]
      BY <2>3 DEF Verdicts, CheckerCalls, Shape, TypeOK, Work, Client
    <2>6. CASE Drop(w)
      <3>1. CheckerCalls'
        BY <2>5, <2>6, WorkAdvances DEF Verdicts, CheckerCalls
      <3>2. QED
        BY <2>4, <3>1 DEF Verdicts
    <2>7. ASSUME NEW step, Advance(w, step),
                 step = "save" => calls'[w.ticket].id = w.row.id
          PROVE  Verdicts'
      <3>1. PICK x : /\ checker'.work = (checker.work \ {w}) \cup {x}
                     /\ x.step = step
                     /\ x.ticket = w.ticket /\ x.row = w.row
        BY <2>7, WorkAdvances
      <3>2. \A y \in checker'.work : y.step = "save" => calls'[y.ticket].id = y.row.id
        BY <2>5, <2>7, <3>1 DEF Verdicts, CheckerCalls
      <3>3. \A y, z \in checker'.work : y.ticket = z.ticket => y = z
        BY <2>5, <3>1 DEF Verdicts, CheckerCalls
      <3>4. QED
        BY <2>4, <3>2, <3>3 DEF Verdicts, CheckerCalls
    <2>8. CASE ApplyVerdict(w)
      <3>1. CASE L!Approve(w.ticket, w.row.id) \/ L!Reject(w.ticket, w.row.id)
        BY <2>1, <2>2, <2>6, <2>7, <2>8, <3>1, VerdictStarts DEF ApplyVerdict, Shape
      <3>2. CASE Drop(w) \/ Advance(w, "update")
        BY <2>6, <2>7, <3>2
      <3>3. QED
        BY <2>8, <3>1, <3>2 DEF ApplyVerdict
    <2>9. QED
      BY <1>5, <2>6, <2>7, <2>8 DEF SaveVerdict, UpdateStatus
  <1>6. QED
    BY <1>3, <1>4, <1>5 DEF Checker

LEMMA VerdictsStep == Shape /\ Verdicts /\ [Next]_vars => Verdicts'
  <1> SUFFICES ASSUME Shape, Verdicts, [Next]_vars PROVE Verdicts'
    OBVIOUS
  <1>1. CASE UNCHANGED <<calls, validating, reviewing, checker>>
    BY <1>1 DEF Verdicts, ValidatorCalls, ReviewerCalls, CheckerCalls, At
  <1>2. CASE StartRequest \/ EndRequest
    <2>1. \E u \in User : \A d \in Client \ {u} : calls'[d] = calls[d]
      BY <1>2, RequestFrame, SaveFrame DEF StartRequest, EndRequest, Shape, Client
    <2>2. /\ \A v \in Validator : calls'[v] = calls[v]
          /\ \A r \in Reviewer : calls'[r] = calls[r]
          /\ \A t \in Ticket : calls'[t] = calls[t]
      BY <2>1, OtherCalls, ClientAssumption DEF Client
    <2>3. UNCHANGED <<validating, reviewing, checker>>
      BY <1>2 DEF StartRequest, EndRequest, workVars
    <2>4. QED
      BY <2>2, <2>3 DEF Verdicts, ValidatorCalls, ReviewerCalls, CheckerCalls, At,
                        Shape, TypeOK, Work
  <1>3. QED
    BY <1>1, <1>2, ValidationVerdicts, ReviewVerdicts, CheckerVerdicts
    DEF Next, Watch, Operator, Decide, lifecycleVars, workVars, vars

\* What was settled of an earlier version stays settled.
LEMMA SettledStays ==
  ASSUME Shape, Dated, Undecided, [Next]_vars
  PROVE  /\ \A row \in rows : Current(row.id, row.version)' => row.status = "PENDING"
         /\ \A w \in checker.work :
              Current(w.row.id, w.row.version)' => Current(w.row.id, w.row.version)
  <1>1. \A s \in ServiceId, n \in Nat : n <= etag /\ Current(s, n)' => Current(s, n)
    BY VersionsStep
  <1>2. \A row \in rows :
          row.id \in ServiceId /\ row.version \in Nat /\ row.version <= etag
    BY DEF Shape, TypeOK, Row, Dated
  <1>3. \A w \in checker.work :
          w.row.id \in ServiceId /\ w.row.version \in Nat /\ w.row.version <= etag
    BY DEF Shape, TypeOK, Work, Row, Dated
  <1>4. QED
    BY <1>1, <1>2, <1>3 DEF Undecided

\* The work on which a step of the checker was.
LEMMA CheckerUndecided ==
  ASSUME Shape, Dated, Verdicts, Undecided, [Next]_vars, NEW w \in checker.work,
         ApplyVerdict(w) \/ SaveVerdict(w) \/ UpdateStatus(w)
  PROVE  Undecided'
  <1>1. w \in Work /\ w.row.id \in ServiceId /\ w.row.version \in Nat
        /\ w.ticket \in Client /\ w.row.version <= etag /\ etag \in Nat
    BY VersionsStep DEF Shape, TypeOK, Work, Row, Client, Dated
  <1>2. \A x \in checker'.work : x.step = "update" =>
          ~ Current(x.row.id, x.row.version)'
    <2>1. \A x \in checker.work : x.step = "update" =>
            ~ Current(x.row.id, x.row.version)'
      BY SettledStays DEF Undecided
    <2>2. CASE Drop(w)
      BY <2>1, <2>2, WorkAdvances
    <2>3. ASSUME NEW step, Advance(w, step),
                 step = "update" => ~ Current(w.row.id, w.row.version)'
          PROVE  \A x \in checker'.work : x.step = "update" =>
                   ~ Current(x.row.id, x.row.version)'
      BY <2>1, <2>3, WorkAdvances
    <2>4. CASE ApplyVerdict(w)
      <3>1. Drop(w) \/ Advance(w, "save")
            \/ (Advance(w, "update") /\ L!Status[w.row.id] # "submitted")
        BY <2>4 DEF ApplyVerdict
      <3>2. L!Status[w.row.id] # "submitted" => ~ Current(w.row.id, w.row.version)'
        BY SettledStays DEF Current
      <3>3. QED
        BY <2>2, <2>3, <3>1, <3>2
    <2>5. CASE SaveVerdict(w)
      <3>1. Drop(w) \/ (L!Save(w.ticket) /\ Advance(w, "update"))
        BY <2>5 DEF SaveVerdict
      <3>2. ASSUME L!Save(w.ticket)
            PROVE  ~ Current(w.row.id, w.row.version)'
        <4>1. calls[w.ticket].id = w.row.id
          BY <2>5 DEF SaveVerdict, Verdicts, CheckerCalls
        <4>2. lifecycle'[w.row.id].version = etag + 1
          BY <1>1, <3>2, <4>1, SaveIsNew DEF Rewritten
        <4>3. QED
          BY <1>1, <4>2 DEF Current
      <3>3. QED
        BY <2>2, <2>3, <3>1, <3>2
    <2>6. QED
      BY <2>2, <2>4, <2>5 DEF UpdateStatus
  <1>3. \A row \in rows' : Current(row.id, row.version)' => row.status = "PENDING"
    <2>1. CASE rows' = rows
      BY <2>1, SettledStays
    <2>2. CASE rows' = Updated(rows, w) /\ w.step = "update"
      <3>1. ~ Current(w.row.id, w.row.version)'
        BY <2>2, SettledStays DEF Undecided
      <3>2. QED
        BY <2>2, <3>1, SettledStays, UpdateKeeps, ShapeParts DEF Table
    <2>3. QED
      BY <2>1, <2>2 DEF ApplyVerdict, SaveVerdict, UpdateStatus, trackVars, Updated
  <1>4. QED
    BY <1>2, <1>3 DEF Undecided

LEMMA UndecidedStep ==
  Shape /\ Dated /\ Verdicts /\ Undecided /\ [Next]_vars => Undecided'
  <1> SUFFICES ASSUME Shape, Dated, Verdicts, Undecided, [Next]_vars
               PROVE  Undecided'
    OBVIOUS
  <1>1. ASSUME \A row \in rows' : row \in rows \/ row.status = "PENDING",
               \A w \in checker'.work : w \in checker.work \/ w.step = "apply"
        PROVE  Undecided'
    <2>1. \A row \in rows' : Current(row.id, row.version)' => row.status = "PENDING"
      <3>1. \A row \in rows : Current(row.id, row.version)' => row.status = "PENDING"
        BY SettledStays
      <3>2. QED
        BY <1>1, <3>1
    <2>2. \A w \in checker'.work : w.step = "update" => w \in checker.work
      BY <1>1
    <2>3. \A w \in checker'.work : w.step = "update" =>
            ~ Current(w.row.id, w.row.version)'
      BY <2>2, SettledStays DEF Undecided
    <2>4. QED
      BY <2>1, <2>3 DEF Undecided
  <1>2. CASE UNCHANGED <<rows, checker>>
    BY <1>1, <1>2
  <1>3. ASSUME NEW r \in Reviewer, Review(r)
        PROVE  Undecided'
    <2>1. \A row \in rows' : row \in rows \/ row.status = "PENDING"
      <3>1. ASSUME NEW fault, InsertRow(r, fault)
            PROVE  \A row \in rows' : row \in rows \/ row.status = "PENDING"
        BY <3>1 DEF InsertRow
      <3>2. (\E fault : InsertRow(r, fault)) \/ rows' = rows
        BY <1>3 DEF Review, SearchTicket, AutoApprove, AutoApproveTooLate,
           CreateTicket, UpdateTicket, ReopenTicket, EndAutoApprove, FailReview,
           trackVars
      <3>3. QED
        BY <3>1, <3>2
    <2>2. checker' = checker
      BY <1>3 DEF Review, SearchTicket, AutoApprove, AutoApproveTooLate,
         CreateTicket, UpdateTicket, ReopenTicket, InsertRow, EndAutoApprove,
         FailReview
    <2>3. QED
      BY <1>1, <2>1, <2>2
  <1>4. CASE ReadPending \/ FailSearch
    <2>1. rows' = rows /\ checker'.work = {}
      BY <1>4 DEF ReadPending, FailSearch, NoRun, trackVars
    <2>2. QED
      BY <1>1, <2>1
  <1>5. CASE SearchDecided
    <2>1. rows' = rows
      BY <1>5 DEF SearchDecided, trackVars
    <2>2. QED
      BY <1>1, <1>5, <2>1, WorkStarts
  <1>6. QED
    BY <1>2, <1>3, <1>4, <1>5, CheckerUndecided
    DEF Next, StartRequest, EndRequest, Watch, Validation, PassOn, Validate,
        ValidateTooLate, EndValidation, Operator, Decide, Checker, trackVars, vars

\* A service is marked as changed whenever it is, and until the watcher sees it.
LEMMA ChangesAreFed ==
  ASSUME Shape, [Next]_vars, NEW s \in ServiceId
  PROVE  /\ lifecycle'[s] # lifecycle[s] => s \in changed'
         /\ s \in changed => s \in changed' \/ \E fault \in BOOLEAN : Watch(s, fault)
  <1>1. Feed \/ UNCHANGED lifecycle
    BY StepFeeds
  <1>2. \/ changed \subseteq changed'
        \/ \E z \in ServiceId, fault \in BOOLEAN : Watch(z, fault)
    BY DEF Next, vars, StartRequest, EndRequest, Feed, Validation, PassOn,
       Validate, ValidateTooLate, EndValidation, Review, SearchTicket,
       AutoApprove, AutoApproveTooLate, CreateTicket, UpdateTicket,
       ReopenTicket, InsertRow, EndAutoApprove, FailReview, Operator, Decide,
       Checker, ReadPending, SearchDecided, FailSearch, ApplyVerdict,
       SaveVerdict, UpdateStatus
  <1>3. \A z \in ServiceId, fault \in BOOLEAN : Watch(z, fault) =>
          z = s \/ (s \in changed => s \in changed')
    BY DEF Watch
  <1>4. QED
    BY <1>1, <1>2, <1>3 DEF Feed

\* No row leaves the table.
LEMMA TableKeeps ==
  ASSUME Shape, [Next]_vars, NEW s, NEW n, InTable(s, n)
  PROVE  InTable(s, n)'
  <1>1. ASSUME rows \subseteq rows'
        PROVE  InTable(s, n)'
    BY <1>1 DEF InTable
  <1>2. ASSUME NEW w \in checker.work, UpdateStatus(w)
        PROVE  InTable(s, n)'
    <2>1. rows' = rows \/ rows' = Updated(rows, w)
      BY <1>2 DEF UpdateStatus, Updated
    <2>2. PICK row \in rows : row.id = s /\ row.version = n
      BY DEF InTable
    <2>3. rows' = Updated(rows, w) =>
            \E x \in rows' : x.id = row.id /\ x.version = row.version
      BY UpdateKeeps, ShapeParts DEF Table
    <2>4. QED
      BY <1>1, <2>1, <2>2, <2>3 DEF InTable
  <1>3. (\E w \in checker.work : UpdateStatus(w)) \/ rows \subseteq rows'
    BY ZenonT(40) DEF Next, vars, StartRequest, EndRequest, Watch, Validation, PassOn,
       Validate, ValidateTooLate, EndValidation, Review, SearchTicket,
       AutoApprove, AutoApproveTooLate, CreateTicket, UpdateTicket,
       ReopenTicket, InsertRow, EndAutoApprove, FailReview, Operator, Decide,
       Checker, ReadPending, SearchDecided, FailSearch, ApplyVerdict,
       SaveVerdict, trackVars
  <1>4. QED
    BY <1>1, <1>2, <1>3

\* Nor is a service that was given up forgotten.
LEMMA LostGrows == [Next]_vars => lost \subseteq lost'
  <1>1. \A m : GiveUp(m) => lost \subseteq lost'
    BY DEF GiveUp
  <1>2. [Next]_vars => UNCHANGED lost \/ \E m : GiveUp(m)
    BY ZenonT(40) DEF Next, vars, StartRequest, EndRequest, Watch, Validation, PassOn,
       Validate, ValidateTooLate, EndValidation, Review, SearchTicket,
       AutoApprove, AutoApproveTooLate, CreateTicket, UpdateTicket,
       ReopenTicket, InsertRow, EndAutoApprove, FailReview, Operator, Decide,
       Checker, ReadPending, SearchDecided, FailSearch, ApplyVerdict,
       SaveVerdict, UpdateStatus, workVars
  <1>3. QED
    BY <1>1, <1>2

\* A validator keeps the message it takes, or hands it over.
LEMMA ValidationKeeps ==
  ASSUME Shape, Dated, Verdicts, NEW v \in Validator, Validation(v),
         NEW s \in ServiceId, NEW n \in Nat,
         Current(s, n), lifecycle'[s] = lifecycle[s],
         Queued(s, n) \/ Validated(s, n) \/ Reviewed(s, n)
  PROVE  InHand(s, n)'
  <1>1. reviewing' = reviewing
    BY DEF Validation, PassOn, Validate, ValidateTooLate, EndValidation
  <1>2. CASE Reviewed(s, n)
    BY <1>1, <1>2 DEF Reviewed, InHand
  <1>3. requestValidation \subseteq Message /\ validating \in [Validator -> Message \cup {Idle}]
    BY DEF Shape, TypeOK
  <1>4. ASSUME NEW m \in requestValidation, NEW fault \in BOOLEAN,
               PassOn(v, m, fault)
        PROVE  InHand(s, n)'
    <2>1. [m EXCEPT !.dequeueCount = 0].id = m.id
          /\ [m EXCEPT !.dequeueCount = 0].version = m.version
      BY <1>3 DEF Message
    <2>2. /\ requestReview' = requestReview \cup {[m EXCEPT !.dequeueCount = 0]}
          /\ requestValidation \ {m} \subseteq requestValidation'
          /\ validating' = validating
      BY <1>3, <1>4, PutBackKeeps DEF PassOn
    <2>3. CASE Validated(s, n)
      BY <2>2, <2>3 DEF Validated, InHand
    <2>4. CASE Queued(s, n)
      BY <2>1, <2>2, <2>4 DEF Queued, InHand
    <2>5. QED
      BY <1>2, <2>3, <2>4
  <1>5. ASSUME NEW m \in requestValidation, NEW verdict, Validate(v, m, verdict)
        PROVE  InHand(s, n)'
    <2>1. /\ requestReview' = requestReview
          /\ requestValidation' = requestValidation \ {m}
          /\ validating[v] = Idle
          /\ validating'[v] = m
          /\ \A u \in Validator \ {v} : validating'[u] = validating[u]
      BY <1>3, <1>5 DEF Validate
    <2>2. m # Idle
      BY <1>3, MarkerAssumption
    <2>3. CASE Validated(s, n)
      BY <2>1, <2>3 DEF Validated, InHand
    <2>4. CASE Queued(s, n)
      BY <2>1, <2>2, <2>4 DEF Queued, Validated, InHand
    <2>5. QED
      BY <1>2, <2>3, <2>4
  <1>6. ASSUME NEW m \in requestValidation, ValidateTooLate(v, m)
        PROVE  InHand(s, n)'
    <2>1. /\ requestReview' = requestReview
          /\ requestValidation \ {m} \subseteq requestValidation'
          /\ validating' = validating
      BY <1>3, <1>6, PutBackKeeps DEF ValidateTooLate
    <2>2. m.id # s
      BY <1>6 DEF ValidateTooLate, Current
    <2>3. CASE Validated(s, n)
      BY <2>1, <2>3 DEF Validated, InHand
    <2>4. CASE Queued(s, n)
      BY <2>1, <2>2, <2>4 DEF Queued, InHand
    <2>5. QED
      BY <1>2, <2>3, <2>4
  <1>7. ASSUME NEW saved \in BOOLEAN, NEW fault \in BOOLEAN,
               EndValidation(v, saved, fault)
        PROVE  InHand(s, n)'
    <2>1. validating[v] # Idle /\ validating[v] \in Message
      BY <1>3, <1>7 DEF EndValidation
    <2>2. /\ requestReview' = requestReview
          /\ requestValidation \subseteq requestValidation'
          /\ \A u \in Validator \ {v} : validating'[u] = validating[u]
      BY <1>3, <1>7, <2>1, PutBackKeeps DEF EndValidation
    <2>3. CASE Queued(s, n)
      BY <2>2, <2>3 DEF Queued, InHand
    <2>4. ASSUME validating[v].id = s, validating[v].version = n
          PROVE  InHand(s, n)'
      <3>1. ~ saved
        <4>1. SUFFICES ASSUME saved PROVE FALSE
          OBVIOUS
        <4>2. L!Save(v) /\ calls[v].id = s
          BY <1>7, <2>1, <2>4, <4>1 DEF EndValidation, Verdicts, ValidatorCalls
        <4>3. lifecycle'[s].version = etag + 1 /\ etag \in Nat
          BY <4>2, SaveIsNew DEF Rewritten, Client, Shape, L!TypeOK
        <4>4. lifecycle[s].version <= etag
          BY DEF Dated, Current, L!Status
        <4>5. QED
          BY <4>3, <4>4
      <3>2. fault
        BY <1>7, <3>1 DEF EndValidation
      <3>3. s \in lost' \/ Queued(s, n)'
        BY <1>7, <2>1, <2>4, <3>2, PutBackKeeps DEF EndValidation, Queued
      <3>4. QED
        BY <3>3 DEF InHand
    <2>5. CASE Validated(s, n)
      BY <2>2, <2>4, <2>5 DEF Validated, InHand
    <2>6. QED
      BY <1>2, <2>3, <2>5
  <1>8. QED
    BY <1>4, <1>5, <1>6, <1>7 DEF Validation

\* A reviewer keeps the message it takes until there is a row for it.
LEMMA ReviewKeeps ==
  ASSUME Shape, Dated, Verdicts, NEW r \in Reviewer, Review(r),
         NEW s \in ServiceId, NEW n \in Nat,
         Current(s, n), lifecycle'[s] = lifecycle[s],
         Queued(s, n) \/ Validated(s, n) \/ Reviewed(s, n)
  PROVE  InHand(s, n)'
  <1>1. validating' = validating /\ requestValidation' = requestValidation
    BY DEF Review, SearchTicket, AutoApprove, AutoApproveTooLate, CreateTicket,
           UpdateTicket, ReopenTicket, InsertRow, EndAutoApprove, FailReview
  <1>2. CASE Validated(s, n)
    BY <1>1, <1>2 DEF Validated, InHand
  <1>3. /\ requestReview \subseteq Message
        /\ reviewing \in [Reviewer -> Task \cup {Idle}]
    BY DEF Shape, TypeOK
  <1>4. ASSUME NEW m \in Message, NEW step \in Step, NEW ticket \in 0..MaxTicket,
               Go(r, m, step, ticket)
        PROVE  /\ reviewing'[r] # Idle /\ reviewing'[r].message = m
               /\ \A q \in Reviewer \ {r} : reviewing'[q] = reviewing[q]
    <2>1. [message |-> m, step |-> step, ticket |-> ticket] \in Task
      BY DEF Task
    <2>2. QED
      BY <1>3, <1>4, <2>1, MarkerAssumption DEF Go
  <1>5. ASSUME reviewing' = [reviewing EXCEPT ![r] = Idle]
        PROVE  \A q \in Reviewer \ {r} : reviewing'[q] = reviewing[q]
    BY <1>3, <1>5
  <1>6. ASSUME NEW m \in requestReview, SearchTicket(r, m) \/ AutoApprove(r, m)
        PROVE  InHand(s, n)'
    <2>1. m \in Message
      BY <1>3
    <2>2. \E step \in Step, ticket \in 0..MaxTicket : Go(r, m, step, ticket)
      <3>1. \A t \in PendingAndRejected(m.id) : t \in 0..MaxTicket
        BY TicketsType, BoundAssumption DEF PendingAndRejected, Ticket
      <3>2. QED
        BY <1>6, <3>1, BoundAssumption DEF SearchTicket, AutoApprove, Step
    <2>3. /\ reviewing'[r] # Idle /\ reviewing'[r].message = m
          /\ \A q \in Reviewer \ {r} : reviewing'[q] = reviewing[q]
      BY <1>4, <2>1, <2>2
    <2>4. reviewing[r] = Idle /\ requestReview' = requestReview \ {m}
      BY <1>6 DEF SearchTicket, AutoApprove
    <2>5. CASE Queued(s, n)
      BY <1>1, <2>3, <2>4, <2>5 DEF Queued, Reviewed, InHand
    <2>6. CASE Reviewed(s, n)
      BY <2>3, <2>4, <2>6 DEF Reviewed, InHand
    <2>7. QED
      BY <1>2, <2>5, <2>6
  <1>7. ASSUME NEW m \in requestReview, AutoApproveTooLate(r, m)
        PROVE  InHand(s, n)'
    <2>1. /\ requestReview \ {m} \subseteq requestReview'
          /\ reviewing' = reviewing
      BY <1>3, <1>7, PutBackKeeps DEF AutoApproveTooLate
    <2>2. m.id # s
      BY <1>7 DEF AutoApproveTooLate, Current
    <2>3. CASE Queued(s, n)
      BY <1>1, <2>1, <2>2, <2>3 DEF Queued, InHand
    <2>4. CASE Reviewed(s, n)
      BY <2>1, <2>4 DEF Reviewed, InHand
    <2>5. QED
      BY <1>2, <2>3, <2>4
  <1>8. ASSUME CreateTicket(r) \/ UpdateTicket(r) \/ ReopenTicket(r)
        PROVE  InHand(s, n)'
    <2>1. reviewing[r] \in Task
      BY <1>3, <1>8 DEF CreateTicket, UpdateTicket, ReopenTicket, At
    <2>2. \E step \in Step, ticket \in 0..MaxTicket :
            Go(r, reviewing[r].message, step, ticket)
      <3>1. CASE CreateTicket(r)
        <4>1. Len(tickets) + 1 \in 0..MaxTicket
          BY <3>1, TicketsType, BoundAssumption DEF CreateTicket
        <4>2. QED
          BY <3>1, <4>1 DEF CreateTicket, Step
      <3>2. CASE UpdateTicket(r) \/ ReopenTicket(r)
        BY <2>1, <3>2 DEF UpdateTicket, ReopenTicket, Step, Task
      <3>3. QED
        BY <1>8, <3>1, <3>2
    <2>3. /\ reviewing'[r] # Idle /\ reviewing'[r].message = reviewing[r].message
          /\ \A q \in Reviewer \ {r} : reviewing'[q] = reviewing[q]
      BY <1>4, <2>1, <2>2 DEF Task
    <2>4. requestReview' = requestReview
      BY <1>8 DEF CreateTicket, UpdateTicket, ReopenTicket
    <2>5. CASE Queued(s, n)
      BY <1>1, <2>4, <2>5 DEF Queued, InHand
    <2>6. CASE Reviewed(s, n)
      BY <2>3, <2>6 DEF Reviewed, InHand
    <2>7. QED
      BY <1>2, <2>5, <2>6
  <1>9. ASSUME reviewing' = [reviewing EXCEPT ![r] = Idle],
               requestReview \subseteq requestReview',
               reviewing[r].message.id = s /\ reviewing[r].message.version = n
                 => InHand(s, n)'
        PROVE  InHand(s, n)'
    <2>1. CASE Queued(s, n)
      BY <1>1, <1>9, <2>1 DEF Queued, InHand
    <2>2. CASE Reviewed(s, n)
      BY <1>5, <1>9, <2>2 DEF Reviewed, InHand
    <2>3. QED
      BY <1>2, <2>1, <2>2
  <1>10. ASSUME NEW fault \in BOOLEAN, InsertRow(r, fault)
         PROVE  InHand(s, n)'
    <2> DEFINE m == reviewing[r].message
    <2>1. m \in Message
      BY <1>3, <1>10 DEF InsertRow, At, Task
    <2>2. requestReview \subseteq requestReview'
      BY <1>10, <2>1, PutBackKeeps DEF InsertRow
    <2>3. \E row \in rows' : row.id = m.id /\ row.version = m.version
      <3> DEFINE new == [id |-> m.id, version |-> m.version,
                         ticket |-> reviewing[r].ticket, status |-> "PENDING"]
      <3>1. new.id = m.id /\ new.version = m.version
        OBVIOUS
      <3>2. \/ rows' = rows \cup {new}
            \/ rows' = rows /\ \E row \in rows : row.id = m.id /\ row.version = m.version
        BY <1>10 DEF InsertRow
      <3>3. QED
        BY <3>1, <3>2
    <2>4. QED
      BY <1>9, <1>10, <2>2, <2>3 DEF InsertRow, InTable, InHand
  <1>11. ASSUME EndAutoApprove(r)
         PROVE  InHand(s, n)'
    <2>1. reviewing[r].message.id # s
      <3>1. SUFFICES ASSUME reviewing[r].message.id = s PROVE FALSE
        OBVIOUS
      <3>2. L!Save(r) /\ calls[r].id = s
        BY <1>11, <3>1 DEF EndAutoApprove, Verdicts, ReviewerCalls
      <3>3. lifecycle'[s].version = etag + 1 /\ etag \in Nat
        BY <3>2, SaveIsNew DEF Rewritten, Client, Shape, L!TypeOK
      <3>4. lifecycle[s].version <= etag
        BY DEF Dated, Current, L!Status
      <3>5. QED
        BY <3>3, <3>4
    <2>2. QED
      BY <1>9, <1>11, <2>1 DEF EndAutoApprove
  <1>12. ASSUME FailReview(r)
         PROVE  InHand(s, n)'
    <2>1. reviewing[r].message \in Message
      BY <1>3, <1>12 DEF FailReview, Task
    <2>2. requestReview \subseteq requestReview'
      BY <1>12, <2>1, PutBackKeeps DEF FailReview
    <2>3. reviewing[r].message.id = s /\ reviewing[r].message.version = n
            => s \in lost' \/ Queued(s, n)'
      BY <1>12, <2>1, PutBackKeeps DEF FailReview, Queued
    <2>4. QED
      BY <1>9, <1>12, <2>2, <2>3 DEF FailReview, InHand
  <1>13. QED
    BY <1>6, <1>7, <1>8, <1>10, <1>11, <1>12 DEF Review

LEMMA TrackedStep ==
  Shape /\ Dated /\ Verdicts /\ Tracked /\ [Next]_vars => Tracked'
  <1> SUFFICES ASSUME Shape, Dated, Verdicts, Tracked, [Next]_vars,
                      NEW s \in ServiceId, NEW n \in Nat, Current(s, n)'
               PROVE  InHand(s, n)'
    BY DEF Tracked
  <1>1. CASE lifecycle'[s] # lifecycle[s]
    BY <1>1, ChangesAreFed DEF InHand
  <1>2. CASE lifecycle'[s] = lifecycle[s]
    <2>1. Current(s, n)
      BY <1>2 DEF Current, L!Status
    <2>2. InHand(s, n)
      BY <2>1 DEF Tracked
    <2>3. CASE s \in lost \/ InTable(s, n)
      BY <2>3, LostGrows, TableKeeps DEF InHand
    <2>4. ASSUME NEW z \in ServiceId, NEW fault \in BOOLEAN, Watch(z, fault)
          PROVE  s \in changed \/ Queued(s, n) => InHand(s, n)'
      <3>1. requestReview' = requestReview
            /\ requestValidation \subseteq requestValidation'
        BY <2>4 DEF Watch
      <3>2. CASE Queued(s, n)
        BY <3>1, <3>2 DEF Queued, InHand
      <3>3. CASE s \in changed /\ s \notin changed'
        <4> DEFINE m == [id |-> s, version |-> lifecycle[s].version, dequeueCount |-> 0]
        <4>1. z = s
          BY <2>4, <3>3 DEF Watch
        <4>2. lifecycle[s].state = "submitted" /\ lifecycle[s].version = n
          BY <2>1 DEF Current, L!Status
        <4>3. m \in requestValidation'
          BY <2>4, <4>1, <4>2 DEF Watch
        <4>4. m.id = s /\ m.version = n
          BY <4>2
        <4>5. QED
          BY <4>3, <4>4 DEF Queued, InHand
      <3>4. QED
        BY <3>2, <3>3 DEF InHand
    <2>5. CASE s \in changed
      BY <2>4, <2>5, ChangesAreFed DEF InHand
    <2>6. ASSUME Queued(s, n) \/ Validated(s, n) \/ Reviewed(s, n)
          PROVE  InHand(s, n)'
      <3>1. CASE \E v \in Validator : Validation(v)
        BY <1>2, <2>1, <2>6, <3>1, ValidationKeeps
      <3>2. CASE \E r \in Reviewer : Review(r)
        BY <1>2, <2>1, <2>6, <3>2, ReviewKeeps
      <3>3. ASSUME NEW z \in ServiceId, NEW fault \in BOOLEAN, Watch(z, fault)
            PROVE  InHand(s, n)'
        <4>1. UNCHANGED <<validating, reviewing>>
          BY <3>3 DEF Watch
        <4>2. QED
          BY <2>4, <2>6, <3>3, <4>1 DEF Validated, Reviewed, InHand
      <3>4. CASE UNCHANGED workVars
        BY <2>6, <3>4 DEF workVars, Queued, Validated, Reviewed, InHand
      <3>5. QED
        BY <3>1, <3>2, <3>3, <3>4 DEF Next, StartRequest, EndRequest, Operator,
           Decide, Checker, ReadPending, SearchDecided, FailSearch, ApplyVerdict,
           SaveVerdict, UpdateStatus, vars
    <2>7. QED
      BY <2>2, <2>3, <2>5, <2>6 DEF InHand
  <1>3. QED
    BY <1>1, <1>2

LEMMA IInvInit == Init => IInv
  <1> SUFFICES ASSUME Init PROVE IInv
    OBVIOUS
  <1>1. /\ \A s \in ServiceId : lifecycle[s] = NoItem
        /\ changed = {} /\ lost = {} /\ rows = {} /\ checker = NoRun
        /\ requestValidation = {} /\ requestReview = {}
        /\ \A v \in Validator : validating[v] = Idle
        /\ \A r \in Reviewer : reviewing[r] = Idle
    BY DEF Init, L!Init
  <1>2. Shape
    BY InitShape
  <1>3. Dated /\ Undecided
    BY <1>1 DEF Dated, Undecided, NoRun
  <1>4. Verdicts
    BY <1>1 DEF Verdicts, ValidatorCalls, ReviewerCalls, CheckerCalls, At, NoRun
  <1>5. Tracked
    BY <1>1 DEF Tracked, Current, L!Status
  <1>6. QED
    BY <1>2, <1>3, <1>4, <1>5 DEF IInv

LEMMA IInvStep == IInv /\ [Next]_vars => IInv'
  BY ShapeStep, DatedStep, VerdictsStep, UndecidedStep, TrackedStep DEF IInv

\* A submitted service nobody is working on has a pending row: whatever fails, the
\* review of the last version of it is not forgotten.
THEOREM TrackedCorrect == Spec => []SubmittedIsTracked
  <1>1. IInv => SubmittedIsTracked
    <2> SUFFICES ASSUME IInv, NEW s \in ServiceId, L!Status[s] = "submitted", Quiet(s)
                 PROVE  \E row \in rows : row.id = s /\ row.status = "PENDING"
      BY DEF SubmittedIsTracked
    <2> DEFINE n == lifecycle[s].version
    <2>1. n \in Nat /\ Current(s, n)
      BY DEF IInv, Shape, L!TypeOK, L!Document, Current, L!Status
    <2>2. InHand(s, n)
      BY <2>1 DEF IInv, Tracked
    <2>3. InTable(s, n)
      BY <2>2 DEF InHand, Queued, Validated, Reviewed, Quiet
    <2>4. QED
      BY <2>1, <2>3 DEF InTable, IInv, Undecided
  <1>2. QED
    BY <1>1, IInvInit, IInvStep, PTL DEF Spec

-----------------------------------------------------------------------------
(* Verdicts are given on what was seen                                      *)

\* A service of which the property speaks: no step about it failed, and its
\* versions are orderly.
Steady(s) == faults[s] = 0 /\ Orderly(s)

\* The container holds the last version of each service.
Latest ==
  /\ \A s \in ServiceId :
       lifecycle[s] # NoItem => [id |-> s, document |-> lifecycle[s]] \in versions
  /\ \A v \in versions :
       lifecycle[v.id] # NoItem /\ v.document.version <= lifecycle[v.id].version

\* What holds of all services, whatever fails. An owner asks for no verdict.
Asking ==
  \A u \in User :
    calls[u] # Idle => calls[u].state \notin {"approved", "rejected"}

\* What is about to be saved is the verdict that was given.
Saving ==
  /\ \A r \in Reviewer : At(r, "approve") => calls[r].state = "approved"
  /\ \A w \in checker.work : w.step = "save" =>
       (calls[w.ticket].state = "approved" <=> w.verdict = "APPROVED")

\* Who refers to a ticket means its service.
Asks(r, steps) == reviewing[r] # Idle /\ reviewing[r].step \in steps

Addressed ==
  /\ \A r \in Reviewer : Asks(r, {"update", "reopen", "insert"}) =>
       tickets[reviewing[r].ticket].id = reviewing[r].message.id
  /\ \A row \in rows : tickets[row.ticket].id = row.id

\* The checker works on rows of the table.
Running ==
  /\ \A row \in checker.rows : row \in rows /\ row.status = "PENDING"
  /\ checker.rows # {} => checker.work = {}
  /\ \A w \in checker.work : w.row.ticket = w.ticket

Common == Asking /\ Saving /\ Addressed /\ Running

\* What holds of a steady service. Whatever the review is about to do concerns the
\* version under review, but for the rows that are still to be closed.
Closing(row) ==
  \E w \in checker.work :
    w.step = "update" /\ w.row.id = row.id /\ w.row.version = row.version

UnderReview(s) ==
  /\ \A m \in requestValidation \cup requestReview : m.id = s => Current(s, m.version)
  /\ \A v \in Validator :
       validating[v] # Idle /\ validating[v].id = s => Current(s, validating[v].version)
  /\ \A r \in Reviewer :
       reviewing[r] # Idle /\ reviewing[r].message.id = s =>
         Current(s, reviewing[r].message.version)
  /\ \A row \in rows :
       row.id = s /\ row.status = "PENDING" => Current(s, row.version) \/ Closing(row)
  /\ \A w \in checker.work :
       w.row.id = s /\ w.step # "update" => Current(s, w.row.version)

\* Where the version of s that is under review is.
Holders(s) ==
  {<<"changed", x>> : x \in changed \cap {s}}
  \cup {<<"validation", m>> : m \in {k \in requestValidation : k.id = s}}
  \cup {<<"validator", v>> :
          v \in {k \in Validator : validating[k] # Idle /\ validating[k].id = s}}
  \cup {<<"review", m>> : m \in {k \in requestReview : k.id = s}}
  \cup {<<"reviewer", r>> :
          r \in {k \in Reviewer : reviewing[k] # Idle /\ reviewing[k].message.id = s}}
  \cup {<<"row", row>> : row \in {k \in rows : k.id = s /\ Current(s, k.version)}}

\* It is in one place.
Alone(s) == \A x, y \in Holders(s) : x = y

\* The operators read the version under review, in its ticket: none but the
\* reviewer that writes it or the row that refers to it has an open ticket.
Ticketed(s) ==
  /\ \A r \in Reviewer :
       Asks(r, {"reopen", "insert"}) /\ reviewing[r].message.id = s =>
         tickets[reviewing[r].ticket].version = reviewing[r].message.version
  /\ \A row \in rows :
       row.id = s /\ Current(s, row.version) => tickets[row.ticket].version = row.version
  /\ \A t \in DOMAIN tickets : tickets[t].status = "OPEN" /\ tickets[t].id = s =>
       \/ \E r \in Reviewer : Asks(r, {"insert"}) /\ reviewing[r].ticket = t
       \/ \E row \in rows : row.ticket = t /\ Current(s, row.version)

\* The checker applies the verdict of the ticket of the row.
Checked(s) ==
  \A w \in checker.work : w.row.id = s /\ w.step # "update" =>
    w.row \in rows /\ tickets[w.ticket].status = w.verdict

Sound(s) == UnderReview(s) /\ Alone(s) /\ Ticketed(s) /\ Checked(s)

\* The inductive invariant.
DecidedInv ==
  IInv /\ Latest /\ Common /\ \A s \in ServiceId : Steady(s) => Sound(s)

-----------------------------------------------------------------------------
\* A write of s.
Wrote(s, state) ==
  /\ lifecycle'[s] \in L!Document
  /\ lifecycle'[s].state = state
  /\ lifecycle'[s].version = etag + 1
  /\ \A z \in ServiceId \ {s} : lifecycle'[z] = lifecycle[z]
  /\ versions' = versions \cup {[id |-> s, document |-> lifecycle'[s]]}

LEMMA WriteWrites ==
  ASSUME Shape, NEW s \in ServiceId, NEW content \in L!Content,
         NEW state \in L!State, L!Write(s, content, state)
  PROVE  Wrote(s, state)
  <1> DEFINE document == [content |-> content, state |-> state, version |-> etag + 1]
  <1>1. document \in L!Document
    BY DEF Shape, L!TypeOK, L!Document
  <1>2. lifecycle' = [lifecycle EXCEPT ![s] = document]
    BY DEF L!Write
  <1>3. lifecycle'[s] = document
    BY <1>2 DEF Shape, L!TypeOK
  <1>4. \A z \in ServiceId \ {s} : lifecycle'[z] = lifecycle[z]
    BY <1>2 DEF Shape, L!TypeOK
  <1>5. QED
    BY <1>1, <1>3, <1>4 DEF L!Write, Wrote

\* A save writes what was asked for, and ends the call.
LEMMA SaveWrites ==
  ASSUME Shape, NEW c \in Client, L!Save(c)
  PROVE  /\ calls[c] # Idle /\ calls[c].id \in ServiceId
         /\ Wrote(calls[c].id, calls[c].state)
         /\ calls'[c] = Idle /\ calls' # calls
         /\ \A d \in Client \ {c} : calls'[d] = calls[d]
  <1>1. calls[c] # Idle /\ calls[c] \in L!Call
    BY DEF L!Save, Shape, L!TypeOK
  <1>2. Wrote(calls[c].id, calls[c].state)
    BY <1>1, WriteWrites DEF L!Save, L!Call
  <1>3. calls'[c] = Idle
    BY DEF L!Save, Shape, L!TypeOK
  <1>4. QED
    BY <1>1, <1>2, <1>3, SaveFrame DEF Shape, L!Call

\* An owner does not ask for a verdict. The patch of a group asks for nothing, it writes.
LEMMA OwnerAsks ==
  ASSUME Shape, NEW u \in Client, NEW s \in ServiceId, L!UserRequest(u, s)
  PROVE  \/ /\ calls' = calls
            /\ lifecycle[s] # NoItem
            /\ Wrote(s, lifecycle[s].state)
         \/ /\ UNCHANGED <<lifecycle, etag, versions>>
            /\ calls'[u].id = s
            /\ calls'[u].state \notin {"approved", "rejected"}
            /\ L!Status[s] # "submitted"
            /\ \A d \in Client \ {u} : calls'[d] = calls[d]
  <1>1. ASSUME NEW g \in L!MaybeGroup, L!Patch(u, s, g)
        PROVE  /\ calls' = calls
               /\ lifecycle[s] # NoItem
               /\ Wrote(s, lifecycle[s].state)
    <2>1. lifecycle[s] \in L!Document
      BY <1>1 DEF L!Patch, Shape, L!TypeOK
    <2>2. [lifecycle[s].content EXCEPT !.group_id = g] \in L!Content
      BY <2>1 DEF L!Document, L!Content
    <2>3. lifecycle[s].state \in L!State
      BY <2>1 DEF L!Document
    <2>4. QED
      BY <1>1, <2>2, <2>3, WriteWrites DEF L!Patch
  <1>2. ASSUME NEW action \in {"create", "edit", "submit", "delete"},
               NEW authz, NEW content, L!apply(u, s, action, authz, content)
        PROVE  /\ UNCHANGED <<lifecycle, etag, versions>>
               /\ calls'[u].id = s
               /\ calls'[u].state \notin {"approved", "rejected"}
               /\ L!Status[s] # "submitted"
    <2>1. PICK t \in L!Matching(action, lifecycle[s]) :
            calls' = [calls EXCEPT ![u] = [id |-> s, content |-> content,
                                           state |-> t.to]]
      BY <1>2 DEF L!apply
    <2>2. t.to \notin {"approved", "rejected"} /\ t.from # "submitted"
      BY <2>1 DEF L!Matching, L!FSM
    <2>3. t.from = IF lifecycle[s] = NoItem THEN "*" ELSE lifecycle[s].state
      BY <2>1 DEF L!Matching
    <2>4. calls'[u] = [id |-> s, content |-> content, state |-> t.to]
      BY <2>1 DEF Shape, L!TypeOK
    <2>5. QED
      BY <1>2, <2>2, <2>3, <2>4 DEF L!apply, L!Status
  <1>3. \A d \in Client \ {u} : calls'[d] = calls[d]
    BY RequestFrame DEF Shape
  <1>4. QED
    BY <1>1, <1>2, <1>3 DEF L!UserRequest, L!Create, L!Edit, L!Submit, L!Delete

\* The container holds the last version, whatever is written.
LEMMA StepWrites ==
  ASSUME Shape, [L!Next]_L!vars
  PROVE  UNCHANGED <<lifecycle, versions>> \/ \E s \in ServiceId : \E state : Wrote(s, state)
  <1>1. ASSUME NEW c \in Client, L!Save(c)
        PROVE  \E s \in ServiceId : \E state : Wrote(s, state)
    BY <1>1, SaveWrites
  <1>2. ASSUME NEW c \in Client, NEW s \in ServiceId, L!UserRequest(c, s)
        PROVE  UNCHANGED <<lifecycle, versions>> \/ \E state : Wrote(s, state)
    BY <1>2, OwnerAsks
  <1>3. ASSUME NEW c, NEW s, L!ReviewRequest(c, s) \/ L!SaveError(c)
        PROVE  UNCHANGED <<lifecycle, versions>>
    BY <1>3 DEF L!ReviewRequest, L!Approve, L!Reject, L!apply, L!SaveError
  <1>4. QED
    BY <1>1, <1>2, <1>3 DEF L!Next, L!vars

LEMMA LatestStep == Shape /\ Dated /\ Latest /\ [Next]_vars => Latest'
  <1> SUFFICES ASSUME Shape, Dated, Latest, [Next]_vars PROVE Latest'
    OBVIOUS
  <1>1. CASE UNCHANGED <<lifecycle, versions>>
    BY <1>1 DEF Latest
  <1>2. ASSUME NEW s \in ServiceId, NEW state, Wrote(s, state)
        PROVE  Latest'
    <2>1. /\ lifecycle'[s] # NoItem
          /\ lifecycle'[s].version = etag + 1 /\ etag \in Nat
      BY <1>2, MarkerAssumption DEF Wrote, Shape, L!TypeOK
    <2>2. \A v \in versions : /\ v.id \in ServiceId
                              /\ v.document.version \in Nat
                              /\ lifecycle[v.id] # NoItem
                              /\ v.document.version <= lifecycle[v.id].version
                              /\ lifecycle[v.id].version <= etag
                              /\ lifecycle[v.id].version \in Nat
      BY DEF Latest, Dated, Shape, L!TypeOK, L!Document
    <2>3. ASSUME NEW v \in versions'
          PROVE  lifecycle'[v.id] # NoItem /\ v.document.version <= lifecycle'[v.id].version
      <3>1. CASE v = [id |-> s, document |-> lifecycle'[s]]
        BY <2>1, <3>1
      <3>2. CASE v \in versions /\ v.id = s
        BY <2>1, <2>2, <3>2
      <3>3. CASE v \in versions /\ v.id # s
        BY <1>2, <2>2, <3>3 DEF Wrote
      <3>4. QED
        BY <1>2, <2>3, <3>1, <3>2, <3>3 DEF Wrote
    <2>4. ASSUME NEW z \in ServiceId, lifecycle'[z] # NoItem
          PROVE  [id |-> z, document |-> lifecycle'[z]] \in versions'
      BY <1>2, <2>4 DEF Wrote, Latest
    <2>5. QED
      BY <2>3, <2>4 DEF Latest
  <1>3. QED
    BY <1>1, <1>2, LifecycleStep, StepWrites

\* The version under review is the last that was submitted.
LEMMA CurrentIsLast ==
  ASSUME Shape, Latest, NEW s \in ServiceId, NEW n, Current(s, n)
  PROVE  LastSubmission(s) = n
  <1> DEFINE submitted == {w.document.version : w \in
                            {v \in versions : v.id = s /\ v.document.state = "submitted"}}
  <1>1. /\ lifecycle[s] # NoItem /\ lifecycle[s].state = "submitted"
        /\ lifecycle[s].version = n
    BY DEF Current, L!Status
  <1>2. n \in submitted
    <2>1. [id |-> s, document |-> lifecycle[s]] \in versions
      BY <1>1 DEF Latest
    <2>2. QED
      BY <1>1, <2>1
  <1>3. submitted \subseteq Nat
    BY DEF Shape, L!TypeOK, L!Document
  <1>4. \A k \in submitted : k <= n
    BY <1>1 DEF Latest
  <1> HIDE DEF submitted
  <1>5. \A k \in submitted : (\A j \in submitted : j <= k) => k = n
    BY <1>2, <1>3, <1>4
  <1>6. (CHOOSE k \in submitted : \A j \in submitted : j <= k) = n
    BY <1>2, <1>4, <1>5
  <1>7. QED
    BY <1>6 DEF LastSubmission, submitted


-----------------------------------------------------------------------------
(* What becomes of a steady service                                         *)

\* No step about it fails.
LEMMA NoFaultOf ==
  ASSUME Shape, NEW s \in ServiceId, faults'[s] = 0
  PROVE  ~ Fault(s)
  <1>1. faults \in [ServiceId -> Nat]
    BY BoundAssumption DEF Shape, TypeOK
  <1>2. QED
    BY <1>1 DEF Fault

\* It was steady before.
LEMMA WasSteady ==
  ASSUME Shape, Latest, Dated, NEW s \in ServiceId, [Next]_vars, Steady(s)'
  PROVE  Steady(s)
  <1>1. faults[s] = 0
    BY NextCounts DEF Steady
  <1>2. \A u \in versions : u.document.version \in Nat /\ u.document.version <= etag
    BY DEF Latest, Dated, Shape, L!TypeOK, L!Document
  <1>3. CASE UNCHANGED <<lifecycle, versions>>
    BY <1>1, <1>3 DEF Steady, Orderly, Before
  <1>4. ASSUME NEW z \in ServiceId, NEW state, Wrote(z, state)
        PROVE  Orderly(s)
    <2>1. /\ versions' = versions \cup {[id |-> z, document |-> lifecycle'[z]]}
          /\ lifecycle'[z].version = etag + 1 /\ etag \in Nat
      BY <1>4 DEF Wrote, Shape, L!TypeOK
    <2>2. ASSUME NEW v \in versions, NEW w \in versions, Before(v, w)
          PROVE  Before(v, w)'
      BY <1>2, <2>1, <2>2 DEF Before
    <2>3. QED
      BY <2>1, <2>2 DEF Steady, Orderly
  <1>5. QED
    BY <1>1, <1>3, <1>4, LifecycleStep, StepWrites DEF Steady

\* A submission is only written over by a verdict, and a verdict over nothing else.
LEMMA WritesOrderly ==
  ASSUME Shape, Latest, Dated, NEW s \in ServiceId, NEW state, Wrote(s, state),
         Orderly(s)', lifecycle[s] # NoItem
  PROVE  lifecycle[s].state = "submitted" <=> state \in {"approved", "rejected"}
  <1>1. PICK v \in versions, w \in versions' :
          /\ v.id = s /\ v.document = lifecycle[s]
          /\ w.id = s /\ w.document = lifecycle'[s]
          /\ versions' = versions \cup {w}
    <2>1. /\ [id |-> s, document |-> lifecycle[s]] \in versions
          /\ versions' = versions \cup {[id |-> s, document |-> lifecycle'[s]]}
      BY DEF Wrote, Latest
    <2>2. QED
      BY <2>1
  <1>2. /\ lifecycle'[s].version = etag + 1 /\ etag \in Nat
        /\ lifecycle[s].version \in Nat /\ lifecycle[s].version <= etag
        /\ lifecycle'[s].state = state
    BY DEF Wrote, Latest, Dated, Shape, L!TypeOK, L!Document
  <1>3. \A u \in versions : /\ u.document.version \in Nat
                            /\ u.id = s => u.document.version <= lifecycle[s].version
    BY DEF Latest, Shape, L!TypeOK, L!Document
  <1>4. Before(v, w)'
    BY <1>1, <1>2, <1>3 DEF Before
  <1>5. QED
    BY <1>1, <1>2, <1>4 DEF Orderly

\* Where the things of the review come from.
LEMMA Types ==
  ASSUME Shape
  PROVE  /\ \A m \in requestValidation \cup requestReview :
              m \in Message /\ m.id \in ServiceId /\ m.version \in Nat
         /\ \A v \in Validator : validating[v] # Idle =>
              /\ validating[v] \in Message
              /\ validating[v].id \in ServiceId /\ validating[v].version \in Nat
         /\ \A r \in Reviewer : reviewing[r] # Idle =>
              /\ reviewing[r] \in Task /\ reviewing[r].message \in Message
              /\ reviewing[r].message.id \in ServiceId
              /\ reviewing[r].message.version \in Nat
         /\ \A row \in rows \cup checker.rows :
              row \in Row /\ row.id \in ServiceId /\ row.version \in Nat
              /\ row.ticket \in DOMAIN tickets
         /\ \A w \in checker.work :
              /\ w \in Work /\ w.ticket \in Ticket /\ w.row \in Row
              /\ w.row.id \in ServiceId /\ w.row.version \in Nat
  <1>1. \A m \in requestValidation \cup requestReview :
          m \in Message /\ m.id \in ServiceId /\ m.version \in Nat
    BY DEF Shape, TypeOK, Message
  <1>2. \A v \in Validator : validating[v] # Idle =>
          /\ validating[v] \in Message
          /\ validating[v].id \in ServiceId /\ validating[v].version \in Nat
    BY DEF Shape, TypeOK, Message
  <1>3. \A r \in Reviewer : reviewing[r] # Idle =>
          /\ reviewing[r] \in Task /\ reviewing[r].message \in Message
          /\ reviewing[r].message.id \in ServiceId
          /\ reviewing[r].message.version \in Nat
    BY DEF Shape, TypeOK, Task, Message
  <1>4. \A row \in rows \cup checker.rows :
          row \in Row /\ row.id \in ServiceId /\ row.version \in Nat
          /\ row.ticket \in DOMAIN tickets
    BY DEF Shape, TypeOK, Row
  <1>5. \A w \in checker.work :
          /\ w \in Work /\ w.ticket \in Ticket /\ w.row \in Row
          /\ w.row.id \in ServiceId /\ w.row.version \in Nat
    BY DEF Shape, TypeOK, Row, Work
  <1>6. QED
    BY <1>1, <1>2, <1>3, <1>4, <1>5

LEMMA Still ==
  ASSUME NEW s, lifecycle'[s] = lifecycle[s], s \in ServiceId
  PROVE  \A n : Current(s, n)' <=> Current(s, n)
  BY DEF L!Status, Current

\* Nothing about s changes.
Aside(s) ==
  /\ lifecycle'[s] = lifecycle[s]
  /\ s \in changed' => s \in changed
  /\ \A m \in requestValidation' : m.id = s => m \in requestValidation
  /\ \A m \in requestReview' : m.id = s => m \in requestReview
  /\ \A v \in Validator :
       validating'[v] # Idle /\ validating'[v].id = s => validating'[v] = validating[v]
  /\ \A r \in Reviewer :
       \/ reviewing'[r] = reviewing[r]
       \/ /\ reviewing[r] # Idle => reviewing[r].message.id # s
          /\ reviewing'[r] # Idle => reviewing'[r].message.id # s
  /\ \A t \in DOMAIN tickets :
       t \in DOMAIN tickets' /\ (tickets[t].id = s => tickets'[t] = tickets[t])
  /\ \A t \in DOMAIN tickets' :
       tickets'[t].id = s => t \in DOMAIN tickets /\ tickets[t].id = s
  /\ \A row \in rows' : row.id = s => row \in rows
  /\ \A row \in rows : row.id = s => row \in rows'
  /\ \A w \in checker'.work : w.row.id = s => w \in checker.work
  /\ \A w \in checker.work : w.row.id = s => w \in checker'.work

\* So it is as sound as it was.
LEMMA AsideSound ==
  ASSUME Shape, Common, NEW s \in ServiceId, Sound(s), Aside(s)
  PROVE  Sound(s)'
  <1>1. \A n : Current(s, n)' <=> Current(s, n)
    BY Still DEF Aside
  <1>2. \A r \in Reviewer : reviewing'[r] # Idle /\ reviewing'[r].message.id = s =>
          reviewing'[r] = reviewing[r]
    BY DEF Aside
  <1>3. UnderReview(s)'
    <2>1. \A row \in rows : row.id = s /\ Closing(row) => Closing(row)'
      BY DEF Closing, Aside
    <2>2. \A row \in rows' : row.id = s /\ row.status = "PENDING" =>
            Current(s, row.version)' \/ Closing(row)'
      BY <1>1, <2>1 DEF Sound, UnderReview, Aside
    <2>3. \A m \in requestValidation' \cup requestReview' :
            m.id = s => Current(s, m.version)'
      BY <1>1 DEF Sound, UnderReview, Aside
    <2>4. \A v \in Validator : validating'[v] # Idle /\ validating'[v].id = s =>
            Current(s, validating[v].version)'
      BY <1>1 DEF Sound, UnderReview, Aside, Current
    <2>5. \A r \in Reviewer : reviewing'[r] # Idle /\ reviewing'[r].message.id = s =>
            Current(s, reviewing[r].message.version)'
      BY <1>1, <1>2 DEF Sound, UnderReview, Current
    <2>6. \A w \in checker'.work : w.row.id = s /\ w.step # "update" =>
            Current(s, w.row.version)'
      BY <1>1 DEF Sound, UnderReview, Aside
    <2>7. QED
      BY <2>2, <2>3, <2>4, <2>5, <2>6 DEF UnderReview, Current
  <1>4. Alone(s)'
    <2>1. ASSUME NEW h \in Holders(s)'
          PROVE  h \in Holders(s)
      BY <1>1, <1>2, <2>1 DEF Holders, Aside
    <2>2. QED
      BY <2>1 DEF Sound, Alone
  <1>5. Ticketed(s)'
    <2>1. ASSUME NEW r \in Reviewer, Asks(r, {"reopen", "insert"})',
                 reviewing'[r].message.id = s
          PROVE  tickets'[reviewing'[r].ticket].version = reviewing'[r].message.version
      <3>1. reviewing'[r] = reviewing[r] /\ Asks(r, {"reopen", "insert"})
        BY <1>2, <2>1 DEF Asks
      <3>2. /\ reviewing[r].ticket \in DOMAIN tickets
            /\ tickets[reviewing[r].ticket].id = s
        BY <2>1, <3>1 DEF Shape, Common, Addressed, Asks
      <3>3. QED
        BY <2>1, <3>1, <3>2 DEF Sound, Ticketed, Aside
    <2>2. ASSUME NEW row \in rows', row.id = s, Current(s, row.version)'
          PROVE  tickets'[row.ticket].version = row.version
      <3>1. row \in rows /\ Current(s, row.version)
        BY <1>1, <2>2 DEF Aside
      <3>2. row.ticket \in DOMAIN tickets /\ tickets[row.ticket].id = s
        BY <2>2, <3>1 DEF Shape, Common, Addressed
      <3>3. QED
        BY <2>2, <3>1, <3>2 DEF Sound, Ticketed, Aside
    <2>3. ASSUME NEW t \in DOMAIN tickets', tickets'[t].status = "OPEN",
                 tickets'[t].id = s
          PROVE  \/ \E r \in Reviewer : Asks(r, {"insert"})' /\ reviewing'[r].ticket = t
                 \/ \E row \in rows' : row.ticket = t /\ Current(s, row.version)'
      <3>1. t \in DOMAIN tickets /\ tickets[t].id = s /\ tickets[t].status = "OPEN"
        BY <2>3 DEF Aside
      <3>2. ASSUME NEW r \in Reviewer, Asks(r, {"insert"}), reviewing[r].ticket = t
            PROVE  Asks(r, {"insert"})' /\ reviewing'[r].ticket = t
        <4>1. reviewing[r].message.id = s
          BY <3>1, <3>2 DEF Common, Addressed, Asks
        <4>2. reviewing'[r] = reviewing[r]
          BY <3>2, <4>1 DEF Aside, Asks
        <4>3. QED
          BY <3>2, <4>2 DEF Asks
      <3>3. ASSUME NEW row \in rows, row.ticket = t, Current(s, row.version)
            PROVE  row \in rows' /\ Current(s, row.version)'
        BY <1>1, <3>1, <3>3 DEF Common, Addressed, Aside
      <3>4. QED
        BY <3>1, <3>2, <3>3 DEF Sound, Ticketed
    <2>4. QED
      BY <2>1, <2>2, <2>3 DEF Ticketed, Current
  <1>6. Checked(s)'
    <2>1. ASSUME NEW w \in checker'.work, w.row.id = s, w.step # "update"
          PROVE  w.row \in rows' /\ tickets'[w.ticket].status = w.verdict
      <3>1. w \in checker.work /\ w.row \in rows /\ tickets[w.ticket].status = w.verdict
        BY <2>1 DEF Sound, Checked, Aside
      <3>2. w.ticket \in DOMAIN tickets /\ tickets[w.ticket].id = s
        BY <2>1, <3>1 DEF Shape, Common, Addressed, Running
      <3>3. QED
        BY <2>1, <3>1, <3>2 DEF Aside
    <2>2. QED
      BY <2>1 DEF Checked
  <1>7. QED
    BY <1>3, <1>4, <1>5, <1>6 DEF Sound

\* A write of s leaves it to the watcher, if nobody else has anything to do with it.
LEMMA WriteSound ==
  ASSUME IInv, NEW s \in ServiceId, NEW state, Wrote(s, state),
         \A m \in requestValidation' \cup requestReview' : m.id # s,
         \A v \in Validator : validating'[v] # Idle => validating'[v].id # s,
         \A r \in Reviewer : reviewing'[r] # Idle => reviewing'[r].message.id # s,
         UNCHANGED <<tickets, rows>>,
         \A row \in rows : row.id = s /\ row.status = "PENDING" => Closing(row)',
         \A w \in checker'.work : w.step # "update" => w.row.id # s,
         \A t \in DOMAIN tickets : tickets[t].status = "OPEN" => tickets[t].id # s
  PROVE  Sound(s)'
  <1>1. \A row \in rows : row.id = s => ~ Current(s, row.version)'
    <2>1. lifecycle'[s] # NoItem /\ lifecycle'[s].version = etag + 1 /\ etag \in Nat
      BY MarkerAssumption DEF Wrote, IInv, Shape, L!TypeOK
    <2>2. \A row \in rows : row.version \in Nat /\ row.version <= etag
      BY Types DEF IInv, Dated
    <2>3. QED
      BY <2>1, <2>2 DEF Current
  <1>2. UnderReview(s)'
    BY DEF UnderReview
  <1>3. Alone(s)'
    <2>1. ASSUME NEW h \in Holders(s)'
          PROVE  h = <<"changed", s>>
      BY <1>1, <2>1 DEF Holders
    <2>2. QED
      BY <2>1 DEF Alone
  <1>4. Ticketed(s)' /\ Checked(s)'
    BY <1>1 DEF Ticketed, Checked, Asks
  <1>5. QED
    BY <1>2, <1>3, <1>4 DEF Sound

\* What the holder of s being h excludes.
LEMMA HeldBy ==
  ASSUME NEW s \in ServiceId, Sound(s), NEW h \in Holders(s)
  PROVE  /\ s \in changed => h = <<"changed", s>>
         /\ \A m \in requestValidation : m.id = s => h = <<"validation", m>>
         /\ \A v \in Validator :
              validating[v] # Idle /\ validating[v].id = s => h = <<"validator", v>>
         /\ \A m \in requestReview : m.id = s => h = <<"review", m>>
         /\ \A r \in Reviewer :
              reviewing[r] # Idle /\ reviewing[r].message.id = s => h = <<"reviewer", r>>
         /\ \A row \in rows : row.id = s /\ Current(s, row.version) => h = <<"row", row>>
  <1>1. \A g \in Holders(s) : h = g
    BY DEF Sound, Alone
  <1>2. s \in changed => <<"changed", s>> \in Holders(s)
    BY DEF Holders
  <1>3. \A m \in requestValidation : m.id = s => <<"validation", m>> \in Holders(s)
    BY DEF Holders
  <1>4. \A v \in Validator : validating[v] # Idle /\ validating[v].id = s =>
          <<"validator", v>> \in Holders(s)
    BY DEF Holders
  <1>5. \A m \in requestReview : m.id = s => <<"review", m>> \in Holders(s)
    BY DEF Holders
  <1>6. \A r \in Reviewer : reviewing[r] # Idle /\ reviewing[r].message.id = s =>
          <<"reviewer", r>> \in Holders(s)
    BY DEF Holders
  <1>7. \A row \in rows : row.id = s /\ Current(s, row.version) =>
          <<"row", row>> \in Holders(s)
    BY DEF Holders
  <1>8. QED
    BY <1>1, <1>2, <1>3, <1>4, <1>5, <1>6, <1>7

\* s goes from the hands of x to those of y.
LEMMA PassedOn ==
  ASSUME NEW s \in ServiceId, Alone(s), NEW x \in Holders(s), NEW y,
         \A h \in Holders(s)' : h = y \/ (h \in Holders(s) /\ h # x)
  PROVE  Alone(s)'
  <1>1. \A h \in Holders(s)' : h = y
    BY DEF Alone
  <1>2. QED
    BY <1>1 DEF Alone

\* Whoever the open ticket of s belongs to holds it.
LEMMA OpenIsHeld ==
  ASSUME Common, NEW s \in ServiceId, Sound(s),
         NEW t \in DOMAIN tickets, tickets[t].status = "OPEN", tickets[t].id = s
  PROVE  \/ \E r \in Reviewer :
              /\ reviewing[r] # Idle /\ reviewing[r].step = "insert"
              /\ reviewing[r].ticket = t /\ reviewing[r].message.id = s
         \/ \E row \in rows :
              row.ticket = t /\ row.id = s /\ Current(s, row.version)
  <1>1. ASSUME NEW r \in Reviewer, Asks(r, {"insert"}), reviewing[r].ticket = t
        PROVE  reviewing[r] # Idle /\ reviewing[r].step = "insert"
               /\ reviewing[r].message.id = s
    BY <1>1 DEF Common, Addressed, Asks
  <1>2. \A row \in rows : row.ticket = t => row.id = s
    BY DEF Common, Addressed
  <1>3. QED
    BY <1>1, <1>2 DEF Sound, Ticketed

\* Nobody holds what is not under review.
LEMMA NotUnderReview ==
  ASSUME Common, NEW s \in ServiceId, Sound(s), L!Status[s] # "submitted"
  PROVE  /\ \A m \in requestValidation \cup requestReview : m.id # s
         /\ \A v \in Validator : validating[v] # Idle => validating[v].id # s
         /\ \A r \in Reviewer : reviewing[r] # Idle => reviewing[r].message.id # s
         /\ \A row \in rows : row.id = s /\ row.status = "PENDING" => Closing(row)
         /\ \A w \in checker.work : w.step # "update" => w.row.id # s
         /\ \A t \in DOMAIN tickets : tickets[t].status = "OPEN" => tickets[t].id # s
  <1>1. \A n : ~ Current(s, n)
    BY DEF Current
  <1>2. /\ \A m \in requestValidation \cup requestReview : m.id # s
        /\ \A v \in Validator : validating[v] # Idle => validating[v].id # s
        /\ \A r \in Reviewer : reviewing[r] # Idle => reviewing[r].message.id # s
        /\ \A row \in rows : row.id = s /\ row.status = "PENDING" => Closing(row)
        /\ \A w \in checker.work : w.step # "update" => w.row.id # s
    BY <1>1 DEF Sound, UnderReview
  <1>3. ASSUME NEW t \in DOMAIN tickets, tickets[t].status = "OPEN", tickets[t].id = s
        PROVE  FALSE
    BY <1>1, <1>2, <1>3, OpenIsHeld
  <1>4. QED
    BY <1>2, <1>3

-----------------------------------------------------------------------------
(* What holds of all services                                               *)

\* An approval asks for the state approved.
LEMMA ApprovalAsks ==
  ASSUME Shape, NEW c \in Client, NEW s \in ServiceId, L!Approve(c, s)
  PROVE  calls'[c].state = "approved"
  <1>1. PICK t \in L!Matching("approve", lifecycle[s]) :
          calls' = [calls EXCEPT ![c] = [id |-> s, content |-> lifecycle[s].content,
                                         state |-> t.to]]
    BY DEF L!Approve, L!apply
  <1>2. t.to = "approved"
    BY <1>1 DEF L!Matching, L!FSM
  <1>3. QED
    BY <1>1, <1>2 DEF Shape, L!TypeOK

\* A rejection asks for the state rejected.
LEMMA RejectionAsks ==
  ASSUME Shape, NEW c \in Client, NEW s \in ServiceId, L!Reject(c, s)
  PROVE  calls'[c].state = "rejected"
  <1>1. PICK t \in L!Matching("reject", lifecycle[s]) :
          calls' = [calls EXCEPT ![c] = [id |-> s,
                      content |-> [lifecycle[s].content EXCEPT !.autoPublish = FALSE],
                      state |-> t.to]]
    BY DEF L!Reject, L!apply
  <1>2. t.to = "rejected"
    BY <1>1 DEF L!Matching, L!FSM
  <1>3. QED
    BY <1>1, <1>2 DEF Shape, L!TypeOK

\* A verdict starts with what is stored, or ends with or without a write.
LEMMA VerdictCalls ==
  ASSUME Shape, NEW c \in Client,
         \/ UNCHANGED lifecycleVars
         \/ L!Save(c) \/ L!SaveError(c)
         \/ \E s \in ServiceId : L!Approve(c, s) \/ L!Reject(c, s)
  PROVE  \A d \in Client \ {c} : calls'[d] = calls[d]
  <1>1. CASE UNCHANGED lifecycleVars
    BY <1>1 DEF lifecycleVars
  <1>2. CASE L!Save(c) \/ L!SaveError(c)
    BY <1>2, SaveFrame DEF Shape
  <1>3. CASE \E s \in ServiceId : L!Approve(c, s) \/ L!Reject(c, s)
    BY <1>3, VerdictStarts DEF Shape
  <1>4. QED
    BY <1>1, <1>2, <1>3

LEMMA RequestCommon ==
  ASSUME IInv, Common, StartRequest \/ EndRequest
  PROVE  Common'
  <1>1. UNCHANGED <<reviewing, tickets, rows, checker>>
    BY DEF StartRequest, EndRequest, workVars, trackVars
  <1>2. PICK u \in User :
          /\ \A d \in Client \ {u} : calls'[d] = calls[d]
          /\ \/ calls'[u] = calls[u] \/ calls'[u] = Idle
             \/ calls'[u].state \notin {"approved", "rejected"}
    <2>1. ASSUME NEW u \in User, NEW s \in ServiceId, L!UserRequest(u, s)
          PROVE  /\ \A d \in Client \ {u} : calls'[d] = calls[d]
                 /\ \/ calls'[u] = calls[u]
                    \/ calls'[u].state \notin {"approved", "rejected"}
      BY <2>1, OwnerAsks DEF IInv, Client
    <2>2. ASSUME NEW u \in User, L!Save(u) \/ L!SaveError(u)
          PROVE  (\A d \in Client \ {u} : calls'[d] = calls[d]) /\ calls'[u] = Idle
      BY <2>2, SaveFrame DEF IInv, Shape, Client, L!Save, L!SaveError, L!TypeOK
    <2>3. QED
      BY <2>1, <2>2 DEF StartRequest, EndRequest
  <1>3. /\ \A r \in Reviewer : calls'[r] = calls[r]
        /\ \A t \in Ticket : calls'[t] = calls[t]
    BY <1>2, OtherCalls, ClientAssumption DEF Client
  <1>4. Asking'
    BY <1>2 DEF Common, Asking, Client
  <1>5. Saving'
    BY <1>1, <1>3, Types DEF IInv, Common, Saving, At
  <1>6. QED
    BY <1>1, <1>4, <1>5 DEF Common, Addressed, Running, Asks

\* A step of the review changes no call of an owner.
LEMMA StillAsking ==
  ASSUME Common, NEW c \in Client, c \notin User,
         \A d \in Client \ {c} : calls'[d] = calls[d]
  PROVE  Asking'
  <1>1. \A u \in User : calls'[u] = calls[u]
    BY DEF Client
  <1>2. QED
    BY <1>1 DEF Common, Asking

LEMMA ValidationCommon ==
  ASSUME IInv, Common, NEW v \in Validator, Validation(v)
  PROVE  Common'
  <1>1. v \in Client /\ v \notin User /\ v \notin Reviewer /\ v \notin Ticket
    BY ClientAssumption DEF Client
  <1>2. UNCHANGED <<reviewing, tickets, rows, checker>>
    BY DEF Validation, PassOn, Validate, ValidateTooLate, EndValidation, trackVars
  <1>3. \A d \in Client \ {v} : calls'[d] = calls[d]
    <2>1. \/ UNCHANGED lifecycleVars
          \/ L!Save(v) \/ L!SaveError(v)
          \/ \E s \in ServiceId : L!Approve(v, s) \/ L!Reject(v, s)
      BY Types DEF IInv, Validation, PassOn, Validate, ValidateTooLate, EndValidation
    <2>2. QED
      BY <1>1, <2>1, VerdictCalls DEF IInv
  <1>4. /\ \A r \in Reviewer : calls'[r] = calls[r]
        /\ \A t \in Ticket : calls'[t] = calls[t]
    BY <1>1, <1>3, OtherCalls
  <1>5. Saving'
    BY <1>2, <1>4, Types DEF IInv, Common, Saving, At
  <1>6. QED
    BY <1>1, <1>2, <1>3, <1>5, StillAsking DEF Common, Addressed, Running, Asks

\* What a task looks like once it is started.
LEMMA Gone ==
  ASSUME Shape, NEW r \in Reviewer, NEW m \in Message, NEW step \in Step,
         NEW ticket \in 0..MaxTicket, Go(r, m, step, ticket)
  PROVE  /\ reviewing'[r] # Idle
         /\ reviewing'[r].message = m /\ reviewing'[r].step = step
         /\ reviewing'[r].ticket = ticket
         /\ \A q \in Reviewer \ {r} : reviewing'[q] = reviewing[q]
  <1>1. [message |-> m, step |-> step, ticket |-> ticket] \in Task
    BY DEF Task
  <1>2. reviewing'[r] = [message |-> m, step |-> step, ticket |-> ticket]
    BY DEF Go, Shape, TypeOK
  <1>3. QED
    BY <1>1, <1>2, MarkerAssumption DEF Go, Shape, TypeOK

\* The steps of a reviewer, each with what it leaves.
LEMMA SearchTask ==
  ASSUME Shape, NEW r \in Reviewer, NEW m \in requestReview, SearchTicket(r, m)
  PROVE  /\ m \in Message /\ m.id \in ServiceId /\ reviewing[r] = Idle
         /\ requestReview' = requestReview \ {m}
         /\ UNCHANGED <<lifecycle, calls, changed, requestValidation, validating,
                        tickets, rows, checker>>
         /\ reviewing'[r] # Idle /\ reviewing'[r].message = m
         /\ \A q \in Reviewer \ {r} : reviewing'[q] = reviewing[q]
         /\ \/ reviewing'[r].step = "create"
            \/ /\ reviewing'[r].step \in {"update", "insert"}
               /\ reviewing'[r].ticket \in PendingAndRejected(m.id)
               /\ reviewing'[r].step = "insert" =>
                    tickets[reviewing'[r].ticket].status # "REJECTED"
  <1>1. m \in Message /\ m.id \in ServiceId /\ reviewing[r] = Idle
    BY Types DEF SearchTicket
  <1>2. /\ requestReview' = requestReview \ {m}
        /\ UNCHANGED <<lifecycle, calls, changed, requestValidation, validating,
                       tickets, rows, checker>>
    BY DEF SearchTicket, lifecycleVars, trackVars
  <1>3. PICK step \in {"create", "update", "insert"}, ticket \in 0..MaxTicket :
          /\ Go(r, m, step, ticket)
          /\ step # "create" => ticket \in PendingAndRejected(m.id)
          /\ step = "insert" => tickets[ticket].status # "REJECTED"
    <2>1. CASE Go(r, m, "create", 0)
      BY <2>1, BoundAssumption
    <2>2. ASSUME NEW t \in PendingAndRejected(m.id),
                 Go(r, m, IF tickets[t].status = "REJECTED" THEN "update" ELSE "insert", t)
          PROVE  \E step \in {"update", "insert"} :
                   /\ Go(r, m, step, t) /\ t \in 0..MaxTicket
                   /\ step = "insert" => tickets[t].status # "REJECTED"
      <3>1. t \in 0..MaxTicket
        BY TicketsType DEF PendingAndRejected, Ticket
      <3>2. QED
        BY <2>2, <3>1
    <2>3. QED
      BY <2>1, <2>2 DEF SearchTicket
  <1>4. /\ reviewing'[r] # Idle
        /\ reviewing'[r].message = m /\ reviewing'[r].step = step
        /\ reviewing'[r].ticket = ticket
        /\ \A q \in Reviewer \ {r} : reviewing'[q] = reviewing[q]
    BY <1>1, <1>3, Gone DEF Step
  <1>5. QED
    BY <1>1, <1>2, <1>3, <1>4

LEMMA CreateTask ==
  ASSUME Shape, NEW r \in Reviewer, CreateTicket(r)
  PROVE  LET m == reviewing[r].message
             n == Len(tickets) + 1
         IN  /\ reviewing[r] # Idle /\ reviewing[r].step = "create"
             /\ m \in Message /\ m.id \in ServiceId
             /\ UNCHANGED <<lifecycle, calls, changed, requestValidation,
                            requestReview, validating, rows, checker>>
             /\ reviewing'[r] # Idle /\ reviewing'[r].message = m
             /\ reviewing'[r].step = "insert" /\ reviewing'[r].ticket = n
             /\ \A q \in Reviewer \ {r} : reviewing'[q] = reviewing[q]
             /\ DOMAIN tickets' = DOMAIN tickets \cup {n} /\ n \notin DOMAIN tickets
             /\ tickets'[n].id = m.id /\ tickets'[n].version = m.version
             /\ \A t \in DOMAIN tickets : tickets'[t] = tickets[t]
  <1> DEFINE m == reviewing[r].message
             n == Len(tickets) + 1
             new == [id |-> m.id, version |-> m.version, status |-> "OPEN"]
  <1>1. reviewing[r] # Idle /\ reviewing[r].step = "create"
        /\ m \in Message /\ m.id \in ServiceId
    BY Types DEF CreateTicket, At
  <1>2. /\ UNCHANGED <<lifecycle, calls, changed, requestValidation, requestReview,
                       validating, rows, checker>>
        /\ tickets' = Append(tickets, new)
        /\ Len(tickets) < MaxTicket
        /\ Go(r, m, "insert", n)
    BY DEF CreateTicket, lifecycleVars
  <1>3. n \in 0..MaxTicket /\ n \notin DOMAIN tickets
    BY <1>2, TicketsType, BoundAssumption
  <1>4. /\ reviewing'[r] # Idle
        /\ reviewing'[r].message = m /\ reviewing'[r].step = "insert"
        /\ reviewing'[r].ticket = n
        /\ \A q \in Reviewer \ {r} : reviewing'[q] = reviewing[q]
    BY <1>1, <1>2, <1>3, Gone DEF Step
  <1>5. /\ DOMAIN tickets' = DOMAIN tickets \cup {n}
        /\ tickets'[n] = new
        /\ \A t \in DOMAIN tickets : tickets'[t] = tickets[t]
    <2>1. tickets \in Seq(TicketType) /\ Len(tickets) \in Nat
      BY TicketsType
    <2> HIDE DEF new
    <2>2. QED
      BY <1>2, <2>1
  <1>6. new.id = m.id /\ new.version = m.version
    OBVIOUS
  <1> HIDE DEF new, n, m
  <1>7. QED
    BY <1>1, <1>2, <1>3, <1>4, <1>5, <1>6 DEF n, m

\* The ticket of a reviewer is changed: updated, or reopened.
LEMMA TicketTask ==
  ASSUME Shape, Common, NEW r \in Reviewer, UpdateTicket(r) \/ ReopenTicket(r)
  PROVE  LET m == reviewing[r].message
             t == reviewing[r].ticket
         IN  /\ reviewing[r] # Idle
             /\ m \in Message /\ m.id \in ServiceId
             /\ t \in DOMAIN tickets /\ tickets[t].id = m.id
             /\ UNCHANGED <<lifecycle, calls, changed, requestValidation,
                            requestReview, validating, rows, checker>>
             /\ reviewing'[r] # Idle /\ reviewing'[r].message = m
             /\ reviewing'[r].ticket = t
             /\ \A q \in Reviewer \ {r} : reviewing'[q] = reviewing[q]
             /\ DOMAIN tickets' = DOMAIN tickets
             /\ \A k \in DOMAIN tickets \ {t} : tickets'[k] = tickets[k]
             /\ tickets'[t].id = m.id
             /\ \/ /\ reviewing[r].step = "update" /\ reviewing'[r].step = "reopen"
                   /\ tickets'[t].version = m.version
                   /\ tickets'[t].status = tickets[t].status
                \/ /\ reviewing[r].step = "reopen" /\ reviewing'[r].step = "insert"
                   /\ tickets'[t].version = tickets[t].version
  <1> DEFINE m == reviewing[r].message
             t == reviewing[r].ticket
             next == IF At(r, "update") THEN "reopen" ELSE "insert"
  <1>1. /\ reviewing[r] # Idle /\ m \in Message /\ m.id \in ServiceId
        /\ t \in DOMAIN tickets /\ t \in 0..MaxTicket
        /\ tickets[t] \in TicketType
        /\ tickets[t].id = m.id
    <2>1. reviewing[r] # Idle /\ m \in Message /\ m.id \in ServiceId
          /\ reviewing[r].step \in {"update", "reopen"}
      BY Types DEF UpdateTicket, ReopenTicket, At
    <2>2. t \in DOMAIN tickets
      BY <2>1 DEF Shape
    <2>3. tickets[t].id = m.id
      BY <2>1 DEF Common, Addressed, Asks
    <2>4. QED
      BY <2>1, <2>2, <2>3, TicketsType DEF Ticket
  <1>2. /\ UNCHANGED <<lifecycle, calls, changed, requestValidation, requestReview,
                       validating, rows, checker>>
        /\ Go(r, m, next, t)
    BY DEF UpdateTicket, ReopenTicket, lifecycleVars, At
  <1>3. /\ reviewing'[r] # Idle
        /\ reviewing'[r].message = m /\ reviewing'[r].step = next
        /\ reviewing'[r].ticket = t
        /\ \A q \in Reviewer \ {r} : reviewing'[q] = reviewing[q]
    BY <1>1, <1>2, Gone DEF Step
  <1>4. /\ DOMAIN tickets' = DOMAIN tickets
        /\ \A k \in DOMAIN tickets \ {t} : tickets'[k] = tickets[k]
        /\ tickets'[t].id = m.id
        /\ \/ /\ reviewing[r].step = "update" /\ next = "reopen"
              /\ tickets'[t].version = m.version
              /\ tickets'[t].status = tickets[t].status
           \/ /\ reviewing[r].step = "reopen" /\ next = "insert"
              /\ tickets'[t].version = tickets[t].version
    <2>1. tickets \in Seq(TicketType)
      BY TicketsType
    <2>2. CASE UpdateTicket(r)
      <3>1. tickets' = [tickets EXCEPT ![t].version = m.version] /\ At(r, "update")
        BY <2>2 DEF UpdateTicket
      <3>2. QED
        BY <1>1, <2>1, <3>1 DEF TicketType, At
    <2>3. CASE ReopenTicket(r)
      <3>1. tickets' = [tickets EXCEPT ![t].status = "OPEN"] /\ At(r, "reopen")
        BY <2>3 DEF ReopenTicket
      <3>2. QED
        BY <1>1, <2>1, <3>1 DEF TicketType, At
    <2>4. QED
      BY <2>2, <2>3
  <1> HIDE DEF m, t, next
  <1>5. QED
    BY <1>1, <1>2, <1>3, <1>4 DEF m, t

\* A task that is over leaves the others.
LEMMA DoneTask ==
  ASSUME Shape, NEW r \in Reviewer, reviewing' = [reviewing EXCEPT ![r] = Idle]
  PROVE  reviewing'[r] = Idle /\ \A q \in Reviewer \ {r} : reviewing'[q] = reviewing[q]
  BY DEF Shape, TypeOK

LEMMA AutoTask ==
  ASSUME Shape, NEW r \in Reviewer, NEW m \in requestReview, AutoApprove(r, m)
  PROVE  /\ m \in Message /\ m.id \in ServiceId /\ reviewing[r] = Idle
         /\ requestReview' = requestReview \ {m}
         /\ UNCHANGED <<lifecycle, changed, requestValidation, validating,
                        tickets, rows, checker>>
         /\ calls'[r].state = "approved"
         /\ reviewing'[r] # Idle /\ reviewing'[r].message = m
         /\ reviewing'[r].step = "approve"
         /\ \A q \in Reviewer \ {r} : reviewing'[q] = reviewing[q]
  <1>1. m \in Message /\ m.id \in ServiceId /\ reviewing[r] = Idle /\ r \in Client
    BY Types DEF AutoApprove, Client
  <1>2. UNCHANGED lifecycle /\ calls'[r].state = "approved"
    BY <1>1, VerdictStarts, ApprovalAsks DEF AutoApprove, Shape
  <1>3. /\ requestReview' = requestReview \ {m}
        /\ UNCHANGED <<changed, requestValidation, validating, tickets, rows, checker>>
    BY DEF AutoApprove, trackVars
  <1>4. /\ reviewing'[r] # Idle
        /\ reviewing'[r].message = m /\ reviewing'[r].step = "approve"
        /\ \A q \in Reviewer \ {r} : reviewing'[q] = reviewing[q]
    BY <1>1, Gone, BoundAssumption DEF AutoApprove, Step
  <1>5. QED
    BY <1>1, <1>2, <1>3, <1>4

LEMMA ReviewCommon ==
  ASSUME IInv, Common, NEW r \in Reviewer, Review(r)
  PROVE  Common'
  <1>1. r \in Client /\ r \notin User /\ r \notin Ticket /\ Shape
    BY ClientAssumption DEF Client, IInv
  <1>2. UNCHANGED checker
    BY DEF Review, SearchTicket, AutoApprove, AutoApproveTooLate, CreateTicket,
           UpdateTicket, ReopenTicket, InsertRow, EndAutoApprove, FailReview
  <1>3. \A d \in Client \ {r} : calls'[d] = calls[d]
    <2>1. \/ UNCHANGED lifecycleVars
          \/ L!Save(r) \/ L!SaveError(r)
          \/ \E s \in ServiceId : L!Approve(r, s) \/ L!Reject(r, s)
      BY <1>1, Types DEF Review, SearchTicket, AutoApprove, AutoApproveTooLate,
         CreateTicket, UpdateTicket, ReopenTicket, InsertRow, EndAutoApprove, FailReview
    <2>2. QED
      BY <1>1, <2>1, VerdictCalls
  <1>4. \A t \in Ticket : calls'[t] = calls[t]
    BY <1>1, <1>3, OtherCalls
  <1>5. ASSUME \A q \in Reviewer \ {r} : reviewing'[q] = reviewing[q],
               At(r, "approve")' => calls'[r].state = "approved",
               Asks(r, {"update", "reopen", "insert"})' =>
                 tickets'[reviewing'[r].ticket].id = reviewing'[r].message.id,
               \A t \in DOMAIN tickets : tickets'[t].id = tickets[t].id,
               rows \subseteq rows',
               \A row \in rows' : row \in rows \/ tickets'[row.ticket].id = row.id
        PROVE  Common'
    <2>1. Asking'
      BY <1>1, <1>3, StillAsking
    <2>2. Saving'
      <3>1. \A q \in Reviewer \ {r} : At(q, "approve")' =>
              At(q, "approve") /\ calls'[q] = calls[q]
        BY <1>3, <1>5 DEF At, Client
      <3>2. QED
        BY <1>1, <1>2, <1>4, <1>5, <3>1, Types DEF Common, Saving
    <2>3. Addressed'
      <3>1. ASSUME NEW q \in Reviewer \ {r}, Asks(q, {"update", "reopen", "insert"})'
            PROVE  tickets'[reviewing'[q].ticket].id = reviewing'[q].message.id
        <4>1. Asks(q, {"update", "reopen", "insert"}) /\ reviewing'[q] = reviewing[q]
          BY <1>5, <3>1 DEF Asks
        <4>2. reviewing[q].ticket \in DOMAIN tickets
          BY <1>1, <4>1 DEF Shape, Asks
        <4>3. QED
          BY <1>5, <4>1, <4>2 DEF Common, Addressed
      <3>2. \A row \in rows' : tickets'[row.ticket].id = row.id
        BY <1>1, <1>5, Types DEF Common, Addressed
      <3>3. QED
        BY <1>5, <3>1, <3>2 DEF Addressed
    <2>4. Running'
      BY <1>2, <1>5 DEF Common, Running
    <2>5. QED
      BY <2>1, <2>2, <2>3, <2>4 DEF Common
  <1>6. ASSUME NEW m \in requestReview, SearchTicket(r, m)
        PROVE  Common'
    <2>1. Asks(r, {"update", "reopen", "insert"})' =>
            tickets[reviewing'[r].ticket].id = reviewing'[r].message.id
      BY <1>1, <1>6, SearchTask DEF Asks, PendingAndRejected
    <2>2. QED
      BY <1>1, <1>5, <1>6, <2>1, SearchTask DEF At
  <1>7. CASE CreateTicket(r)
    BY <1>1, <1>5, <1>7, CreateTask DEF At
  <1>8. CASE UpdateTicket(r) \/ ReopenTicket(r)
    <2>1. \A t \in DOMAIN tickets : tickets'[t].id = tickets[t].id
      BY <1>1, <1>8, TicketTask
    <2>2. QED
      BY <1>1, <1>5, <1>8, <2>1, TicketTask DEF At
  <1>9. ASSUME NEW fault, InsertRow(r, fault)
        PROVE  Common'
    <2> DEFINE new == [id |-> reviewing[r].message.id, version |-> reviewing[r].message.version,
                       ticket |-> reviewing[r].ticket, status |-> "PENDING"]
    <2>1. tickets[reviewing[r].ticket].id = reviewing[r].message.id
      BY <1>9 DEF InsertRow, At, Asks, Common, Addressed
    <2>2. reviewing'[r] = Idle /\ \A q \in Reviewer \ {r} : reviewing'[q] = reviewing[q]
      BY <1>1, <1>9, DoneTask DEF InsertRow
    <2>3. new.id = reviewing[r].message.id /\ new.ticket = reviewing[r].ticket
      OBVIOUS
    <2>4. (rows' = rows \/ rows' = rows \cup {new}) /\ tickets' = tickets
      BY <1>9 DEF InsertRow
    <2> HIDE DEF new
    <2>5. \A row \in rows' : row \in rows \/ tickets'[row.ticket].id = row.id
      BY <2>1, <2>3, <2>4
    <2>6. QED
      BY <1>5, <2>2, <2>4, <2>5 DEF At, Asks
  <1>10. ASSUME NEW m \in requestReview, AutoApprove(r, m)
         PROVE  Common'
    BY <1>1, <1>5, <1>10, AutoTask DEF At, Asks
  <1>11. ASSUME NEW m \in requestReview, AutoApproveTooLate(r, m)
         PROVE  Common'
    <2>1. UNCHANGED <<calls, reviewing, tickets, rows>>
      BY <1>11 DEF AutoApproveTooLate, lifecycleVars, trackVars
    <2>2. QED
      BY <1>5, <2>1 DEF Common, Saving, Addressed, At, Asks
  <1>12. CASE EndAutoApprove(r) \/ FailReview(r)
    <2>1. reviewing'[r] = Idle /\ \A q \in Reviewer \ {r} : reviewing'[q] = reviewing[q]
      BY <1>1, <1>12, DoneTask DEF EndAutoApprove, FailReview
    <2>2. UNCHANGED <<tickets, rows>>
      BY <1>12 DEF EndAutoApprove, FailReview, trackVars
    <2>3. QED
      BY <1>5, <2>1, <2>2 DEF At, Asks
  <1>13. QED
    BY <1>6, <1>7, <1>8, <1>9, <1>10, <1>11, <1>12 DEF Review

\* An operator changes the status of a ticket.
LEMMA DecideTicket ==
  ASSUME Shape, NEW t \in DOMAIN tickets, NEW verdict, Decide(t, verdict),
         verdict \in {"APPROVED", "REJECTED"}
  PROVE  /\ UNCHANGED <<lifecycle, calls, changed, requestValidation, requestReview,
                        validating, reviewing, rows, checker>>
         /\ DOMAIN tickets' = DOMAIN tickets
         /\ \A k \in DOMAIN tickets : /\ tickets'[k].id = tickets[k].id
                                      /\ tickets'[k].version = tickets[k].version
                                      /\ k # t => tickets'[k] = tickets[k]
         /\ tickets'[t].status = verdict
         /\ tickets[t].status = "OPEN"
  <1>1. UNCHANGED <<lifecycle, calls, changed, requestValidation, requestReview,
                    validating, reviewing, rows, checker>>
    BY DEF Decide, lifecycleVars, workVars
  <1>2. tickets' = [tickets EXCEPT ![t].status = verdict] /\ tickets[t].status = "OPEN"
    BY DEF Decide
  <1>3. tickets \in Seq(TicketType) /\ \A k \in DOMAIN tickets : tickets[k] \in TicketType
    BY TicketsType
  <1>4. QED
    BY <1>1, <1>2, <1>3 DEF TicketType

LEMMA DecideCommon ==
  ASSUME IInv, Common, NEW t \in DOMAIN tickets, Operator(t)
  PROVE  Common'
  <1>1. PICK verdict \in {"APPROVED", "REJECTED"} : Decide(t, verdict)
    BY DEF Operator
  <1>2. /\ UNCHANGED <<calls, reviewing, rows, checker>>
        /\ \A k \in DOMAIN tickets : tickets'[k].id = tickets[k].id
    BY <1>1, DecideTicket DEF IInv
  <1>3. Asking' /\ Saving' /\ Running'
    BY <1>2 DEF Common, Asking, Saving, Running, At
  <1>4. Addressed'
    <2>1. \A r \in Reviewer : Asks(r, {"update", "reopen", "insert"}) =>
            reviewing[r].ticket \in DOMAIN tickets
      BY DEF IInv, Shape, Asks
    <2>2. \A r \in Reviewer : \A steps : Asks(r, steps)' <=> Asks(r, steps)
      BY <1>2 DEF Asks
    <2>3. QED
      BY <1>2, <2>1, <2>2, Types DEF IInv, Common, Addressed
  <1>5. QED
    BY <1>3, <1>4 DEF Common

\* A work on its way: nothing of it changes but its step.
LEMMA Advanced ==
  ASSUME Shape, NEW w \in checker.work, NEW step, Advance(w, step)
  PROVE  \E x : /\ checker'.work = (checker.work \ {w}) \cup {x}
                /\ checker'.rows = checker.rows
                /\ x.step = step /\ x.ticket = w.ticket
                /\ x.row = w.row /\ x.verdict = w.verdict
  <1>1. w \in Work
    BY DEF Shape, TypeOK
  <1>2. checker' = [checker EXCEPT !.work = (@ \ {w}) \cup {[w EXCEPT !.step = step]}]
    BY DEF Advance
  <1>3. /\ checker'.work = (checker.work \ {w}) \cup {[w EXCEPT !.step = step]}
        /\ checker'.rows = checker.rows
    BY <1>2 DEF Shape, TypeOK
  <1>4. LET x == [w EXCEPT !.step = step]
        IN  x.step = step /\ x.ticket = w.ticket /\ x.row = w.row /\ x.verdict = w.verdict
    BY <1>1 DEF Work
  <1>5. QED
    BY <1>3, <1>4

\* The works the checker starts with.
LEMMA StartedWork ==
  ASSUME Common, SearchDecided
  PROVE  /\ checker.work = {} /\ checker'.rows = {}
         /\ \A w \in checker'.work :
              /\ w.step = "apply" /\ w.row \in checker.rows /\ w.row.ticket = w.ticket
              /\ tickets[w.ticket].status = w.verdict
  <1> DEFINE decided == {t \in {row.ticket : row \in checker.rows} :
                           tickets[t].status \in {"APPROVED", "REJECTED"}}
  <1>1. PICK item \in [decided -> checker.rows] :
          /\ \A t \in decided : item[t].ticket = t
          /\ checker' = [rows |-> {},
                         work |-> {[ticket |-> t, row |-> item[t], step |-> "apply",
                                    verdict |-> tickets[t].status] : t \in decided}]
    BY DEF SearchDecided
  <1>2. /\ checker'.work = {[ticket |-> t, row |-> item[t], step |-> "apply",
                             verdict |-> tickets[t].status] : t \in decided}
        /\ checker'.rows = {}
    BY <1>1
  <1>3. checker.work = {}
    BY DEF SearchDecided, Common, Running
  <1> HIDE DEF decided
  <1>4. QED
    BY <1>1, <1>2, <1>3

LEMMA CheckerCommon ==
  ASSUME IInv, Common, Checker
  PROVE  Common'
  <1>1. UNCHANGED <<reviewing, tickets>> /\ Shape
    BY DEF Checker, ReadPending, SearchDecided, FailSearch, ApplyVerdict,
           SaveVerdict, UpdateStatus, workVars, trackVars, IInv
  <1>2. ASSUME UNCHANGED <<calls, rows>>,
               \A w \in checker'.work : w.step # "save" /\ w.row.ticket = w.ticket,
               \A row \in checker'.rows : row \in rows /\ row.status = "PENDING",
               checker'.rows # {} => checker'.work = {}
        PROVE  Common'
    BY <1>1, <1>2 DEF Common, Asking, Saving, Addressed, Running, At, Asks
  <1>3. CASE ReadPending
    <2>1. /\ UNCHANGED <<calls, rows>> /\ checker'.work = {}
          /\ checker'.rows = {row \in rows : row.status = "PENDING"}
      BY <1>3 DEF ReadPending, NoRun, lifecycleVars, trackVars
    <2>2. QED
      BY <1>2, <2>1
  <1>4. CASE SearchDecided
    <2>1. UNCHANGED <<calls, rows>>
      BY <1>4 DEF SearchDecided, lifecycleVars, trackVars
    <2>2. QED
      BY <1>2, <1>4, <2>1, StartedWork
  <1>5. CASE FailSearch
    <2>1. UNCHANGED <<calls, rows>> /\ checker'.work = {} /\ checker'.rows = {}
      BY <1>5 DEF FailSearch, NoRun, lifecycleVars, trackVars
    <2>2. QED
      BY <1>2, <2>1
  <1>6. ASSUME NEW w \in checker.work,
               ApplyVerdict(w) \/ SaveVerdict(w) \/ UpdateStatus(w)
        PROVE  Common'
    <2>1. /\ w.ticket \in Ticket /\ w.ticket \in Client /\ w.row.id \in ServiceId
          /\ w.ticket \notin User /\ w.ticket \notin Reviewer
          /\ w.verdict \in {"APPROVED", "REJECTED"}
      BY <1>1, Types, ClientAssumption DEF Client, Work
    <2>2. \A d \in Client \ {w.ticket} : calls'[d] = calls[d]
      BY <1>1, <1>6, <2>1, VerdictCalls
      DEF ApplyVerdict, SaveVerdict, UpdateStatus
    <2>3. /\ \A y \in checker.work \ {w} : calls'[y.ticket] = calls[y.ticket]
          /\ \A r \in Reviewer : calls'[r] = calls[r]
      <3>1. \A y \in checker.work \ {w} : y.ticket # w.ticket /\ y.ticket \in Client
        BY <1>1, Types DEF IInv, Verdicts, CheckerCalls, Client
      <3>2. QED
        BY <2>1, <2>2, <3>1 DEF Client
    <2>4. Asking'
      BY <2>1, <2>2, StillAsking
    <2>5. /\ checker.rows = {} /\ checker'.rows = {}
          /\ \/ checker'.work = checker.work \ {w}
             \/ \E x : /\ checker'.work = (checker.work \ {w}) \cup {x}
                       /\ x.row.ticket = x.ticket
                       /\ x.step = "save" =>
                            (calls'[x.ticket].state = "approved" <=> x.verdict = "APPROVED")
      <3>1. checker.rows = {}
        BY DEF Common, Running
      <3>2. CASE Drop(w)
        <4>1. checker'.work = checker.work \ {w} /\ checker'.rows = checker.rows
          BY <1>1, <3>2 DEF Drop, Shape, TypeOK
        <4>2. QED
          BY <3>1, <4>1
      <3>3. ASSUME NEW step, Advance(w, step),
                   step = "save" => (calls'[w.ticket].state = "approved"
                                       <=> w.verdict = "APPROVED")
            PROVE  /\ checker'.rows = {}
                   /\ \E x : /\ checker'.work = (checker.work \ {w}) \cup {x}
                             /\ x.row.ticket = x.ticket
                             /\ x.step = "save" =>
                                  (calls'[x.ticket].state = "approved"
                                     <=> x.verdict = "APPROVED")
        <4>1. PICK x : /\ checker'.work = (checker.work \ {w}) \cup {x}
                       /\ checker'.rows = checker.rows
                       /\ x.step = step /\ x.ticket = w.ticket
                       /\ x.row = w.row /\ x.verdict = w.verdict
          BY <1>1, <3>3, Advanced
        <4>2. w.row.ticket = w.ticket
          BY DEF Common, Running
        <4>3. QED
          BY <3>1, <3>3, <4>1, <4>2
      <3>4. CASE ApplyVerdict(w)
        <4>1. ASSUME IF w.verdict = "APPROVED" THEN L!Approve(w.ticket, w.row.id)
                                               ELSE L!Reject(w.ticket, w.row.id)
              PROVE  calls'[w.ticket].state = "approved" <=> w.verdict = "APPROVED"
          BY <1>1, <2>1, <4>1, ApprovalAsks, RejectionAsks
        <4>2. \/ Drop(w)
              \/ \E step : /\ Advance(w, step)
                           /\ step = "save" => (calls'[w.ticket].state = "approved"
                                                  <=> w.verdict = "APPROVED")
          BY <3>4, <4>1 DEF ApplyVerdict
        <4>3. QED
          BY <3>1, <3>2, <3>3, <4>2
      <3>5. CASE SaveVerdict(w)
        BY <3>1, <3>2, <3>3, <3>5 DEF SaveVerdict
      <3>6. QED
        BY <1>6, <3>2, <3>4, <3>5 DEF UpdateStatus
    <2>6. Saving'
      BY <1>1, <2>3, <2>5 DEF Common, Saving, At
    <2>7. Running'
      BY <2>5 DEF Common, Running
    <2>8. Addressed'
      <3>1. \A row \in rows' : \E old \in rows : row.id = old.id /\ row.ticket = old.ticket
        <4>1. CASE rows' = rows
          BY <4>1
        <4>2. \A row \in rows : row \in Row
          BY <1>1, Types
        <4>3. CASE rows' = {IF row.id = w.row.id /\ row.version = w.row.version
                            THEN [row EXCEPT !.status = w.verdict] ELSE row : row \in rows}
          <5>1. ASSUME NEW x \in rows'
                PROVE  \E old \in rows : x.id = old.id /\ x.ticket = old.ticket
            <6>1. PICK row \in rows :
                    x = IF row.id = w.row.id /\ row.version = w.row.version
                        THEN [row EXCEPT !.status = w.verdict] ELSE row
              BY <4>3
            <6>2. x.id = row.id /\ x.ticket = row.ticket
              BY <4>2, <6>1 DEF Row
            <6>3. QED
              BY <6>2
          <5>2. QED
            BY <5>1
        <4>4. QED
          BY <1>6, <4>1, <4>3 DEF ApplyVerdict, SaveVerdict, UpdateStatus, trackVars
      <3>2. \A row \in rows' : tickets[row.ticket].id = row.id
        BY <3>1 DEF Common, Addressed
      <3>3. QED
        BY <1>1, <3>2 DEF Common, Addressed, Asks
    <2>9. QED
      BY <2>4, <2>6, <2>7, <2>8 DEF Common
  <1>7. QED
    BY <1>3, <1>4, <1>5, <1>6 DEF Checker

LEMMA CommonStep == IInv /\ Common /\ [Next]_vars => Common'
  <1> SUFFICES ASSUME IInv, Common, [Next]_vars PROVE Common'
    OBVIOUS
  <1>1. CASE UNCHANGED <<calls, reviewing, tickets, rows, checker>>
    BY <1>1 DEF Common, Asking, Saving, Addressed, Running, At, Asks
  <1>2. ASSUME NEW s \in ServiceId, NEW fault, Watch(s, fault)
        PROVE  Common'
    BY <1>1, <1>2 DEF Watch, lifecycleVars, trackVars
  <1>3. CASE UNCHANGED vars
    BY <1>1, <1>3 DEF vars, lifecycleVars, workVars, trackVars
  <1>4. QED
    BY <1>2, <1>3, RequestCommon, ValidationCommon, ReviewCommon, DecideCommon,
       CheckerCommon DEF Next

-----------------------------------------------------------------------------
(* The way of a submission through the queues                               *)

LEMMA RequestSound ==
  ASSUME IInv, Latest, Common, NEW s \in ServiceId, Sound(s), Steady(s)',
         StartRequest \/ EndRequest
  PROVE  Sound(s)'
  <1>1. /\ UNCHANGED <<requestValidation, requestReview, validating, reviewing,
                       tickets, rows, checker>>
        /\ Feed
    BY DEF StartRequest, EndRequest, workVars, trackVars
  <1>2. ASSUME lifecycle'[s] = lifecycle[s]
        PROVE  Sound(s)'
    <2>1. Aside(s)
      BY <1>1, <1>2 DEF Aside, Feed
    <2>2. QED
      BY <2>1, AsideSound DEF IInv
  <1>3. ASSUME NEW z \in ServiceId, NEW state, Wrote(z, state),
               \/ state \notin {"approved", "rejected"}
               \/ lifecycle[z] # NoItem /\ state = lifecycle[z].state
        PROVE  Sound(s)'
    <2>1. CASE z = s
      <3>1. L!Status[s] # "submitted"
        BY <1>3, <2>1, WritesOrderly DEF L!Status, Steady, IInv
      <3>2. QED
        BY <1>1, <1>3, <2>1, <3>1, NotUnderReview, WriteSound DEF Closing
    <2>2. CASE z # s
      BY <1>2, <1>3, <2>2 DEF Wrote
    <2>3. QED
      BY <2>1, <2>2
  <1>4. CASE StartRequest
    <2>1. PICK u \in User, z \in ServiceId : L!UserRequest(u, z)
      BY <1>4 DEF StartRequest
    <2>2. u \in Client
      BY DEF Client
    <2>3. QED
      BY <1>2, <1>3, <2>1, <2>2, OwnerAsks DEF IInv
  <1>5. CASE EndRequest
    <2>1. PICK u \in User : L!Save(u) \/ L!SaveError(u)
      BY <1>5 DEF EndRequest
    <2>2. u \in Client
      BY DEF Client
    <2>3. CASE L!Save(u)
      <3>1. /\ calls[u] # Idle /\ calls[u].id \in ServiceId
            /\ Wrote(calls[u].id, calls[u].state)
        BY <2>2, <2>3, SaveWrites DEF IInv
      <3>2. calls[u].state \notin {"approved", "rejected"}
        BY <3>1 DEF Common, Asking
      <3>3. QED
        BY <1>3, <3>1, <3>2
    <2>4. CASE L!SaveError(u)
      BY <1>2, <2>4 DEF L!SaveError
    <2>5. QED
      BY <2>1, <2>3, <2>4
  <1>6. QED
    BY <1>4, <1>5

LEMMA WatchSound ==
  ASSUME IInv, Common, NEW s \in ServiceId, Sound(s), faults'[s] = 0,
         NEW z \in ServiceId, NEW fault, Watch(z, fault)
  PROVE  Sound(s)'
  <1> DEFINE m == [id |-> z, version |-> lifecycle[z].version, dequeueCount |-> 0]
  <1>1. UNCHANGED <<lifecycle, requestReview, validating, reviewing, tickets, rows, checker>>
    BY DEF Watch, lifecycleVars, trackVars
  <1>2. /\ \A k \in requestValidation' :
             k \in requestValidation \/ (k = m /\ Current(z, m.version))
        /\ changed' \subseteq changed
    BY DEF Watch, Current, L!Status, IInv, Shape
  <1>3. m.id = z
    OBVIOUS
  <1> HIDE DEF m
  <1>4. CASE z # s
    <2>1. Aside(s)
      BY <1>1, <1>2, <1>3, <1>4 DEF Aside
    <2>2. QED
      BY <2>1, AsideSound DEF IInv
  <1>5. CASE z = s
    <2>1. changed' = changed \ {s} /\ s \in changed
      BY <1>5, NoFaultOf DEF Watch, May, IInv
    <2>2. \A n : Current(s, n)' <=> Current(s, n)
      BY <1>1, Still
    <2>3. UnderReview(s)'
      BY <1>1, <1>2, <1>5, <2>2 DEF Sound, UnderReview, Closing, Current, L!Status
    <2>4. Alone(s)'
      <3>1. <<"changed", s>> \in Holders(s)
        BY <2>1 DEF Holders
      <3>2. ASSUME NEW h \in Holders(s)'
            PROVE  h = <<"validation", m>> \/ (h \in Holders(s) /\ h # <<"changed", s>>)
        BY <1>1, <1>2, <1>5, <2>1, <2>2 DEF Holders
      <3>3. QED
        BY <3>1, <3>2, PassedOn DEF Sound
    <2>5. Ticketed(s)' /\ Checked(s)'
      BY <1>1 DEF Sound, Ticketed, Checked, Asks, Current, L!Status
    <2>6. QED
      BY <2>3, <2>4, <2>5 DEF Sound
  <1>6. QED
    BY <1>4, <1>5

\* A handler saves the verdict on the service in its hands, and nobody else has it.
LEMMA HandSound ==
  ASSUME IInv, Common, NEW s \in ServiceId, Sound(s),
         NEW state, Wrote(s, state), NEW h \in Holders(s),
         \A x : h # <<"row", x>> /\ h # <<"validation", x>> /\ h # <<"review", x>>,
         \A r \in Reviewer : h = <<"reviewer", r>> => reviewing[r].step # "insert",
         UNCHANGED <<requestValidation, requestReview, tickets, rows, checker>>,
         \A v \in Validator :
           validating'[v] = IF h = <<"validator", v>> THEN Idle ELSE validating[v],
         \A r \in Reviewer :
           reviewing'[r] = IF h = <<"reviewer", r>> THEN Idle ELSE reviewing[r]
  PROVE  Sound(s)'
  <1>1. /\ \A m \in requestValidation \cup requestReview : m.id # s
        /\ \A v \in Validator : validating'[v] # Idle => validating'[v].id # s
        /\ \A r \in Reviewer : reviewing'[r] # Idle => reviewing'[r].message.id # s
        /\ \A row \in rows : ~ (row.id = s /\ Current(s, row.version))
    BY HeldBy
  <1>2. \A t \in DOMAIN tickets : tickets[t].status = "OPEN" => tickets[t].id # s
    BY <1>1, HeldBy, OpenIsHeld
  <1>3. /\ \A row \in rows : row.id = s /\ row.status = "PENDING" => Closing(row)'
        /\ \A w \in checker'.work : w.step # "update" => w.row.id # s
    BY <1>1 DEF Sound, UnderReview, Closing, Checked
  <1>4. QED
    BY <1>1, <1>2, <1>3, WriteSound

LEMMA ValidationSound ==
  ASSUME IInv, Common, NEW s \in ServiceId, Sound(s), faults'[s] = 0,
         NEW v \in Validator, Validation(v)
  PROVE  Sound(s)'
  <1>1. UNCHANGED <<reviewing, tickets, rows, checker>> /\ v \in Client /\ Shape
    BY DEF Validation, PassOn, Validate, ValidateTooLate, EndValidation, trackVars,
           Client, IInv
  <1>2. ASSUME UNCHANGED lifecycle
        PROVE  /\ \A n : Current(s, n)' <=> Current(s, n)
               /\ Ticketed(s)' /\ Checked(s)'
    BY <1>1, <1>2 DEF Sound, Ticketed, Checked, Asks, Current, L!Status
  <1>3. ASSUME NEW m \in requestValidation, NEW fault, PassOn(v, m, fault)
        PROVE  Sound(s)'
    <2> DEFINE n == [m EXCEPT !.dequeueCount = 0]
    <2>1. m \in Message /\ n.id = m.id /\ n.version = m.version
      BY <1>1, Types DEF Message
    <2>2. /\ requestReview' = requestReview \cup {n}
          /\ requestValidation' = IF fault THEN PutBack(requestValidation \ {m}, m)
                                  ELSE requestValidation \ {m}
          /\ UNCHANGED <<lifecycle, changed, validating>>
      BY <1>3 DEF PassOn, lifecycleVars
    <2> HIDE DEF n
    <2>3. CASE m.id # s
      <3>1. \A k \in requestValidation' : k.id = s => k \in requestValidation
        BY <2>1, <2>2, <2>3, PutBackKeeps
      <3>2. Aside(s)
        BY <1>1, <2>1, <2>2, <2>3, <3>1 DEF Aside
      <3>3. QED
        BY <1>1, <3>2, AsideSound
    <2>4. CASE m.id = s
      <3>1. requestValidation' = requestValidation \ {m}
        BY <1>1, <1>3, <2>2, <2>4, NoFaultOf DEF PassOn, May
      <3>2. UnderReview(s)'
        BY <1>1, <2>1, <2>2, <2>4, <3>1 DEF Sound, UnderReview, Closing, Current, L!Status
      <3>3. Alone(s)'
        <4>1. <<"validation", m>> \in Holders(s)
          BY <2>4 DEF Holders
        <4>2. ASSUME NEW h \in Holders(s)'
              PROVE  h = <<"review", n>> \/ (h \in Holders(s) /\ h # <<"validation", m>>)
          BY <1>1, <1>2, <2>2, <3>1 DEF Holders
        <4>3. QED
          BY <4>1, <4>2, PassedOn DEF Sound
      <3>4. QED
        BY <1>2, <2>2, <3>2, <3>3 DEF Sound
    <2>5. QED
      BY <2>3, <2>4
  <1>4. ASSUME NEW m \in requestValidation, NEW verdict, Validate(v, m, verdict)
        PROVE  Sound(s)'
    <2>1. /\ m \in Message /\ m.id \in ServiceId /\ validating[v] = Idle
          /\ UNCHANGED <<lifecycle, requestReview, changed>>
          /\ requestValidation' = requestValidation \ {m}
          /\ validating'[v] = m
          /\ \A k \in Validator \ {v} : validating'[k] = validating[k]
      <3>1. m \in Message /\ m.id \in ServiceId /\ validating[v] = Idle
        BY <1>1, <1>4, Types DEF Validate
      <3>2. UNCHANGED lifecycle
        BY <1>1, <1>4, <3>1, VerdictStarts DEF Validate, Shape
      <3>3. QED
        BY <1>1, <1>4, <3>1, <3>2 DEF Validate, Shape, TypeOK
    <2>2. CASE m.id # s
      <3>1. Aside(s)
        BY <1>1, <2>1, <2>2 DEF Aside
      <3>2. QED
        BY <1>1, <3>1, AsideSound
    <2>3. CASE m.id = s
      <3>1. UnderReview(s)'
        BY <1>1, <2>1, <2>3 DEF Sound, UnderReview, Closing, Current, L!Status
      <3>2. Alone(s)'
        <4>1. <<"validation", m>> \in Holders(s)
          BY <2>3 DEF Holders
        <4>2. ASSUME NEW h \in Holders(s)'
              PROVE  \/ h = <<"validator", v>>
                     \/ h \in Holders(s) /\ h # <<"validation", m>>
          BY <1>1, <1>2, <2>1 DEF Holders
        <4>3. QED
          BY <4>1, <4>2, PassedOn DEF Sound
      <3>3. QED
        BY <1>2, <2>1, <3>1, <3>2 DEF Sound
    <2>4. QED
      BY <2>2, <2>3
  <1>5. ASSUME NEW m \in requestValidation, ValidateTooLate(v, m)
        PROVE  Sound(s)'
    <2>1. m.id # s
      BY <1>5 DEF ValidateTooLate, Sound, UnderReview, Current
    <2>2. m \in Message
      BY <1>1, Types
    <2>3. \A k \in requestValidation' : k.id = s => k \in requestValidation
      BY <1>5, <2>1, <2>2, PutBackKeeps DEF ValidateTooLate
    <2>4. Aside(s)
      BY <1>1, <1>5, <2>3 DEF Aside, ValidateTooLate, lifecycleVars
    <2>5. QED
      BY <1>1, <2>4, AsideSound
  <1>6. ASSUME NEW saved, NEW fault, EndValidation(v, saved, fault)
        PROVE  Sound(s)'
    <2> DEFINE z == validating[v].id
    <2>1. /\ validating[v] # Idle /\ validating[v] \in Message /\ Feed
          /\ requestReview' = requestReview
          /\ z = calls[v].id
          /\ validating'[v] = Idle
          /\ \A k \in Validator : k # v => validating'[k] = validating[k]
      BY <1>1, <1>6, Types DEF EndValidation, IInv, Verdicts, ValidatorCalls, Shape, TypeOK
    <2>2. L!Save(v) => Wrote(z, calls[v].state)
      BY <1>1, <2>1, SaveWrites
    <2>3. CASE z # s
      <3>1. lifecycle'[s] = lifecycle[s]
        BY <1>6, <2>2, <2>3 DEF EndValidation, L!SaveError, Wrote
      <3>2. \A k \in requestValidation' : k.id = s => k \in requestValidation
        BY <1>6, <2>1, <2>3, PutBackKeeps DEF EndValidation
      <3>3. Aside(s)
        BY <1>1, <2>1, <3>1, <3>2 DEF Aside, Feed
      <3>4. QED
        BY <1>1, <3>3, AsideSound
    <2>4. CASE z = s
      <3>1. L!Save(v) /\ requestValidation' = requestValidation
        BY <1>1, <1>6, <2>4, NoFaultOf DEF EndValidation, May
      <3> DEFINE h == <<"validator", v>>
      <3>2. /\ \A x : h # <<"row", x>> /\ h # <<"validation", x>> /\ h # <<"review", x>>
            /\ \A r : h # <<"reviewer", r>>
            /\ \A k : h = <<"validator", k>> <=> k = v
        OBVIOUS
      <3>3. h \in Holders(s)
        BY <2>1, <2>4 DEF Holders
      <3> HIDE DEF h
      <3>4. /\ \A k \in Validator :
                 validating'[k] = IF h = <<"validator", k>> THEN Idle ELSE validating[k]
            /\ \A r \in Reviewer :
                 reviewing'[r] = IF h = <<"reviewer", r>> THEN Idle ELSE reviewing[r]
        BY <1>1, <2>1, <3>2
      <3>5. QED
        BY <1>1, <2>1, <2>2, <2>4, <3>1, <3>2, <3>3, <3>4, HandSound
    <2>5. QED
      BY <2>3, <2>4
  <1>7. QED
    BY <1>3, <1>4, <1>5, <1>6 DEF Validation

-----------------------------------------------------------------------------
(* In the hands of the reviewers                                            *)

\* What the reviewers that go on have asked for.
LEMMA OthersAsk ==
  ASSUME NEW r \in Reviewer, \A q \in Reviewer \ {r} : reviewing'[q] = reviewing[q]
  PROVE  \A q \in Reviewer \ {r} : \A steps : Asks(q, steps)' <=> Asks(q, steps)
  BY DEF Asks

\* The reviewer is the only one with the service of its message.
LEMMA ReviewerHolds ==
  ASSUME NEW s \in ServiceId, Sound(s),
         NEW r \in Reviewer, reviewing[r] # Idle, reviewing[r].message.id = s
  PROVE  /\ <<"reviewer", r>> \in Holders(s)
         /\ \A q \in Reviewer :
              reviewing[q] # Idle /\ reviewing[q].message.id = s => q = r
         /\ \A row \in rows : row.id = s => ~ Current(s, row.version)
         /\ \A w \in checker.work : w.row.id = s => w.step = "update"
  <1>1. <<"reviewer", r>> \in Holders(s)
    BY DEF Holders
  <1>2. /\ \A q \in Reviewer :
             reviewing[q] # Idle /\ reviewing[q].message.id = s => q = r
        /\ \A row \in rows : row.id = s => ~ Current(s, row.version)
    BY <1>1, HeldBy
  <1>3. \A w \in checker.work : w.row.id = s => w.step = "update"
    BY <1>2 DEF Sound, UnderReview, Checked
  <1>4. QED
    BY <1>1, <1>2, <1>3

\* A step of a reviewer that keeps its message, and its hold on s.
LEMMA ReviewerStays ==
  ASSUME NEW s \in ServiceId, Sound(s), NEW r \in Reviewer, reviewing[r] # Idle,
         reviewing'[r] # Idle, reviewing'[r].message = reviewing[r].message,
         \A q \in Reviewer \ {r} : reviewing'[q] = reviewing[q],
         UNCHANGED <<lifecycle, changed, requestValidation, requestReview,
                     validating, rows, checker>>
  PROVE  UnderReview(s)' /\ Alone(s)'
  <1>1. \A n : Current(s, n)' <=> Current(s, n)
    BY Still
  <1>2. UnderReview(s)'
    BY DEF Sound, UnderReview, Closing, Current, L!Status
  <1>3. Alone(s)'
    <2>1. \A h \in Holders(s)' : h \in Holders(s)
      BY <1>1 DEF Holders
    <2>2. QED
      BY <2>1 DEF Sound, Alone
  <1>4. QED
    BY <1>2, <1>3

LEMMA SearchSound ==
  ASSUME IInv, Common, NEW s \in ServiceId, Sound(s),
         NEW r \in Reviewer, NEW m \in requestReview, SearchTicket(r, m)
  PROVE  Sound(s)'
  <1>1. /\ m \in Message /\ m.id \in ServiceId /\ reviewing[r] = Idle
        /\ requestReview' = requestReview \ {m}
        /\ UNCHANGED <<lifecycle, calls, changed, requestValidation, validating,
                       tickets, rows, checker>>
        /\ reviewing'[r] # Idle /\ reviewing'[r].message = m
        /\ \A q \in Reviewer \ {r} : reviewing'[q] = reviewing[q]
        /\ \/ reviewing'[r].step = "create"
           \/ /\ reviewing'[r].step \in {"update", "insert"}
              /\ reviewing'[r].ticket \in PendingAndRejected(m.id)
              /\ reviewing'[r].step = "insert" =>
                   tickets[reviewing'[r].ticket].status # "REJECTED"
    BY SearchTask DEF IInv
  <1>2. CASE m.id # s
    <2>1. Aside(s)
      BY <1>1, <1>2 DEF Aside
    <2>2. QED
      BY <2>1, AsideSound DEF IInv
  <1>3. CASE m.id = s
    <2>1. \A n : Current(s, n)' <=> Current(s, n)
      BY <1>1, Still
    <2>2. <<"review", m>> \in Holders(s)
      BY <1>3 DEF Holders
    <2>3. reviewing'[r].step # "insert"
      <3>1. ASSUME NEW t \in PendingAndRejected(s), tickets[t].status # "REJECTED"
            PROVE  FALSE
        <4>1. t \in DOMAIN tickets /\ tickets[t].id = s /\ tickets[t].status = "OPEN"
          BY <3>1, TicketsType DEF PendingAndRejected, TicketType, IInv
        <4>2. QED
          BY <2>2, <4>1, OpenIsHeld, HeldBy
      <3>2. QED
        BY <1>1, <1>3, <3>1
    <2>4. UnderReview(s)'
      BY <1>1, <1>3 DEF Sound, UnderReview, Closing, Current, L!Status
    <2>5. Alone(s)'
      <3>1. ASSUME NEW h \in Holders(s)'
            PROVE  h = <<"reviewer", r>> \/ (h \in Holders(s) /\ h # <<"review", m>>)
        BY <1>1, <2>1 DEF Holders
      <3>2. QED
        BY <2>2, <3>1, PassedOn DEF Sound
    <2>6. Ticketed(s)'
      <3>1. /\ \A q \in Reviewer : \A steps \in {{"reopen", "insert"}, {"insert"}} :
                 Asks(q, steps)' <=> Asks(q, steps)
            /\ \A q \in Reviewer : Asks(q, {"reopen", "insert"}) =>
                 reviewing'[q] = reviewing[q]
            /\ \A q \in Reviewer : Asks(q, {"insert"}) => reviewing'[q] = reviewing[q]
        BY <1>1, <2>3 DEF Asks
      <3>2. QED
        BY <1>1, <2>1, <3>1 DEF Sound, Ticketed
    <2>7. Checked(s)'
      BY <1>1 DEF Sound, Checked
    <2>8. QED
      BY <2>4, <2>5, <2>6, <2>7 DEF Sound
  <1>4. QED
    BY <1>2, <1>3

LEMMA CreateSound ==
  ASSUME IInv, Common, NEW s \in ServiceId, Sound(s), NEW r \in Reviewer, CreateTicket(r)
  PROVE  Sound(s)'
  <1> DEFINE m == reviewing[r].message
             n == Len(tickets) + 1
  <1>1. /\ reviewing[r] # Idle /\ reviewing[r].step = "create"
        /\ m \in Message /\ m.id \in ServiceId
        /\ UNCHANGED <<lifecycle, calls, changed, requestValidation,
                       requestReview, validating, rows, checker>>
        /\ reviewing'[r] # Idle /\ reviewing'[r].message = m
        /\ reviewing'[r].step = "insert" /\ reviewing'[r].ticket = n
        /\ \A q \in Reviewer \ {r} : reviewing'[q] = reviewing[q]
        /\ DOMAIN tickets' = DOMAIN tickets \cup {n} /\ n \notin DOMAIN tickets
        /\ tickets'[n].id = m.id /\ tickets'[n].version = m.version
        /\ \A t \in DOMAIN tickets : tickets'[t] = tickets[t]
    BY CreateTask DEF IInv
  <1> HIDE DEF n
  <1>2. CASE m.id # s
    <2>1. Aside(s)
      BY <1>1, <1>2 DEF Aside
    <2>2. QED
      BY <2>1, AsideSound DEF IInv
  <1>3. CASE m.id = s
    <2>1. \A k : Current(s, k)' <=> Current(s, k)
      BY <1>1, Still
    <2>2. UnderReview(s)' /\ Alone(s)'
      BY <1>1, ReviewerStays
    <2>3. Ticketed(s)'
      <3>1. ASSUME NEW q \in Reviewer, Asks(q, {"reopen", "insert"})',
                   reviewing'[q].message.id = s
            PROVE  tickets'[reviewing'[q].ticket].version = reviewing'[q].message.version
        <4>1. CASE q = r
          BY <1>1, <4>1
        <4>2. CASE q # r
          <5>1. reviewing'[q] = reviewing[q] /\ Asks(q, {"reopen", "insert"})
            BY <1>1, <3>1, <4>2, OthersAsk
          <5>2. reviewing[q].ticket \in DOMAIN tickets
            BY <5>1 DEF IInv, Shape, Asks
          <5>3. QED
            BY <1>1, <3>1, <5>1, <5>2 DEF Sound, Ticketed
        <4>3. QED
          BY <4>1, <4>2
      <3>2. \A row \in rows' : row.id = s /\ Current(s, row.version)' =>
              tickets'[row.ticket].version = row.version
        BY <1>1, <2>1, Types DEF Sound, Ticketed, IInv
      <3>3. ASSUME NEW t \in DOMAIN tickets', tickets'[t].status = "OPEN",
                   tickets'[t].id = s
            PROVE  \/ \E q \in Reviewer : Asks(q, {"insert"})' /\ reviewing'[q].ticket = t
                   \/ \E row \in rows' : row.ticket = t /\ Current(s, row.version)'
        <4>1. CASE t = n
          BY <1>1, <4>1 DEF Asks
        <4>2. CASE t \in DOMAIN tickets
          <5>1. \A q \in Reviewer : Asks(q, {"insert"}) =>
                  Asks(q, {"insert"})' /\ reviewing'[q] = reviewing[q]
            <6>1. ~ Asks(r, {"insert"})
              BY <1>1 DEF Asks
            <6>2. QED
              BY <1>1, <6>1, OthersAsk
          <5>2. tickets[t].status = "OPEN" /\ tickets[t].id = s
            BY <1>1, <3>3, <4>2
          <5>3. QED
            BY <1>1, <2>1, <4>2, <5>1, <5>2 DEF Sound, Ticketed
        <4>3. QED
          BY <1>1, <3>3, <4>1, <4>2
      <3>4. QED
        BY <3>1, <3>2, <3>3 DEF Ticketed, Current
    <2>4. Checked(s)'
      BY <1>1, <1>3, ReviewerHolds DEF Checked
    <2>5. QED
      BY <2>2, <2>3, <2>4 DEF Sound
  <1>4. QED
    BY <1>2, <1>3

LEMMA TicketSound ==
  ASSUME IInv, Common, NEW s \in ServiceId, Sound(s),
         NEW r \in Reviewer, UpdateTicket(r) \/ ReopenTicket(r)
  PROVE  Sound(s)'
  <1> DEFINE m == reviewing[r].message
             t == reviewing[r].ticket
  <1>1. /\ reviewing[r] # Idle
        /\ m \in Message /\ m.id \in ServiceId
        /\ t \in DOMAIN tickets /\ tickets[t].id = m.id
        /\ UNCHANGED <<lifecycle, calls, changed, requestValidation,
                       requestReview, validating, rows, checker>>
        /\ reviewing'[r] # Idle /\ reviewing'[r].message = m
        /\ reviewing'[r].ticket = t
        /\ \A q \in Reviewer \ {r} : reviewing'[q] = reviewing[q]
        /\ DOMAIN tickets' = DOMAIN tickets
        /\ \A k \in DOMAIN tickets \ {t} : tickets'[k] = tickets[k]
        /\ tickets'[t].id = m.id
        /\ \/ /\ reviewing[r].step = "update" /\ reviewing'[r].step = "reopen"
              /\ tickets'[t].version = m.version
              /\ tickets'[t].status = tickets[t].status
           \/ /\ reviewing[r].step = "reopen" /\ reviewing'[r].step = "insert"
              /\ tickets'[t].version = tickets[t].version
    BY TicketTask DEF IInv
  <1>2. CASE m.id # s
    <2>1. Aside(s)
      BY <1>1, <1>2 DEF Aside
    <2>2. QED
      BY <2>1, AsideSound DEF IInv
  <1>3. CASE m.id = s
    <2>1. \A k : Current(s, k)' <=> Current(s, k)
      BY <1>1, Still
    <2>2. UnderReview(s)' /\ Alone(s)'
      BY <1>1, ReviewerStays
    <2>3. /\ \A q \in Reviewer :
               reviewing[q] # Idle /\ reviewing[q].message.id = s => q = r
          /\ \A row \in rows : row.id = s => ~ Current(s, row.version)
          /\ \A w \in checker.work : w.row.id = s => w.step = "update"
      BY <1>1, <1>3, ReviewerHolds
    <2>4. tickets'[t].version = m.version
      BY <1>1, <1>3 DEF Sound, Ticketed, Asks
    <2>5. Ticketed(s)'
      <3>1. ASSUME NEW q \in Reviewer, Asks(q, {"reopen", "insert"})',
                   reviewing'[q].message.id = s
            PROVE  tickets'[reviewing'[q].ticket].version = reviewing'[q].message.version
        <4>1. q = r
          BY <1>1, <2>3, <3>1 DEF Asks
        <4>2. QED
          BY <1>1, <2>4, <4>1
      <3>2. ASSUME NEW k \in DOMAIN tickets', tickets'[k].status = "OPEN",
                   tickets'[k].id = s
            PROVE  \E q \in Reviewer : Asks(q, {"insert"})' /\ reviewing'[q].ticket = k
        <4>1. CASE k = t /\ reviewing'[r].step = "insert"
          BY <1>1, <4>1 DEF Asks
        <4>2. CASE k # t \/ reviewing'[r].step # "insert"
          <5>1. k \in DOMAIN tickets /\ tickets[k].status = "OPEN" /\ tickets[k].id = s
            BY <1>1, <1>3, <3>2, <4>2
          <5>2. \E q \in Reviewer : /\ reviewing[q] # Idle /\ reviewing[q].step = "insert"
                                    /\ reviewing[q].message.id = s
            BY <2>3, <5>1, OpenIsHeld
          <5>3. QED
            BY <1>1, <2>3, <5>2
        <4>3. QED
          BY <4>1, <4>2
      <3>3. QED
        BY <1>1, <2>1, <2>3, <3>1, <3>2 DEF Ticketed, Current, L!Status
    <2>6. Checked(s)'
      BY <1>1, <2>3 DEF Checked
    <2>7. QED
      BY <2>2, <2>5, <2>6 DEF Sound
  <1>4. QED
    BY <1>2, <1>3

LEMMA InsertSound ==
  ASSUME IInv, Common, NEW s \in ServiceId, Sound(s), faults'[s] = 0,
         NEW r \in Reviewer, NEW fault, InsertRow(r, fault)
  PROVE  Sound(s)'
  <1> DEFINE m == reviewing[r].message
             new == [id |-> m.id, version |-> m.version,
                     ticket |-> reviewing[r].ticket, status |-> "PENDING"]
  <1>1. /\ reviewing[r] # Idle /\ m \in Message /\ m.id \in ServiceId /\ Shape
        /\ UNCHANGED <<lifecycle, changed, requestValidation, validating, tickets, checker>>
        /\ reviewing'[r] = Idle
        /\ \A q \in Reviewer \ {r} : reviewing'[q] = reviewing[q]
    <2>1. /\ reviewing[r] # Idle
          /\ reviewing' = [reviewing EXCEPT ![r] = Idle]
          /\ UNCHANGED <<lifecycle, changed, requestValidation, validating, tickets, checker>>
      BY DEF InsertRow, At, lifecycleVars
    <2>2. QED
      BY <2>1, DoneTask, Types DEF IInv
  <1>2. new.id = m.id /\ new.version = m.version /\ new.ticket = reviewing[r].ticket
        /\ new.status = "PENDING"
    OBVIOUS
  <1>3. rows' = IF \E row \in rows : row.id = m.id /\ row.version = m.version
                THEN rows ELSE rows \cup {new}
    BY DEF InsertRow
  <1> HIDE DEF new
  <1>4. CASE m.id # s
    <2>1. \A k \in requestReview' : k.id = s => k \in requestReview
      BY <1>1, <1>4, PutBackKeeps DEF InsertRow
    <2>2. Aside(s)
      BY <1>1, <1>2, <1>3, <1>4, <2>1 DEF Aside
    <2>3. QED
      BY <2>2, AsideSound DEF IInv
  <1>5. CASE m.id = s
    <2>1. \A n : Current(s, n)' <=> Current(s, n)
      BY <1>1, Still
    <2>2. requestReview' = requestReview
      BY <1>1, <1>5, NoFaultOf DEF InsertRow, May
    <2>3. /\ <<"reviewer", r>> \in Holders(s)
          /\ \A q \in Reviewer :
               reviewing[q] # Idle /\ reviewing[q].message.id = s => q = r
          /\ \A row \in rows : row.id = s => ~ Current(s, row.version)
          /\ \A w \in checker.work : w.row.id = s => w.step = "update"
      BY <1>1, <1>5, ReviewerHolds
    <2>4. Current(s, m.version)
      BY <1>1, <1>5 DEF Sound, UnderReview
    <2>5. rows' = rows \cup {new}
      BY <1>3, <1>5, <2>3, <2>4
    <2>6. reviewing[r].step = "insert" /\ tickets[reviewing[r].ticket].version = m.version
      BY <1>5 DEF InsertRow, At, Asks, Sound, Ticketed
    <2>7. UnderReview(s)'
      BY <1>1, <1>2, <1>5, <2>1, <2>2, <2>4, <2>5
      DEF Sound, UnderReview, Closing, Current, L!Status
    <2>8. Alone(s)'
      <3>1. ASSUME NEW h \in Holders(s)'
            PROVE  h = <<"row", new>> \/ (h \in Holders(s) /\ h # <<"reviewer", r>>)
        BY <1>1, <2>1, <2>2, <2>5 DEF Holders
      <3>2. QED
        BY <2>3, <3>1, PassedOn DEF Sound
    <2>9. Ticketed(s)'
      <3>1. \A q \in Reviewer : reviewing'[q] # Idle => reviewing'[q].message.id # s
        BY <1>1, <2>3
      <3>2. \A row \in rows' : row.id = s /\ Current(s, row.version) =>
              tickets[row.ticket].version = row.version
        BY <1>2, <2>3, <2>5, <2>6
      <3>3. \A t \in DOMAIN tickets : tickets[t].status = "OPEN" /\ tickets[t].id = s =>
              t = new.ticket
        <4>1. ASSUME NEW t \in DOMAIN tickets, tickets[t].status = "OPEN",
                     tickets[t].id = s
              PROVE  t = reviewing[r].ticket
          BY <2>3, <4>1, OpenIsHeld
        <4>2. QED
          BY <1>2, <4>1
      <3>4. new \in rows' /\ Current(s, new.version)
        BY <1>2, <2>4, <2>5
      <3>5. QED
        BY <1>1, <2>1, <3>1, <3>2, <3>3, <3>4 DEF Ticketed, Asks, Current, L!Status
    <2>10. Checked(s)'
      BY <1>1, <2>3 DEF Checked
    <2>11. QED
      BY <2>7, <2>8, <2>9, <2>10 DEF Sound
  <1>6. QED
    BY <1>4, <1>5

LEMMA AutoSound ==
  ASSUME IInv, Common, NEW s \in ServiceId, Sound(s),
         NEW r \in Reviewer, NEW m \in requestReview, AutoApprove(r, m)
  PROVE  Sound(s)'
  <1>1. /\ m \in Message /\ m.id \in ServiceId /\ reviewing[r] = Idle
        /\ requestReview' = requestReview \ {m}
        /\ UNCHANGED <<lifecycle, changed, requestValidation, validating,
                       tickets, rows, checker>>
        /\ reviewing'[r] # Idle /\ reviewing'[r].message = m
        /\ reviewing'[r].step = "approve"
        /\ \A q \in Reviewer \ {r} : reviewing'[q] = reviewing[q]
    BY AutoTask DEF IInv
  <1>2. CASE m.id # s
    <2>1. Aside(s)
      BY <1>1, <1>2 DEF Aside
    <2>2. QED
      BY <2>1, AsideSound DEF IInv
  <1>3. CASE m.id = s
    <2>1. \A n : Current(s, n)' <=> Current(s, n)
      BY <1>1, Still
    <2>2. <<"review", m>> \in Holders(s)
      BY <1>3 DEF Holders
    <2>3. UnderReview(s)'
      BY <1>1, <1>3 DEF Sound, UnderReview, Closing, Current, L!Status
    <2>4. Alone(s)'
      <3>1. ASSUME NEW h \in Holders(s)'
            PROVE  h = <<"reviewer", r>> \/ (h \in Holders(s) /\ h # <<"review", m>>)
        BY <1>1, <2>1 DEF Holders
      <3>2. QED
        BY <2>2, <3>1, PassedOn DEF Sound
    <2>5. Ticketed(s)'
      <3>1. /\ \A q \in Reviewer : \A steps \in {{"reopen", "insert"}, {"insert"}} :
                 Asks(q, steps)' <=> Asks(q, steps)
            /\ \A q \in Reviewer : Asks(q, {"reopen", "insert"}) =>
                 reviewing'[q] = reviewing[q]
            /\ \A q \in Reviewer : Asks(q, {"insert"}) => reviewing'[q] = reviewing[q]
        BY <1>1 DEF Asks
      <3>2. QED
        BY <1>1, <2>1, <3>1 DEF Sound, Ticketed
    <2>6. Checked(s)'
      BY <1>1 DEF Sound, Checked
    <2>7. QED
      BY <2>3, <2>4, <2>5, <2>6 DEF Sound
  <1>4. QED
    BY <1>2, <1>3

\* The verdict is saved, and the service is in nobody's hands.
LEMMA EndAutoSound ==
  ASSUME IInv, Common, NEW s \in ServiceId, Sound(s),
         NEW r \in Reviewer, EndAutoApprove(r)
  PROVE  Sound(s)'
  <1> DEFINE z == reviewing[r].message.id
  <1>1. /\ reviewing[r] # Idle /\ reviewing[r].step = "approve"
        /\ z = calls[r].id /\ L!Save(r) /\ Feed /\ r \in Client /\ Shape
        /\ UNCHANGED <<requestValidation, requestReview, validating, tickets, rows, checker>>
        /\ reviewing'[r] = Idle
        /\ \A q \in Reviewer \ {r} : reviewing'[q] = reviewing[q]
    BY DoneTask DEF EndAutoApprove, At, IInv, Verdicts, ReviewerCalls, Client, trackVars
  <1>2. Wrote(z, calls[r].state)
    BY <1>1, SaveWrites
  <1>3. CASE z # s
    <2>1. lifecycle'[s] = lifecycle[s]
      BY <1>2, <1>3 DEF Wrote
    <2>2. Aside(s)
      BY <1>1, <1>3, <2>1 DEF Aside, Feed
    <2>3. QED
      BY <1>1, <2>2, AsideSound
  <1>4. CASE z = s
    <2> DEFINE h == <<"reviewer", r>>
    <2>1. /\ \A x : h # <<"row", x>> /\ h # <<"validation", x>> /\ h # <<"review", x>>
          /\ \A v : h # <<"validator", v>>
          /\ \A q : h = <<"reviewer", q>> <=> q = r
      OBVIOUS
    <2>2. h \in Holders(s)
      BY <1>1, <1>4 DEF Holders
    <2> HIDE DEF h
    <2>3. /\ \A v \in Validator :
               validating'[v] = IF h = <<"validator", v>> THEN Idle ELSE validating[v]
          /\ \A q \in Reviewer :
               reviewing'[q] = IF h = <<"reviewer", q>> THEN Idle ELSE reviewing[q]
          /\ \A q \in Reviewer : h = <<"reviewer", q>> => reviewing[q].step # "insert"
      BY <1>1, <2>1
    <2>4. QED
      BY <1>1, <1>2, <1>4, <2>1, <2>2, <2>3, HandSound
  <1>5. QED
    BY <1>3, <1>4

\* A message that comes again is about another service.
LEMMA AgainSound ==
  ASSUME IInv, Common, NEW s \in ServiceId, Sound(s), faults'[s] = 0, NEW r \in Reviewer,
         FailReview(r) \/ \E m \in requestReview : AutoApproveTooLate(r, m)
  PROVE  Sound(s)'
  <1>1. CASE FailReview(r)
    <2>1. /\ reviewing[r] # Idle /\ reviewing[r].message \in Message
          /\ reviewing[r].message.id # s
          /\ UNCHANGED <<lifecycle, changed, requestValidation, validating, tickets,
                         rows, checker>>
          /\ reviewing'[r] = Idle
          /\ \A q \in Reviewer \ {r} : reviewing'[q] = reviewing[q]
      BY <1>1, DoneTask, NoFaultOf, Types
      DEF FailReview, IInv, lifecycleVars, trackVars, L!SaveError
    <2>2. \A k \in requestReview' : k.id = s => k \in requestReview
      BY <1>1, <2>1, PutBackKeeps DEF FailReview
    <2>3. Aside(s)
      BY <2>1, <2>2 DEF Aside
    <2>4. QED
      BY <2>3, AsideSound DEF IInv
  <1>2. ASSUME NEW m \in requestReview, AutoApproveTooLate(r, m)
        PROVE  Sound(s)'
    <2>1. m.id # s
      BY <1>2 DEF AutoApproveTooLate, Sound, UnderReview, Current
    <2>2. m \in Message
      BY Types DEF IInv
    <2>3. \A k \in requestReview' : k.id = s => k \in requestReview
      BY <1>2, <2>1, <2>2, PutBackKeeps DEF AutoApproveTooLate
    <2>4. Aside(s)
      BY <1>2, <2>3 DEF Aside, AutoApproveTooLate, lifecycleVars, trackVars
    <2>5. QED
      BY <2>4, AsideSound DEF IInv
  <1>3. QED
    BY <1>1, <1>2

LEMMA ReviewSound ==
  ASSUME IInv, Common, NEW s \in ServiceId, Sound(s), faults'[s] = 0,
         NEW r \in Reviewer, Review(r)
  PROVE  Sound(s)'
  BY SearchSound, CreateSound, TicketSound, InsertSound, AutoSound, EndAutoSound,
     AgainSound DEF Review

-----------------------------------------------------------------------------
(* In the hands of the operators and of the checker                         *)

\* The row of a decided ticket waits for the checker.
LEMMA DecideSound ==
  ASSUME IInv, Common, NEW s \in ServiceId, Sound(s),
         NEW t \in DOMAIN tickets, Operator(t)
  PROVE  Sound(s)'
  <1>1. PICK verdict \in {"APPROVED", "REJECTED"} : Decide(t, verdict)
    BY DEF Operator
  <1>2. /\ UNCHANGED <<lifecycle, calls, changed, requestValidation, requestReview,
                       validating, reviewing, rows, checker>>
        /\ DOMAIN tickets' = DOMAIN tickets
        /\ \A k \in DOMAIN tickets : /\ tickets'[k].id = tickets[k].id
                                     /\ tickets'[k].version = tickets[k].version
                                     /\ k # t => tickets'[k] = tickets[k]
        /\ tickets'[t].status = verdict
        /\ tickets[t].status = "OPEN"
    BY <1>1, DecideTicket DEF IInv
  <1>3. CASE tickets[t].id # s
    <2>1. Aside(s)
      BY <1>2, <1>3 DEF Aside
    <2>2. QED
      BY <2>1, AsideSound DEF IInv
  <1>4. CASE tickets[t].id = s
    <2>1. /\ \A n : Current(s, n)' <=> Current(s, n)
          /\ \A q \in Reviewer : \A steps : Asks(q, steps)' <=> Asks(q, steps)
      BY <1>2, Still DEF Asks
    <2>2. UnderReview(s)'
      BY <1>2 DEF Sound, UnderReview, Closing, Current, L!Status
    <2>3. Alone(s)'
      <3>1. \A h \in Holders(s)' : h \in Holders(s)
        BY <1>2, <2>1 DEF Holders
      <3>2. QED
        BY <3>1 DEF Sound, Alone
    <2>4. Ticketed(s)'
      <3>1. /\ \A q \in Reviewer : Asks(q, {"reopen", "insert"}) =>
                 reviewing[q].ticket \in DOMAIN tickets
            /\ \A row \in rows : row.ticket \in DOMAIN tickets
        BY Types DEF IInv, Shape, Asks
      <3>2. \A k \in DOMAIN tickets : tickets'[k].status = "OPEN" => tickets[k].status = "OPEN"
        BY <1>2
      <3>3. QED
        BY <1>2, <2>1, <3>1, <3>2 DEF Sound, Ticketed
    <2>5. Checked(s)'
      <3>1. ASSUME NEW w \in checker.work, w.row.id = s, w.step # "update"
            PROVE  /\ w.row \in rows /\ tickets[w.ticket].status = w.verdict
                   /\ w.ticket \in DOMAIN tickets /\ w.ticket # t
        <4>1. w.row \in rows /\ tickets[w.ticket].status = w.verdict
          BY <3>1 DEF Sound, Checked
        <4>2. w.ticket \in DOMAIN tickets
          BY <4>1, Types DEF IInv, Common, Running
        <4>3. w.verdict \in {"APPROVED", "REJECTED"}
          BY Types DEF IInv, Work
        <4>4. QED
          BY <1>2, <4>1, <4>2, <4>3
      <3>2. QED
        BY <1>2, <3>1 DEF Checked
    <2>6. QED
      BY <2>2, <2>3, <2>4, <2>5 DEF Sound
  <1>5. QED
    BY <1>3, <1>4

LEMMA SearchDecidedSound ==
  ASSUME IInv, Common, NEW s \in ServiceId, Sound(s),
         ReadPending \/ SearchDecided \/ FailSearch
  PROVE  Sound(s)'
  <1>1. UNCHANGED <<lifecycle, changed, requestValidation, requestReview, validating,
                    reviewing, tickets, rows>>
    BY DEF ReadPending, SearchDecided, FailSearch, lifecycleVars, workVars, trackVars
  <1>2. CASE ReadPending \/ FailSearch
    <2>1. checker.work = {} /\ checker'.work = {}
      BY <1>2 DEF ReadPending, FailSearch, NoRun, Common, Running
    <2>2. Aside(s)
      BY <1>1, <2>1 DEF Aside
    <2>3. QED
      BY <2>2, AsideSound DEF IInv
  <1>3. CASE SearchDecided
    <2>1. /\ checker.work = {}
          /\ \A w \in checker'.work :
               /\ w.step = "apply" /\ w.row \in checker.rows
               /\ tickets[w.ticket].status = w.verdict
      BY <1>3, StartedWork
    <2>2. \A row \in checker.rows : row \in rows /\ row.status = "PENDING"
      BY DEF Common, Running
    <2>3. \A n : Current(s, n)' <=> Current(s, n)
      BY <1>1, Still
    <2>4. \A row \in rows : row.id = s /\ row.status = "PENDING" => Current(s, row.version)
      BY <2>1 DEF Sound, UnderReview, Closing
    <2>5. UnderReview(s)'
      BY <1>1, <2>1, <2>2, <2>3, <2>4 DEF Sound, UnderReview, Current, L!Status
    <2>6. Alone(s)'
      <3>1. \A h \in Holders(s)' : h \in Holders(s)
        BY <1>1, <2>3 DEF Holders
      <3>2. QED
        BY <3>1 DEF Sound, Alone
    <2>7. Ticketed(s)' /\ Checked(s)'
      BY <1>1, <2>1, <2>2 DEF Sound, Ticketed, Checked, Asks, Current, L!Status
    <2>8. QED
      BY <2>5, <2>6, <2>7 DEF Sound
  <1>4. QED
    BY <1>2, <1>3

\* What the checker does of one work.
LEMMA WorkGoes ==
  ASSUME Shape, NEW w \in checker.work,
         ApplyVerdict(w) \/ SaveVerdict(w) \/ UpdateStatus(w)
  PROVE  \/ checker'.work = checker.work \ {w}
         \/ \E x : checker'.work = (checker.work \ {w}) \cup {x} /\ x.row = w.row
  <1>1. CASE Drop(w)
    BY <1>1 DEF Drop, Shape, TypeOK
  <1>2. ASSUME NEW step, Advance(w, step)
        PROVE  \E x : checker'.work = (checker.work \ {w}) \cup {x} /\ x.row = w.row
    BY <1>2, Advanced
  <1>3. QED
    BY <1>1, <1>2 DEF ApplyVerdict, SaveVerdict, UpdateStatus

\* A work on another service leaves s aside.
LEMMA OtherWorkSound ==
  ASSUME IInv, Common, NEW s \in ServiceId, Sound(s), NEW w \in checker.work,
         ApplyVerdict(w) \/ SaveVerdict(w) \/ UpdateStatus(w), w.row.id # s
  PROVE  Sound(s)'
  <1>1. /\ UNCHANGED <<requestValidation, requestReview, validating, reviewing, tickets>>
        /\ Shape /\ w.ticket \in Client /\ w.row.id \in ServiceId
    BY Types DEF ApplyVerdict, SaveVerdict, UpdateStatus, workVars, trackVars, IInv, Client
  <1>2. lifecycle'[s] = lifecycle[s] /\ (s \in changed' => s \in changed)
    <2>1. CASE ApplyVerdict(w)
      BY <1>1, <2>1, VerdictStarts DEF ApplyVerdict, Shape, lifecycleVars
    <2>2. CASE SaveVerdict(w)
      <3>1. CASE L!Save(w.ticket)
        <4>1. calls[w.ticket].id = w.row.id
          BY <2>2 DEF SaveVerdict, IInv, Verdicts, CheckerCalls
        <4>2. Wrote(w.row.id, calls[w.ticket].state)
          BY <1>1, <3>1, <4>1, SaveWrites
        <4>3. QED
          BY <2>2, <4>2 DEF SaveVerdict, Feed, Wrote
      <3>2. CASE L!SaveError(w.ticket)
        BY <2>2, <3>2 DEF SaveVerdict, Feed, L!SaveError
      <3>3. QED
        BY <2>2, <3>1, <3>2 DEF SaveVerdict
    <2>3. CASE UpdateStatus(w)
      BY <2>3 DEF UpdateStatus, lifecycleVars
    <2>4. QED
      BY <2>1, <2>2, <2>3
  <1>3. /\ \A x \in checker'.work : x.row.id = s => x \in checker.work
        /\ \A x \in checker.work : x.row.id = s => x \in checker'.work
    BY <1>1, WorkGoes
  <1>4. /\ \A row \in rows' : row.id = s => row \in rows
        /\ \A row \in rows : row.id = s => row \in rows'
    <2>1. CASE rows' = rows
      BY <2>1
    <2>2. CASE rows' = {IF row.id = w.row.id /\ row.version = w.row.version
                        THEN [row EXCEPT !.status = w.verdict] ELSE row : row \in rows}
      <3>1. ASSUME NEW x \in rows', x.id = s
            PROVE  x \in rows
        <4>1. PICK row \in rows :
                x = IF row.id = w.row.id /\ row.version = w.row.version
                    THEN [row EXCEPT !.status = w.verdict] ELSE row
          BY <2>2
        <4>2. row \in Row
          BY <1>1, Types
        <4>3. [row EXCEPT !.status = w.verdict].id = row.id
          BY <4>2 DEF Row
        <4>4. QED
          BY <3>1, <4>1, <4>3
      <3>2. \A row \in rows : row.id = s => row \in rows'
        BY <2>2
      <3>3. QED
        BY <3>1, <3>2
    <2>3. QED
      BY <2>1, <2>2 DEF ApplyVerdict, SaveVerdict, UpdateStatus, trackVars
  <1>5. Aside(s)
    BY <1>1, <1>2, <1>3, <1>4 DEF Aside
  <1>6. QED
    BY <1>1, <1>5, AsideSound

LEMMA ApplySound ==
  ASSUME IInv, Common, NEW s \in ServiceId, Sound(s), faults'[s] = 0,
         NEW w \in checker.work, ApplyVerdict(w), w.row.id = s
  PROVE  Sound(s)'
  <1>1. /\ w.step = "apply" /\ w.row \in rows /\ tickets[w.ticket].status = w.verdict
        /\ Current(s, w.row.version)
    BY DEF ApplyVerdict, Sound, UnderReview, Checked
  <1>2. L!Status[s] = "submitted"
    BY <1>1 DEF Current
  <1>3. w.ticket \in Client /\ Shape
    BY Types DEF IInv, Client
  <1>4. Advance(w, "save") /\ UNCHANGED lifecycle
    BY <1>2, <1>3, NoFaultOf, VerdictStarts DEF ApplyVerdict, Shape
  <1>5. UNCHANGED <<changed, requestValidation, requestReview, validating, reviewing,
                    tickets, rows>>
    BY DEF ApplyVerdict, workVars, trackVars
  <1>6. PICK x : /\ checker'.work = (checker.work \ {w}) \cup {x}
                 /\ x.step = "save" /\ x.ticket = w.ticket
                 /\ x.row = w.row /\ x.verdict = w.verdict
    BY <1>3, <1>4, Advanced
  <1>7. \A n : Current(s, n)' <=> Current(s, n)
    BY <1>4, Still
  <1>8. UnderReview(s)'
    <2>1. \A row \in rows : Closing(row) => Closing(row)'
      BY <1>1, <1>6 DEF Closing
    <2>2. QED
      BY <1>1, <1>4, <1>5, <1>6, <1>7, <2>1 DEF Sound, UnderReview, Current, L!Status
  <1>9. Alone(s)'
    <2>1. \A h \in Holders(s)' : h \in Holders(s)
      BY <1>5, <1>7 DEF Holders
    <2>2. QED
      BY <2>1 DEF Sound, Alone
  <1>10. Ticketed(s)' /\ Checked(s)'
    BY <1>1, <1>4, <1>5, <1>6 DEF Sound, Ticketed, Checked, Asks, Current, L!Status
  <1>11. QED
    BY <1>8, <1>9, <1>10 DEF Sound

\* The verdict on the row under review is saved: the row is still to be closed.
LEMMA SaveVerdictSound ==
  ASSUME IInv, Common, NEW s \in ServiceId, Sound(s), faults'[s] = 0,
         NEW w \in checker.work, SaveVerdict(w), w.row.id = s
  PROVE  Sound(s)'
  <1>1. /\ w.step = "save" /\ w.row \in rows /\ w.row.ticket = w.ticket
        /\ tickets[w.ticket].status = w.verdict /\ Current(s, w.row.version)
        /\ w.verdict \in {"APPROVED", "REJECTED"} /\ w.ticket \in Client /\ Shape
    BY Types DEF SaveVerdict, Sound, UnderReview, Checked, Common, Running, IInv, Work, Client
  <1>2. L!Save(w.ticket) /\ Advance(w, "update")
    BY <1>1, NoFaultOf DEF SaveVerdict
  <1>3. UNCHANGED <<requestValidation, requestReview, validating, reviewing, tickets, rows>>
    BY DEF SaveVerdict, workVars, trackVars
  <1>4. Wrote(s, calls[w.ticket].state)
    <2>1. calls[w.ticket].id = s
      BY <1>1 DEF IInv, Verdicts, CheckerCalls
    <2>2. QED
      BY <1>1, <1>2, <2>1, SaveWrites
  <1>5. PICK x : /\ checker'.work = (checker.work \ {w}) \cup {x}
                 /\ x.step = "update" /\ x.row = w.row
    BY <1>1, <1>2, Advanced
  <1>6. <<"row", w.row>> \in Holders(s)
    BY <1>1 DEF Holders
  <1>7. /\ \A m \in requestValidation \cup requestReview : m.id # s
        /\ \A v \in Validator : validating[v] # Idle => validating[v].id # s
        /\ \A r \in Reviewer : reviewing[r] # Idle => reviewing[r].message.id # s
        /\ \A row \in rows : row.id = s /\ Current(s, row.version) => row = w.row
    BY <1>6, HeldBy
  <1>8. \A row \in rows : row.id = s /\ row.status = "PENDING" => Closing(row)'
    <2>1. Closing(w.row)'
      BY <1>5 DEF Closing
    <2>2. \A row \in rows : Closing(row) => Closing(row)'
      BY <1>1, <1>5 DEF Closing
    <2>3. QED
      BY <1>7, <2>1, <2>2 DEF Sound, UnderReview
  <1>9. ASSUME NEW y \in checker'.work, y.step # "update", y.row.id = s
        PROVE  FALSE
    <2>1. y \in checker.work /\ y # w
      BY <1>5, <1>9
    <2>2. y.row = w.row
      BY <1>7, <1>9, <2>1 DEF Sound, UnderReview, Checked
    <2>3. y.ticket = w.ticket
      BY <1>1, <2>1, <2>2 DEF Common, Running
    <2>4. QED
      BY <2>1, <2>3 DEF IInv, Verdicts, CheckerCalls
  <1>10. \A t \in DOMAIN tickets : tickets[t].status = "OPEN" => tickets[t].id # s
    <2>1. ASSUME NEW t \in DOMAIN tickets, tickets[t].status = "OPEN", tickets[t].id = s
          PROVE  FALSE
      <3>1. t = w.ticket
        BY <1>1, <1>7, <2>1, OpenIsHeld
      <3>2. QED
        BY <1>1, <2>1, <3>1
    <2>2. QED
      BY <2>1
  <1>11. QED
    BY <1>3, <1>4, <1>7, <1>8, <1>9, <1>10, WriteSound

\* The row that is closed is not the one under review.
LEMMA UpdateSound ==
  ASSUME IInv, Common, NEW s \in ServiceId, Sound(s), faults'[s] = 0,
         NEW w \in checker.work, UpdateStatus(w), w.row.id = s
  PROVE  Sound(s)'
  <1> DEFINE Same(row) == row.id = w.row.id /\ row.version = w.row.version
  <1>1. /\ w.step = "update" /\ w.verdict \in {"APPROVED", "REJECTED"} /\ Shape
        /\ ~ Current(s, w.row.version)
    BY Types DEF IInv, UpdateStatus, Work, Undecided
  <1>2. /\ rows' = {IF Same(row) THEN [row EXCEPT !.status = w.verdict] ELSE row : row \in rows}
        /\ Drop(w)
        /\ UNCHANGED <<lifecycle, changed, requestValidation, requestReview,
                       validating, reviewing, tickets>>
    BY <1>1, NoFaultOf DEF UpdateStatus, lifecycleVars, workVars
  <1>3. checker'.work = checker.work \ {w}
    BY <1>1, <1>2 DEF Drop, Shape, TypeOK
  <1>4. ASSUME NEW x \in rows'
        PROVE  \/ x \in rows /\ ~ Same(x)
               \/ Same(x) /\ x.status = w.verdict
    <2>1. PICK row \in rows :
            x = IF Same(row) THEN [row EXCEPT !.status = w.verdict] ELSE row
      BY <1>2
    <2>2. row \in Row
      BY <1>1, Types
    <2>3. CASE ~ Same(row)
      BY <2>1, <2>3
    <2>4. CASE Same(row)
      <3>1. x = [row EXCEPT !.status = w.verdict]
        BY <2>1, <2>4
      <3>2. x.id = row.id /\ x.version = row.version /\ x.status = w.verdict
        BY <2>2, <3>1 DEF Row
      <3>3. QED
        BY <2>4, <3>2
    <2>5. QED
      BY <2>3, <2>4
  <1>5. \A row \in rows : ~ Same(row) => row \in rows'
    BY <1>2
  <1>6. /\ \A row \in rows : Current(s, row.version) => row \in rows'
        /\ \A x \in rows' : Current(s, x.version) => x \in rows
    BY <1>1, <1>4, <1>5
  <1> HIDE DEF Same
  <1>7. \A n : Current(s, n)' <=> Current(s, n)
    BY <1>2, Still
  <1>8. UnderReview(s)'
    <2>1. ASSUME NEW x \in rows', x.id = s, x.status = "PENDING"
          PROVE  Current(s, x.version) \/ Closing(x)'
      <3>1. x \in rows /\ ~ Same(x)
        BY <1>1, <1>4, <2>1
      <3>2. Closing(x) => Closing(x)'
        BY <1>3, <3>1 DEF Closing, Same
      <3>3. QED
        BY <2>1, <3>1, <3>2 DEF Sound, UnderReview
    <2>2. QED
      BY <1>2, <1>3, <1>7, <2>1 DEF Sound, UnderReview, Current, L!Status
  <1>9. Alone(s)'
    <2>1. \A h \in Holders(s)' : h \in Holders(s)
      BY <1>2, <1>6, <1>7 DEF Holders
    <2>2. QED
      BY <2>1 DEF Sound, Alone
  <1>10. Ticketed(s)'
    BY <1>2, <1>6, <1>7 DEF Sound, Ticketed, Asks, Current, L!Status
  <1>11. Checked(s)'
    BY <1>2, <1>3, <1>6 DEF Sound, UnderReview, Checked
  <1>12. QED
    BY <1>8, <1>9, <1>10, <1>11 DEF Sound

LEMMA CheckerSound ==
  ASSUME IInv, Common, NEW s \in ServiceId, Sound(s), faults'[s] = 0, Checker
  PROVE  Sound(s)'
  BY SearchDecidedSound, OtherWorkSound, ApplySound, SaveVerdictSound, UpdateSound
  DEF Checker

LEMMA SoundStep ==
  ASSUME IInv, Latest, Common, NEW s \in ServiceId, Sound(s), Steady(s)', [Next]_vars
  PROVE  Sound(s)'
  <1>1. faults'[s] = 0
    BY DEF Steady
  <1>2. CASE UNCHANGED vars
    <2>1. Aside(s)
      BY <1>2 DEF Aside, vars, lifecycleVars, workVars, trackVars
    <2>2. QED
      BY <2>1, AsideSound DEF IInv
  <1>3. QED
    BY <1>1, <1>2, RequestSound, WatchSound, ValidationSound, ReviewSound, DecideSound,
       CheckerSound DEF Next

-----------------------------------------------------------------------------
LEMMA DecidedInit == Init => DecidedInv
  <1> SUFFICES ASSUME Init
               PROVE  Latest /\ Common /\ \A s \in ServiceId : Sound(s)
    BY IInvInit DEF DecidedInv
  <1>1. /\ \A s \in ServiceId : lifecycle[s] = NoItem
        /\ \A c \in Client : calls[c] = Idle
        /\ versions = {} /\ changed = {} /\ rows = {}
        /\ checker.rows = {} /\ checker.work = {} /\ tickets = <<>>
        /\ requestValidation = {} /\ requestReview = {}
        /\ \A v \in Validator : validating[v] = Idle
        /\ \A r \in Reviewer : reviewing[r] = Idle
    BY DEF Init, L!Init, NoRun
  <1>2. DOMAIN tickets = {}
    BY <1>1
  <1>3. Latest /\ Common
    BY <1>1 DEF Latest, Common, Asking, Saving, Addressed, Running, At, Asks, Client
  <1>4. ASSUME NEW s \in ServiceId
        PROVE  Sound(s)
    <2>1. UnderReview(s) /\ Ticketed(s) /\ Checked(s)
      BY <1>1, <1>2 DEF UnderReview, Ticketed, Checked, Asks
    <2>2. Alone(s)
      BY <1>1 DEF Alone, Holders
    <2>3. QED
      BY <2>1, <2>2 DEF Sound
  <1>5. QED
    BY <1>3, <1>4

LEMMA DecidedStep == DecidedInv /\ [Next]_vars => DecidedInv'
  <1> SUFFICES ASSUME DecidedInv, [Next]_vars PROVE DecidedInv'
    OBVIOUS
  <1>1. IInv /\ Latest /\ Common /\ Shape /\ Dated
    BY DEF DecidedInv, IInv
  <1>2. IInv' /\ Latest' /\ Common'
    BY <1>1, IInvStep, LatestStep, CommonStep
  <1>3. ASSUME NEW s \in ServiceId, Steady(s)'
        PROVE  Sound(s)'
    <2>1. Steady(s)
      BY <1>1, <1>3, WasSteady
    <2>2. Sound(s)
      BY <2>1 DEF DecidedInv
    <2>3. QED
      BY <1>1, <1>3, <2>2, SoundStep
  <1>4. QED
    BY <1>2, <1>3 DEF DecidedInv

\* A document that is written as approved or rejected was ruled so.
LEMMA WrittenIsRuled ==
  ASSUME DecidedInv, [Next]_vars, NEW s \in ServiceId, Steady(s)',
         lifecycle'[s] # lifecycle[s], lifecycle'[s].state \in {"approved", "rejected"}
  PROVE  Ruled(s, lifecycle'[s].state, LastSubmission(s))
  <1>1. IInv /\ Latest /\ Common /\ Shape /\ Dated /\ Sound(s)
    BY WasSteady DEF DecidedInv, IInv
  <1>2. ASSUME NEW n, Current(s, n)
        PROVE  LastSubmission(s) = n
    BY <1>1, <1>2, CurrentIsLast
  <1>3. ASSUME NEW c \in Client, L!Save(c)
        PROVE  calls[c].id = s /\ calls[c].state = lifecycle'[s].state
    BY <1>1, <1>3, SaveWrites DEF Wrote
  <1>4. CASE StartRequest
    <2>1. PICK u \in User, z \in ServiceId : L!UserRequest(u, z)
      BY <1>4 DEF StartRequest
    <2>2. lifecycle[z] # NoItem /\ Wrote(z, lifecycle[z].state)
      BY <1>1, <2>1, OwnerAsks DEF Client
    <2>3. z = s
      BY <2>2 DEF Wrote
    <2>4. lifecycle[s].state = "submitted" <=> lifecycle[s].state \in {"approved", "rejected"}
      BY <1>1, <2>2, <2>3, WritesOrderly DEF Steady
    <2>5. lifecycle'[s].state = lifecycle[s].state
      BY <2>2, <2>3 DEF Wrote
    <2>6. QED
      BY <2>4, <2>5
  <1>5. CASE EndRequest
    <2>1. PICK u \in User : L!Save(u)
      BY <1>5 DEF EndRequest, L!SaveError
    <2>2. calls[u].state \notin {"approved", "rejected"}
      BY <1>1, <2>1 DEF Common, Asking, L!Save
    <2>3. QED
      BY <1>3, <2>1, <2>2 DEF Client
  <1>6. ASSUME NEW v \in Validator, Validation(v)
        PROVE  Ruled(s, lifecycle'[s].state, LastSubmission(s))
    <2>1. validating[v] # Idle /\ L!Save(v)
      <3>1. \A z : L!Approve(v, z) \/ L!Reject(v, z) => UNCHANGED lifecycle
        BY DEF L!Approve, L!Reject, L!apply
      <3>2. PICK saved \in BOOLEAN, fault \in BOOLEAN : EndValidation(v, saved, fault)
        BY <1>6, <3>1 DEF Validation, PassOn, Validate, ValidateTooLate, lifecycleVars
      <3>3. QED
        BY <3>2 DEF EndValidation, L!SaveError
    <2>2. calls[v].id = s /\ calls[v].state = lifecycle'[s].state
      BY <1>3, <2>1 DEF Client
    <2>3. Current(s, validating[v].version)
      BY <1>1, <2>1, <2>2 DEF Sound, UnderReview, IInv, Verdicts, ValidatorCalls
    <2>4. QED
      BY <1>2, <2>1, <2>2, <2>3 DEF Ruled
  <1>7. ASSUME NEW r \in Reviewer, Review(r)
        PROVE  Ruled(s, lifecycle'[s].state, LastSubmission(s))
    <2>1. EndAutoApprove(r)
      <3>1. \A z : L!Approve(r, z) \/ L!SaveError(r) => UNCHANGED lifecycle
        BY DEF L!Approve, L!apply, L!SaveError
      <3>2. QED
        BY <1>7, <3>1 DEF Review, SearchTicket, AutoApprove, AutoApproveTooLate,
           CreateTicket, UpdateTicket, ReopenTicket, InsertRow, FailReview, lifecycleVars
    <2>2. At(r, "approve") /\ L!Save(r)
      BY <2>1 DEF EndAutoApprove
    <2>3. calls[r].id = s /\ calls[r].state = lifecycle'[s].state
      BY <1>3, <2>2 DEF Client
    <2>4. Current(s, reviewing[r].message.version) /\ lifecycle'[s].state = "approved"
      BY <1>1, <2>2, <2>3 DEF Sound, UnderReview, Common, Saving, IInv, Verdicts,
                              ReviewerCalls, At
    <2>5. QED
      BY <1>2, <2>2, <2>3, <2>4 DEF Ruled
  <1>8. CASE Checker
    <2>1. PICK w \in checker.work : w.step = "save" /\ L!Save(w.ticket)
      <3>1. \A c, z : L!Approve(c, z) \/ L!Reject(c, z) \/ L!SaveError(c) => UNCHANGED lifecycle
        BY DEF L!Approve, L!Reject, L!apply, L!SaveError
      <3>2. QED
        BY <1>8, <3>1 DEF Checker, ReadPending, SearchDecided, FailSearch, ApplyVerdict,
                          SaveVerdict, UpdateStatus, lifecycleVars
    <2>2. w.ticket \in Client
      BY <1>1, Types DEF Client
    <2>3. calls[w.ticket].id = s /\ calls[w.ticket].state = lifecycle'[s].state
      BY <1>3, <2>1, <2>2
    <2>4. Current(s, w.row.version) /\ w.row.id = s /\ w.row \in rows
      BY <1>1, <2>1, <2>3 DEF Sound, UnderReview, Checked, IInv, Verdicts, CheckerCalls
    <2>5. tickets[w.ticket].version = w.row.version
      BY <1>1, <2>4 DEF Sound, Ticketed, Common, Running
    <2>6. (lifecycle'[s].state = "approved") <=> (w.verdict = "APPROVED")
      BY <1>1, <2>1, <2>3 DEF Common, Saving
    <2>7. QED
      BY <1>2, <2>1, <2>3, <2>4, <2>5, <2>6 DEF Ruled
  <1>9. QED
    BY <1>4, <1>5, <1>6, <1>7, <1>8 DEF Next, Watch, Operator, Decide, vars, lifecycleVars

\* A submission is approved or rejected by a verdict that was given on that very
\* version, as long as no step about the service failed and its versions are orderly,
\* whatever happens to the other services and whoever asks for what.
THEOREM DecidedCorrect == Spec => DecidedWasReviewed
  <1>1. DecidedInv /\ [Next]_vars =>
          [\A s \in ServiceId :
             /\ faults'[s] = 0 /\ Orderly(s)'
             /\ lifecycle'[s] # lifecycle[s]
             /\ lifecycle'[s].state \in {"approved", "rejected"}
             => Ruled(s, lifecycle'[s].state, LastSubmission(s))]_vars
    BY WrittenIsRuled DEF Steady
  <1>2. QED
    BY <1>1, DecidedInit, DecidedStep, PTL DEF Spec, DecidedWasReviewed
=============================================================================
