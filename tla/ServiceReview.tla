---------------------------- MODULE ServiceReview ----------------------------
(***************************************************************************)
(* The review of a submitted service.                                      *)
(*                                                                         *)
(* The watcher of the lifecycle puts every submitted document in the       *)
(* request-validation queue. A validator (service-validation-handler.ts)   *)
(* rejects it, approves it when nothing to be reviewed changed, or passes  *)
(* it on to the request-review queue. There a reviewer                     *)
(* (request-review-handler.ts) opens or reuses a Jira ticket and saves a   *)
(* PENDING row with its reference in the service_review table. Operators   *)
(* decide the tickets; a timer (review-checker-handler.ts) looks for the   *)
(* decided tickets of the pending rows, applies the verdict to the service *)
(* and updates the row.                                                    *)
(*                                                                         *)
(* Verdicts are applied by service id, through the same two-step machine   *)
(* as every other request (ServiceLifecycle).                              *)
(***************************************************************************)
EXTENDS Naturals, Sequences, FiniteSets

CONSTANTS ServiceId, Data, Group, NoGroup, NoItem, Idle, MaxVersion,
          User,         \* requests of the owners that can be in flight
          Validator,    \* handlers of request-validation, over all instances
          Reviewer,     \* handlers of request-review
          MaxDequeue,   \* maxDequeueCount
          MaxTicket,    \* bound: tickets that can be opened
          MaxFault      \* bound: lost calls and stopped instances, for each service

Ticket == 1..MaxTicket

\* The checker has one call of the state machine for each decided ticket.
Client == User \cup Validator \cup Reviewer \cup Ticket

ASSUME GroupAssumption == NoGroup \notin Group
ASSUME BoundAssumption ==
  MaxVersion \in Nat /\ MaxTicket \in Nat /\ MaxFault \in Nat
ASSUME DequeueAssumption == MaxDequeue \in Nat \ {0}

\* A request is of one kind.
ASSUME ClientAssumption ==
  /\ User \cap (Validator \cup Reviewer \cup Ticket) = {}
  /\ Validator \cap (Reviewer \cup Ticket) = {}
  /\ Reviewer \cap Ticket = {}

VARIABLES
  lifecycle, etag, calls, versions,    \* see ServiceLifecycle
  changed,              \* services with a change the watcher has not handled
  requestValidation, requestReview,    \* the queues
  validating,           \* the message each validator is deciding on
  reviewing,            \* the message of each reviewer and its next step
  tickets,              \* Jira issues
  rows,                 \* the service_review table
  checker,              \* the run of the timer: pending rows, then verdicts
  lost,                 \* services with a message given up
  faults,               \* faults so far, of the steps about each service
  trusted               \* services whose owner is in the inclusion list

lifecycleVars == <<lifecycle, etag, calls, versions>>
workVars == <<requestValidation, requestReview, validating, reviewing, lost>>
trackVars == <<tickets, rows>>
vars ==
  <<lifecycleVars, changed, workVars, trackVars, checker, faults, trusted>>

L == INSTANCE ServiceLifecycle

-----------------------------------------------------------------------------
(* What goes wrong                                                          *)

Fault(s) == faults[s] < MaxFault /\ faults' = [faults EXCEPT ![s] = @ + 1]
NoFault == UNCHANGED faults

\* A step about s that may or may not be hit by a fault.
May(s, fault) == IF fault THEN Fault(s) ELSE NoFault

\* A message that was delivered and not deleted is delivered again, up to
\* maxDequeueCount times.
PutBack(queue, m) ==
  IF m.dequeueCount + 1 < MaxDequeue
  THEN queue \cup {[m EXCEPT !.dequeueCount = @ + 1]}
  ELSE queue

GiveUp(m) ==
  lost' = IF m.dequeueCount + 1 < MaxDequeue THEN lost ELSE lost \cup {m.id}

Message == [id : ServiceId, version : Nat, dequeueCount : 0..MaxDequeue - 1]

\* What a reviewer does of a message: its next step, and the ticket it is about.
Step == {"approve", "create", "update", "reopen", "insert"}
Task == [message : Message, step : Step, ticket : 0..MaxTicket]

\* The markers are not documents, nor what a handler holds.
ASSUME MarkerAssumption ==
  /\ NoItem \notin L!Document
  /\ Idle \notin L!Call \cup Message \cup Task

-----------------------------------------------------------------------------
(* The owner, and the watcher                                               *)

Feed == changed' = changed \cup {s \in ServiceId : lifecycle'[s] # lifecycle[s]}

StartRequest ==
  /\ \E u \in User, s \in ServiceId : L!UserRequest(u, s)
  /\ Feed
  /\ UNCHANGED <<workVars, trackVars, checker, faults, trusted>>

EndRequest ==
  /\ \E u \in User : (L!Save(u) /\ NoFault) \/ (L!SaveError(u) /\ Fault(calls[u].id))
  /\ Feed
  /\ UNCHANGED <<workVars, trackVars, checker, trusted>>

\* onSubmitHandler: the version of the message is the etag of the document. A
\* fault stops the watcher before the checkpoint, and the change comes again.
Watch(s, fault) ==
  /\ s \in changed
  /\ May(s, fault)
  /\ changed' = IF fault THEN changed ELSE changed \ {s}
  /\ requestValidation' =
       IF lifecycle[s].state = "submitted"
       THEN requestValidation \cup
              {[id |-> s, version |-> lifecycle[s].version, dequeueCount |-> 0]}
       ELSE requestValidation
  /\ UNCHANGED <<lifecycleVars, requestReview, validating, reviewing, lost,
                 trackVars, checker, trusted>>

-----------------------------------------------------------------------------
(* onRequestValidation                                                      *)

\* The service has no publication, or what it changes must be looked at: the
\* message goes on to the reviewer. A fault stops the validator after that and
\* before the message is deleted.
PassOn(v, m, fault) ==
  /\ validating[v] = Idle
  /\ m \in requestValidation
  /\ May(m.id, fault)
  /\ requestReview' = requestReview \cup {[m EXCEPT !.dequeueCount = 0]}
  /\ requestValidation' = IF fault THEN PutBack(requestValidation \ {m}, m)
                          ELSE requestValidation \ {m}
  /\ IF fault THEN GiveUp(m) ELSE UNCHANGED lost
  /\ UNCHANGED <<lifecycleVars, changed, validating, reviewing, trackVars,
                 checker, trusted>>

\* Only an approval puts a service in the publication container.
WasApproved(s) == \E v \in versions : v.id = s /\ v.document.state = "approved"

\* The content is not valid or duplicates another service (reject), or the
\* properties to be looked at are those already published (approve).
Validate(v, m, verdict) ==
  /\ validating[v] = Idle
  /\ m \in requestValidation
  /\ verdict = "approved" => WasApproved(m.id)
  /\ requestValidation' = requestValidation \ {m}
  /\ IF verdict = "approved" THEN L!Approve(v, m.id) ELSE L!Reject(v, m.id)
  /\ validating' = [validating EXCEPT ![v] = m]
  /\ UNCHANGED <<changed, requestReview, reviewing, lost, trackVars, checker,
                 faults, trusted>>

\* The service is not submitted any more: FsmNoTransitionMatchedError fails the
\* function, and the message comes again.
ValidateTooLate(v, m) ==
  /\ validating[v] = Idle
  /\ m \in requestValidation
  /\ L!Status[m.id] # "submitted"
  /\ requestValidation' = PutBack(requestValidation \ {m}, m)
  /\ GiveUp(m)
  /\ UNCHANGED <<lifecycleVars, changed, requestReview, validating, reviewing,
                 trackVars, checker, faults, trusted>>

\* The verdict is saved and the message deleted. A fault loses the first, or
\* only the second.
EndValidation(v, saved, fault) ==
  /\ validating[v] # Idle
  /\ May(validating[v].id, fault)
  /\ IF saved THEN L!Save(v) ELSE fault /\ L!SaveError(v)
  /\ Feed
  /\ validating' = [validating EXCEPT ![v] = Idle]
  /\ requestValidation' = IF fault THEN PutBack(requestValidation, validating[v])
                          ELSE requestValidation
  /\ IF fault THEN GiveUp(validating[v]) ELSE UNCHANGED lost
  /\ UNCHANGED <<requestReview, reviewing, trackVars, checker, trusted>>

-----------------------------------------------------------------------------
(* onRequestReview                                                          *)

Go(r, m, step, ticket) ==
  reviewing' = [reviewing EXCEPT ![r] = [message |-> m, step |-> step,
                                         ticket |-> ticket]]

\* Issues found by service id and status NEW, REVIEW or REJECTED.
PendingAndRejected(s) ==
  {t \in DOMAIN tickets : tickets[t].id = s /\ tickets[t].status # "APPROVED"}

\* Wrong on purpose: no ticket is created when none is found.
SearchTicketOnly(r, m) ==
  /\ reviewing[r] = Idle
  /\ m \in requestReview
  /\ m.id \notin trusted
  /\ requestReview' = requestReview \ {m}
  /\ Go(r, m, "insert", Cardinality(PendingAndRejected(m.id)))
  /\ UNCHANGED <<lifecycleVars, changed, requestValidation, validating, lost,
                 trackVars, checker, faults, trusted>>

\* One of the issues is used as it is, or updated if it is rejected; a new one
\* is created if there is none.
SearchTicket(r, m) ==
  /\ reviewing[r] = Idle
  /\ m \in requestReview
  /\ m.id \notin trusted
  /\ requestReview' = requestReview \ {m}
  /\ \/ PendingAndRejected(m.id) = {} /\ Go(r, m, "create", 0)
     \/ \E t \in PendingAndRejected(m.id) :
          Go(r, m, IF tickets[t].status = "REJECTED" THEN "update" ELSE "insert", t)
  /\ UNCHANGED <<lifecycleVars, changed, requestValidation, validating, lost,
                 trackVars, checker, faults, trusted>>

At(r, step) == reviewing[r] # Idle /\ reviewing[r].step = step

CreateTicket(r) ==
  /\ At(r, "create")
  /\ Len(tickets) < MaxTicket
  /\ LET m == reviewing[r].message IN
       /\ tickets' = Append(tickets, [id |-> m.id, version |-> m.version,
                                      status |-> "OPEN"])
       /\ Go(r, m, "insert", Len(tickets) + 1)
  /\ UNCHANGED <<lifecycleVars, changed, requestValidation, requestReview,
                 validating, lost, rows, checker, faults, trusted>>

\* Wrong on purpose: the ticket is reopened with its old description.
UpdateNothing(r) ==
  /\ At(r, "update")
  /\ Go(r, reviewing[r].message, "reopen", reviewing[r].ticket)
  /\ UNCHANGED <<lifecycleVars, changed, requestValidation, requestReview,
                 validating, lost, trackVars, checker, faults, trusted>>

\* updateJiraIssue, then reOpenJiraIssue.
UpdateTicket(r) ==
  /\ At(r, "update")
  /\ LET m == reviewing[r].message
         t == reviewing[r].ticket IN
       /\ tickets' = [tickets EXCEPT ![t].version = m.version]
       /\ Go(r, m, "reopen", t)
  /\ UNCHANGED <<lifecycleVars, changed, requestValidation, requestReview,
                 validating, lost, rows, checker, faults, trusted>>

ReopenTicket(r) ==
  /\ At(r, "reopen")
  /\ LET t == reviewing[r].ticket IN
       /\ tickets' = [tickets EXCEPT ![t].status = "OPEN"]
       /\ Go(r, reviewing[r].message, "insert", t)
  /\ UNCHANGED <<lifecycleVars, changed, requestValidation, requestReview,
                 validating, lost, rows, checker, faults, trusted>>

\* saveTicketReference: service id and version are the primary key, and its
\* violation counts as a success. The message is deleted, unless a fault stops
\* the reviewer before that.
InsertRow(r, fault) ==
  /\ At(r, "insert")
  /\ May(reviewing[r].message.id, fault)
  /\ LET m == reviewing[r].message
         inTable == \E row \in rows : row.id = m.id /\ row.version = m.version IN
       /\ rows' = IF inTable THEN rows
                  ELSE rows \cup {[id |-> m.id, version |-> m.version,
                                   ticket |-> reviewing[r].ticket,
                                   status |-> "PENDING"]}
       /\ requestReview' = IF fault THEN PutBack(requestReview, m)
                           ELSE requestReview
       /\ IF fault THEN GiveUp(m) ELSE UNCHANGED lost
  /\ reviewing' = [reviewing EXCEPT ![r] = Idle]
  /\ UNCHANGED <<lifecycleVars, changed, requestValidation, validating, tickets,
                 checker, trusted>>

\* Wrong on purpose: the error is swallowed, and the message deleted.
SwallowReview(r) ==
  /\ reviewing[r] # Idle
  /\ Fault(reviewing[r].message.id)
  /\ IF reviewing[r].step = "approve" THEN L!SaveError(r)
                                      ELSE UNCHANGED lifecycleVars
  /\ reviewing' = [reviewing EXCEPT ![r] = Idle]
  /\ UNCHANGED <<changed, requestValidation, requestReview, validating, lost,
                 trackVars, checker, trusted>>

\* A call to Jira, to the database or to APIM fails, or the instance stops.
FailReview(r) ==
  /\ reviewing[r] # Idle
  /\ Fault(reviewing[r].message.id)
  /\ IF reviewing[r].step = "approve" THEN L!SaveError(r)
                                      ELSE UNCHANGED lifecycleVars
  /\ requestReview' = PutBack(requestReview, reviewing[r].message)
  /\ GiveUp(reviewing[r].message)
  /\ reviewing' = [reviewing EXCEPT ![r] = Idle]
  /\ UNCHANGED <<changed, requestValidation, validating, trackVars, checker,
                 trusted>>

\* approveService, for the users in the inclusion list.
AutoApprove(r, m) ==
  /\ reviewing[r] = Idle
  /\ m \in requestReview
  /\ m.id \in trusted
  /\ requestReview' = requestReview \ {m}
  /\ L!Approve(r, m.id)
  /\ Go(r, m, "approve", 0)
  /\ UNCHANGED <<changed, requestValidation, validating, lost, trackVars,
                 checker, faults, trusted>>

AutoApproveTooLate(r, m) ==
  /\ reviewing[r] = Idle
  /\ m \in requestReview
  /\ m.id \in trusted
  /\ L!Status[m.id] # "submitted"
  /\ requestReview' = PutBack(requestReview \ {m}, m)
  /\ GiveUp(m)
  /\ UNCHANGED <<lifecycleVars, changed, requestValidation, validating,
                 reviewing, trackVars, checker, faults, trusted>>

EndAutoApprove(r) ==
  /\ At(r, "approve")
  /\ L!Save(r)
  /\ Feed
  /\ reviewing' = [reviewing EXCEPT ![r] = Idle]
  /\ UNCHANGED <<requestValidation, requestReview, validating, lost, trackVars,
                 checker, faults, trusted>>

-----------------------------------------------------------------------------
(* The operators, in Jira                                                   *)

Decide(t, verdict) ==
  /\ tickets[t].status = "OPEN"
  /\ tickets' = [tickets EXCEPT ![t].status = verdict]
  /\ UNCHANGED <<lifecycleVars, changed, workVars, rows, checker, faults,
                 trusted>>

-----------------------------------------------------------------------------
(* The checker                                                              *)

NoRun == [rows |-> {}, work |-> {}]

\* executeOnPending reads the pending rows.
ReadPending ==
  /\ checker = NoRun
  /\ checker' = [NoRun EXCEPT !.rows = {row \in rows : row.status = "PENDING"}]
  /\ checker' # NoRun
  /\ UNCHANGED <<lifecycleVars, changed, workVars, trackVars, faults, trusted>>

\* buildIssueItemPairs: each decided ticket is paired with one of the rows that
\* refer to it, the last one in the Map. If the search fails, the run ends.
SearchDecided ==
  /\ checker.rows # {}
  /\ NoFault
  /\ LET decided == {t \in {row.ticket : row \in checker.rows} :
                       tickets[t].status \in {"APPROVED", "REJECTED"}} IN
     \E item \in [decided -> checker.rows] :
       /\ \A t \in decided : item[t].ticket = t
       /\ checker' = [rows |-> {},
                      work |-> {[ticket |-> t, row |-> item[t], step |-> "apply",
                                 verdict |-> tickets[t].status] : t \in decided}]
  /\ UNCHANGED <<lifecycleVars, changed, workVars, trackVars, trusted>>

\* The failure counts for one of the services whose rows were read.
FailSearch ==
  /\ \E row \in checker.rows : Fault(row.id)
  /\ checker' = NoRun
  /\ UNCHANGED <<lifecycleVars, changed, workVars, trackVars, trusted>>

Advance(w, step) ==
  checker' = [checker EXCEPT !.work = (@ \ {w}) \cup {[w EXCEPT !.step = step]}]

Drop(w) == checker' = [checker EXCEPT !.work = @ \ {w}]

\* makeServiceLifecycleApply: FsmNoTransitionMatchedError is skipped, any other
\* error leaves the row as it is.
ApplyVerdict(w) ==
  /\ w.step = "apply"
  /\ \/ /\ IF w.verdict = "APPROVED" THEN L!Approve(w.ticket, w.row.id)
                                     ELSE L!Reject(w.ticket, w.row.id)
        /\ Advance(w, "save")
        /\ NoFault
     \/ /\ L!Status[w.row.id] # "submitted"
        /\ Advance(w, "update")
        /\ NoFault /\ UNCHANGED lifecycleVars
     \/ Drop(w) /\ Fault(w.row.id) /\ UNCHANGED lifecycleVars
  /\ UNCHANGED <<changed, workVars, trackVars, trusted>>

\* Wrong on purpose: the row is updated even if the verdict was not saved.
SaveVerdictAnyway(w) ==
  /\ w.step = "save"
  /\ \/ L!Save(w.ticket) /\ NoFault
     \/ L!SaveError(w.ticket) /\ Fault(w.row.id)
  /\ Advance(w, "update")
  /\ Feed
  /\ UNCHANGED <<workVars, trackVars, trusted>>

SaveVerdict(w) ==
  /\ w.step = "save"
  /\ \/ L!Save(w.ticket) /\ Advance(w, "update") /\ NoFault
     \/ L!SaveError(w.ticket) /\ Drop(w) /\ Fault(w.row.id)
  /\ Feed
  /\ UNCHANGED <<workVars, trackVars, trusted>>

\* updateStatus, by service id and version. executeOnPending ignores a failure.
UpdateStatus(w) ==
  /\ w.step = "update"
  /\ \/ /\ rows' = {IF row.id = w.row.id /\ row.version = w.row.version
                    THEN [row EXCEPT !.status = w.verdict] ELSE row : row \in rows}
        /\ NoFault
     \/ UNCHANGED rows /\ Fault(w.row.id)
  /\ Drop(w)
  /\ UNCHANGED <<lifecycleVars, changed, workVars, tickets, trusted>>

-----------------------------------------------------------------------------
Init ==
  /\ L!Init
  /\ changed = {}
  /\ requestValidation = {} /\ requestReview = {}
  /\ validating = [v \in Validator |-> Idle]
  /\ reviewing = [r \in Reviewer |-> Idle]
  /\ tickets = <<>>
  /\ rows = {}
  /\ checker = NoRun
  /\ lost = {}
  /\ faults = [s \in ServiceId |-> 0]
  /\ trusted \in SUBSET ServiceId

Validation(v) ==
  \/ \E m \in requestValidation :
       \/ \E fault \in BOOLEAN : PassOn(v, m, fault)
       \/ \E verdict \in {"approved", "rejected"} : Validate(v, m, verdict)
       \/ ValidateTooLate(v, m)
  \/ \E saved, fault \in BOOLEAN : EndValidation(v, saved, fault)

Review(r) ==
  \/ \E m \in requestReview : \/ SearchTicket(r, m)
                              \/ AutoApprove(r, m)
                              \/ AutoApproveTooLate(r, m)
  \/ CreateTicket(r)
  \/ UpdateTicket(r)
  \/ ReopenTicket(r)
  \/ \E fault \in BOOLEAN : InsertRow(r, fault)
  \/ EndAutoApprove(r)
  \/ FailReview(r)

Operator(t) == \E verdict \in {"APPROVED", "REJECTED"} : Decide(t, verdict)

Checker ==
  \/ ReadPending
  \/ SearchDecided \/ FailSearch
  \/ \E w \in checker.work : ApplyVerdict(w) \/ SaveVerdict(w) \/ UpdateStatus(w)

Next ==
  \/ StartRequest
  \/ EndRequest
  \/ \E s \in ServiceId, fault \in BOOLEAN : Watch(s, fault)
  \/ \E v \in Validator : Validation(v)
  \/ \E r \in Reviewer : Review(r)
  \/ \E t \in DOMAIN tickets : Operator(t)
  \/ Checker

Spec == Init /\ [][Next]_vars

-----------------------------------------------------------------------------
(* Properties                                                               *)

Row == [id : ServiceId, version : Nat, ticket : Ticket,
        status : {"PENDING", "APPROVED", "REJECTED"}]

Work == [ticket : Ticket, row : Row, verdict : {"APPROVED", "REJECTED"},
         step : {"apply", "save", "update"}]

\* The shape of the queues, of Jira and of the table.
TypeOK ==
  /\ changed \in SUBSET ServiceId /\ lost \in SUBSET ServiceId
  /\ requestValidation \in SUBSET Message /\ requestReview \in SUBSET Message
  /\ validating \in [Validator -> Message \cup {Idle}]
  /\ reviewing \in [Reviewer -> Task \cup {Idle}]
  /\ tickets \in Seq([id : ServiceId, version : Nat,
                      status : {"OPEN", "APPROVED", "REJECTED"}])
  /\ rows \in SUBSET Row
  /\ checker \in [rows : SUBSET Row, work : SUBSET Work]
  /\ faults \in [ServiceId -> 0..MaxFault]
  /\ trusted \in SUBSET ServiceId

\* The version of the last submission of s.
LastSubmission(s) ==
  LET submitted == {w.document.version : w \in
                      {v \in versions : v.id = s /\ v.document.state = "submitted"}}
  IN  CHOOSE n \in submitted : \A k \in submitted : k <= n

\* A handler or the checker is about to save a verdict on s that was given on a
\* version of it: of the message it handles, or of the text of the ticket.
Ruled(s, verdict, version) ==
  \/ \E v \in Validator :
       /\ validating[v] # Idle
       /\ calls[v].id = s /\ calls[v].state = verdict
       /\ validating[v].version = version
  \/ \E r \in Reviewer :
       /\ At(r, "approve") /\ verdict = "approved"
       /\ calls[r].id = s
       /\ reviewing[r].message.version = version
  \/ \E w \in checker.work :
       /\ w.step = "save"
       /\ calls[w.ticket].id = s /\ calls[w.ticket].state = verdict
       /\ verdict = "approved" <=> w.verdict = "APPROVED"
       /\ tickets[w.ticket].version = version

\* v is the version of its service that w was written over.
Before(v, w) ==
  /\ v.id = w.id
  /\ v.document.version < w.document.version
  /\ \A u \in versions : u.id = v.id =>
       \/ u.document.version <= v.document.version
       \/ u.document.version >= w.document.version

\* Nothing but a verdict was ever written over a submitted version of s, and a
\* verdict over nothing else: no request of an owner was saved after it had been
\* overtaken by another one, and the group was patched outside of a review.
Orderly(s) ==
  \A v, w \in versions : v.id = s /\ Before(v, w) =>
    (v.document.state = "submitted"
       <=> w.document.state \in {"approved", "rejected"})

\* Nobody but the review decides, and on what it has seen: a submission of a
\* service is approved or rejected by a verdict that was given on that very
\* version, as long as its versions are orderly and no step about it failed. (A
\* step that fails can leave a second message, a pending row or an open ticket
\* with an older version.)
DecidedWasReviewed ==
  [][\A s \in ServiceId :
       /\ faults'[s] = 0 /\ Orderly(s)'
       /\ lifecycle'[s] # lifecycle[s]
       /\ lifecycle'[s].state \in {"approved", "rejected"}
       => Ruled(s, lifecycle'[s].state, LastSubmission(s))]_vars

\* An approval takes the content it read: whatever requests overlap with it, what
\* is approved is exactly something that was submitted (see ServiceLifecycle).
ApprovedWasSubmitted == L!ApprovedWasSubmitted

\* Nothing in the queues or in the hands of the handlers is about s.
Quiet(s) ==
  /\ s \notin changed /\ s \notin lost
  /\ \A m \in requestValidation \cup requestReview : m.id # s
  /\ \A v \in Validator : validating[v] # Idle => validating[v].id # s
  /\ \A r \in Reviewer : reviewing[r] # Idle => reviewing[r].message.id # s

\* A submitted service is never forgotten, whatever fails: it is on its way
\* through the queues, or the checker will look for its ticket again.
SubmittedIsTracked ==
  \A s \in ServiceId :
    L!Status[s] = "submitted" /\ Quiet(s) =>
      \E row \in rows : row.id = s /\ row.status = "PENDING"

\* "The ticket reference is already present in the db": an open ticket nobody is
\* working on has a row that refers to it.
TicketIsReferenced ==
  \A t \in DOMAIN tickets :
    tickets[t].status = "OPEN" /\ Quiet(tickets[t].id) =>
      \E row \in rows : row.ticket = t

-----------------------------------------------------------------------------
(* Liveness                                                                 *)

\* The platform keeps running, the timer fires again and again, and operators
\* decide every ticket.
Fairness ==
  /\ \A s \in ServiceId : WF_vars(Watch(s, FALSE))
  /\ \A v \in Validator : WF_vars(Validation(v))
  /\ \A r \in Reviewer : WF_vars(Review(r))
  /\ \A t \in Ticket : WF_vars(t \in DOMAIN tickets /\ Operator(t))
  /\ WF_vars(Checker)

FairSpec == Spec /\ Fairness

\* A submitted service is eventually approved or rejected, unless one of its
\* messages was given up: a failed step is tried again, by the queue or by the
\* next run of the checker.
ReviewEnds ==
  \A s \in ServiceId :
    L!Status[s] = "submitted" ~> L!Status[s] # "submitted" \/ s \in lost
=============================================================================
