----------------------------- MODULE LegacyReview ----------------------------
(***************************************************************************)
(* The review that legacy users ask for.                                   *)
(*                                                                         *)
(* The legacy system opens the ticket and sends a message; its handler     *)
(* (request-review-legacy-handler.ts) overrides the service to submitted   *)
(* and inserts a pending row. A timer (review-legacy-checker-handler.ts)   *)
(* looks for the tickets of the pending rows that operators have decided,  *)
(* overrides each service with the verdict and then updates the row. Both  *)
(* fetch the service in one step and override it in a later one, whatever  *)
(* was written in between. Users that are not in the inclusion list are    *)
(* left out: their messages are dropped.                                   *)
(***************************************************************************)
EXTENDS Naturals, Sequences, FiniteSets

CONSTANTS
  ServiceId, NoItem, Idle,
  Handler,       \* messages handled at once, over all instances
  MaxTicket,     \* bound: tickets
  MaxChange,     \* bound: what owners do to their services
  MaxRow,        \* bound: versions of rows
  MaxFault       \* bound: errors, stops, messages given up

ASSUME BoundAssumption ==
  MaxTicket \in Nat /\ MaxChange \in Nat /\ MaxRow \in Nat /\ MaxFault \in Nat

VARIABLES
  lifecycle,     \* the state of each service
  tickets,       \* Jira, in the order the tickets were opened
  queue,         \* request-review-legacy: tickets
  handling,      \* what each handler has come to
  rows,          \* service_review_legacy
  checker,       \* the run of the timer
  changes, faults,
  lost,          \* services with a message given up
  deleted,       \* history: services that were deleted
  crossed        \* history: services deleted between a fetch and its override

external == <<tickets, changes, deleted, crossed>>
vars == <<lifecycle, queue, handling, rows, checker, external, faults, lost>>

State == {"draft", "submitted", "approved", "rejected", "deleted"}

\* Completata and DONE are one Jira status in two languages: both are searched
\* for, DONE cannot be decoded.
Verdict == {"APPROVED", "REJECTED", "DONE"}
Decodable == {"APPROVED", "REJECTED"}

Ticket == [id : ServiceId, status : Verdict \cup {"open"}]

Row == [id : ServiceId, version : 1..MaxRow, ticket : 1..MaxTicket,
        status : Decodable \cup {"PENDING"}]

\* What a handler is about to do for a ticket, and the timer for a decided row.
Task == [ticket : 1..MaxTicket, step : {"override", "insert"}]

Review == [row : {row \in Row : row.status = "PENDING"}, verdict : Decodable,
           step : {"fetch", "override", "update"}]

\* The markers are not states, nor what a handler is about to do.
ASSUME MarkerAssumption == NoItem \notin State /\ Idle \notin Task

NoRun == [phase |-> "idle", rows |-> {}, pairs |-> {}]

Fault == faults < MaxFault /\ faults' = faults + 1

-----------------------------------------------------------------------------
(* Legacy users, owners, operators                                          *)

\* The service appears when the synchronisation brings it.
Arrive(s) ==
  /\ lifecycle[s] = NoItem
  /\ lifecycle' = [lifecycle EXCEPT ![s] = "draft"]
  /\ UNCHANGED <<queue, handling, rows, checker, external, faults, lost>>

AskReview(s) ==
  /\ Len(tickets) < MaxTicket
  /\ tickets' = Append(tickets, [id |-> s, status |-> "open"])
  /\ queue' = queue \cup {Len(tickets')}
  /\ UNCHANGED <<lifecycle, handling, rows, checker, changes, faults, lost,
                 deleted, crossed>>

\* Those about to override s with what they have fetched.
Overriding(s) ==
  \/ \E h \in Handler : handling[h] # Idle /\ handling[h].step = "override"
                        /\ tickets[handling[h].ticket].id = s
  \/ \E p \in checker.pairs : p.step = "override" /\ p.row.id = s

\* An edit or a deletion.
ChangeService(s) ==
  /\ changes < MaxChange /\ changes' = changes + 1
  /\ lifecycle[s] \notin {NoItem, "deleted"}
  /\ \/ /\ lifecycle' = [lifecycle EXCEPT ![s] = "draft"]
        /\ lifecycle[s] # "submitted"
        /\ UNCHANGED <<deleted, crossed>>
     \/ /\ lifecycle' = [lifecycle EXCEPT ![s] = "deleted"]
        /\ deleted' = deleted \cup {s}
        /\ crossed' = IF Overriding(s) THEN crossed \cup {s} ELSE crossed
  /\ UNCHANGED <<tickets, queue, handling, rows, checker, faults, lost>>

Decide(t) ==
  /\ tickets[t].status = "open"
  /\ \E verdict \in Verdict : tickets' = [tickets EXCEPT ![t].status = verdict]
  /\ UNCHANGED <<lifecycle, queue, handling, rows, checker, changes, faults, lost,
                 deleted, crossed>>

-----------------------------------------------------------------------------
(* The handler of the queue                                                 *)

\* Wrong on purpose: a deleted service is overridden like any other.
WillSubmitAny(s) == TRUE

WillSubmit(s) == lifecycle[s] # "deleted"

\* processItem, the fetch. The message of a deleted service is done with.
FetchService(h, t) ==
  /\ handling[h] = Idle
  /\ t \in queue
  /\ lifecycle[tickets[t].id] # NoItem
  /\ queue' = queue \ {t}
  /\ handling' = IF WillSubmit(tickets[t].id)
                 THEN [handling EXCEPT ![h] = [ticket |-> t, step |-> "override"]]
                 ELSE handling
  /\ UNCHANGED <<lifecycle, rows, checker, external, faults, lost>>

\* setToSubmitted and override: whatever the service has become.
SetToSubmitted(h) ==
  /\ handling[h] # Idle
  /\ handling[h].step = "override"
  /\ lifecycle' = [lifecycle EXCEPT ![tickets[handling[h].ticket].id] = "submitted"]
  /\ handling' = [handling EXCEPT ![h].step = "insert"]
  /\ UNCHANGED <<queue, rows, checker, external, faults, lost>>

\* dao.insert, under a version of the moment; the message is deleted, or it comes
\* again.
InsertRow(h) ==
  /\ handling[h] # Idle
  /\ handling[h].step = "insert"
  /\ LET t == handling[h].ticket IN
       /\ Cardinality(rows) < MaxRow
       /\ rows' = rows \cup {[id |-> tickets[t].id, version |-> Cardinality(rows) + 1,
                              ticket |-> t, status |-> "PENDING"]}
       /\ \/ UNCHANGED <<queue, faults>>
          \/ queue' = queue \cup {t} /\ Fault
  /\ handling' = [handling EXCEPT ![h] = Idle]
  /\ UNCHANGED <<lifecycle, checker, external, lost>>

\* The override or the insert fails, or the instance stops before it.
FailRequest(h) ==
  /\ handling[h] # Idle
  /\ Fault
  /\ handling' = [handling EXCEPT ![h] = Idle]
  /\ queue' = queue \cup {handling[h].ticket}
  /\ UNCHANGED <<lifecycle, rows, checker, external, lost>>

\* After maxDequeueCount deliveries, those that found no service included.
GiveUp(t) ==
  /\ t \in queue
  /\ Fault
  /\ queue' = queue \ {t}
  /\ lost' = lost \cup {tickets[t].id}
  /\ UNCHANGED <<lifecycle, handling, rows, checker, external>>

-----------------------------------------------------------------------------
(* The timer                                                                *)

\* executeOnPending
ReadPending ==
  /\ checker = NoRun
  /\ \E row \in rows : row.status = "PENDING"
  /\ checker' = [NoRun EXCEPT !.phase = "search",
                              !.rows = {row \in rows : row.status = "PENDING"}]
  /\ UNCHANGED <<lifecycle, queue, handling, rows, external, faults, lost>>

\* The tickets of the rows that Jira finds.
Found == {t \in {row.ticket : row \in checker.rows} : tickets[t].status # "open"}

\* One row for each ticket: the Map keeps the last that was read.
Pairings ==
  {pairing \in SUBSET {row \in checker.rows : row.ticket \in Found} :
     \A t \in Found : Cardinality({row \in pairing : row.ticket = t}) = 1}

Pair(row) == [row |-> row, verdict |-> tickets[row.ticket].status, step |-> "fetch"]

\* Wrong on purpose: what cannot be decoded is approved.
decodeAnything(status) == IF status = "REJECTED" THEN status ELSE "APPROVED"

decodeLegacyJiraIssueStatus(status) == status

\* buildIssueItemPairs, and the start of updateReview: a status that cannot be
\* decoded throws, and the whole batch is left for the next run.
SearchDecided ==
  /\ checker.phase = "search"
  /\ IF \A t \in Found : decodeLegacyJiraIssueStatus(tickets[t].status) \in Decodable
     THEN \E pairing \in Pairings :
            checker' = IF pairing = {} THEN NoRun
                       ELSE [NoRun EXCEPT !.phase = "update",
                                          !.pairs = {Pair(row) : row \in pairing}]
     ELSE checker' = NoRun
  /\ UNCHANGED <<lifecycle, queue, handling, rows, external, faults, lost>>

FailSearch ==
  /\ checker.phase = "search"
  /\ Fault
  /\ checker' = NoRun
  /\ UNCHANGED <<lifecycle, queue, handling, rows, external, lost>>

\* The run is over when the last of its pairs is.
Become(p, next) ==
  LET pairs == (checker.pairs \ {p}) \cup next
  IN checker' = IF pairs = {} THEN NoRun ELSE [checker EXCEPT !.pairs = pairs]

Advance(p, step) == Become(p, {[p EXCEPT !.step = step]})

\* Wrong on purpose: the verdict on a deleted service is an error.
FetchOrFail(p) ==
  /\ p.step = "fetch"
  /\ IF lifecycle[p.row.id] = "deleted" THEN Become(p, {}) ELSE Advance(p, "override")
  /\ UNCHANGED <<lifecycle, queue, handling, rows, external, faults, lost>>

\* makeServiceLifecycleApply, the fetch: a deleted service is skipped.
FetchReviewed(p) ==
  /\ p.step = "fetch"
  /\ Advance(p, IF lifecycle[p.row.id] = "deleted" THEN "update" ELSE "override")
  /\ UNCHANGED <<lifecycle, queue, handling, rows, external, faults, lost>>

\* buildUpdatedServiceLifecycleItem and override.
OverrideVerdict(p) ==
  /\ p.step = "override"
  /\ lifecycle' = [lifecycle EXCEPT ![p.row.id] =
       IF decodeLegacyJiraIssueStatus(p.verdict) = "APPROVED" THEN "approved"
                                                              ELSE "rejected"]
  /\ Advance(p, "update")
  /\ UNCHANGED <<queue, handling, rows, external, faults, lost>>

UpdateStatus(p) ==
  /\ p.step = "update"
  /\ rows' = (rows \ {p.row}) \cup
       {[p.row EXCEPT !.status = decodeLegacyJiraIssueStatus(p.verdict)]}
  /\ Become(p, {})
  /\ UNCHANGED <<lifecycle, queue, handling, external, faults, lost>>

\* Wrong on purpose: the row is updated although the override failed.
UpdateAnyway(p) ==
  /\ Fault
  /\ Advance(p, "update")
  /\ UNCHANGED <<lifecycle, queue, handling, rows, external, lost>>

\* One of the calls fails; the other pairs go on.
FailPair(p) ==
  /\ Fault
  /\ Become(p, {})
  /\ UNCHANGED <<lifecycle, queue, handling, rows, external, lost>>

\* The instance of the timer stops.
StopChecker ==
  /\ checker # NoRun
  /\ Fault
  /\ checker' = NoRun
  /\ UNCHANGED <<lifecycle, queue, handling, rows, external, lost>>

-----------------------------------------------------------------------------
Init ==
  /\ lifecycle \in [ServiceId -> {NoItem, "draft"}]
  /\ tickets = <<>> /\ queue = {}
  /\ handling = [h \in Handler |-> Idle]
  /\ rows = {} /\ checker = NoRun
  /\ changes = 0 /\ faults = 0 /\ lost = {} /\ deleted = {} /\ crossed = {}

People ==
  \/ \E s \in ServiceId : Arrive(s) \/ AskReview(s) \/ ChangeService(s)
  \/ \E t \in DOMAIN tickets : Decide(t)

Request(h) ==
  \/ \E t \in queue : FetchService(h, t)
  \/ SetToSubmitted(h) \/ InsertRow(h) \/ FailRequest(h)

Checker ==
  \/ ReadPending \/ SearchDecided \/ FailSearch \/ StopChecker
  \/ \E p \in checker.pairs :
       FetchReviewed(p) \/ OverrideVerdict(p) \/ UpdateStatus(p) \/ FailPair(p)

Next ==
  \/ People
  \/ \E h \in Handler : Request(h)
  \/ \E t \in queue : GiveUp(t)
  \/ Checker

Spec == Init /\ [][Next]_vars

\* Messages are delivered and the timer goes off. Nobody has to decide anything.
FairSpec == Spec /\ WF_vars(Checker) /\ \A h \in Handler : WF_vars(Request(h))

-----------------------------------------------------------------------------
(* Properties                                                               *)

\* The shape of the state.
TypeOK ==
  /\ lifecycle \in [ServiceId -> State \cup {NoItem}]
  /\ tickets \in Seq(Ticket) /\ queue \subseteq DOMAIN tickets
  /\ handling \in [Handler -> Task \cup {Idle}]
  /\ \A h \in Handler : handling[h] # Idle => handling[h].ticket \in DOMAIN tickets
  /\ rows \subseteq Row
  /\ checker \in [phase : {"idle", "search", "update"},
                  rows : SUBSET {row \in Row : row.status = "PENDING"},
                  pairs : SUBSET Review]
  /\ changes \in 0..MaxChange /\ faults \in 0..MaxFault
  /\ lost \in SUBSET ServiceId
  /\ deleted \in SUBSET ServiceId /\ crossed \in SUBSET ServiceId

Pending(s) == \E row \in rows : row.id = s /\ row.status = "PENDING"

\* A service that waits for a verdict will get one: whatever fails or comes again
\* in the two functions, and however they overlap on the service, there is a
\* pending row the timer will find or a message that will make one, unless the
\* message was given up.
SubmittedIsTracked ==
  \A s \in ServiceId \ lost : lifecycle[s] = "submitted" =>
    \/ Pending(s)
    \/ \E t \in queue : tickets[t].id = s
    \/ \E h \in Handler : handling[h] # Idle /\ tickets[handling[h].ticket].id = s

\* No override brings a deleted service back, unless it was deleted between the
\* fetch and the override.
DeletedStaysDeleted ==
  \A s \in deleted \ crossed : lifecycle[s] = "deleted"

\* Every decided ticket reaches the service and its rows, be there one or more,
\* unless a ticket that cannot be decoded holds up the batches.
VerdictArrives ==
  LET Waiting == \E row \in rows : /\ row.status = "PENDING"
                                   /\ tickets[row.ticket].status \in Decodable
      Jammed == \E row \in rows : tickets[row.ticket].status = "DONE"
  IN Waiting ~> ~ Waiting \/ Jammed
=============================================================================
