-------------------------- MODULE LegacyReview_proofs --------------------------
(***************************************************************************)
(* Proofs about LegacyReview, for any sets of services and handlers, and   *)
(* any number of tickets, rows, changes and faults.                        *)
(***************************************************************************)
EXTENDS LegacyReview, SequenceTheorems, FiniteSetTheorems, TLAPS

-----------------------------------------------------------------------------
(* Type correctness                                                         *)

\* What TypeOK does not say and a step needs: the number of a new row is the size
\* of the table, and that of a new ticket the number of tickets.
Shape == TypeOK /\ Len(tickets) <= MaxTicket /\ IsFiniteSet(rows)

LEMMA TicketsKnown ==
  ASSUME Shape
  PROVE  /\ tickets \in Seq(Ticket)
         /\ Len(tickets) \in Nat /\ Len(tickets) <= MaxTicket
         /\ DOMAIN tickets = 1..Len(tickets)
         /\ DOMAIN tickets \subseteq 1..MaxTicket
         /\ \A t \in DOMAIN tickets : tickets[t] \in Ticket
  <1>1. tickets \in Seq(Ticket) /\ Len(tickets) <= MaxTicket
    BY DEF Shape, TypeOK
  <1>2. /\ Len(tickets) \in Nat
        /\ DOMAIN tickets = 1..Len(tickets)
        /\ \A t \in DOMAIN tickets : tickets[t] \in Ticket
    BY <1>1
  <1>3. QED
    BY <1>1, <1>2, BoundAssumption

\* Jira only gets longer, and the service of a ticket is never changed.
LEMMA TicketsStep ==
  ASSUME Shape, [Next]_vars
  PROVE  /\ tickets' \in Seq(Ticket) /\ Len(tickets') <= MaxTicket
         /\ DOMAIN tickets \subseteq DOMAIN tickets'
         /\ \A t \in DOMAIN tickets : tickets'[t].id = tickets[t].id
  <1> USE TicketsKnown
  <1>1. CASE tickets' = tickets
    BY <1>1
  <1>2. ASSUME NEW s \in ServiceId, AskReview(s)
        PROVE  /\ tickets' \in Seq(Ticket) /\ Len(tickets') <= MaxTicket
               /\ DOMAIN tickets \subseteq DOMAIN tickets'
               /\ \A t \in DOMAIN tickets : tickets'[t] = tickets[t]
    <2> DEFINE new == [id |-> s, status |-> "open"]
    <2>1. new \in Ticket
      BY DEF Ticket
    <2>2. tickets' = Append(tickets, new) /\ Len(tickets) < MaxTicket
      BY <1>2 DEF AskReview
    <2> HIDE DEF new
    <2>3. /\ Append(tickets, new) \in Seq(Ticket)
          /\ Len(Append(tickets, new)) = Len(tickets) + 1
          /\ DOMAIN Append(tickets, new) = 1..Len(tickets) + 1
          /\ \A t \in 1..Len(tickets) : Append(tickets, new)[t] = tickets[t]
      BY <2>1
    <2>4. QED
      BY <2>2, <2>3, BoundAssumption
  <1>3. ASSUME NEW t \in DOMAIN tickets, Decide(t)
        PROVE  /\ tickets' \in Seq(Ticket) /\ Len(tickets') <= MaxTicket
               /\ DOMAIN tickets' = DOMAIN tickets
               /\ \A u \in DOMAIN tickets : tickets'[u].id = tickets[u].id
    <2>1. PICK verdict \in Verdict :
            tickets' = [tickets EXCEPT ![t] = [tickets[t] EXCEPT !.status = verdict]]
      BY <1>3 DEF Decide
    <2> DEFINE new == [tickets[t] EXCEPT !.status = verdict]
    <2>2. new \in Ticket /\ new.id = tickets[t].id
      BY DEF Ticket
    <2>3. tickets' = [tickets EXCEPT ![t] = new]
      BY <2>1
    <2> HIDE DEF new
    <2>4. /\ tickets' \in Seq(Ticket)
          /\ DOMAIN tickets' = DOMAIN tickets
          /\ Len(tickets') = Len(tickets)
      BY <2>2, <2>3, ExceptSeq
    <2>5. \A u \in DOMAIN tickets : tickets'[u] = IF u = t THEN new ELSE tickets[u]
      BY <2>3
    <2>6. QED
      BY <2>2, <2>4, <2>5
  <1>4. tickets' = tickets \/ (\E s \in ServiceId : AskReview(s))
                           \/ (\E t \in DOMAIN tickets : Decide(t))
    BY DEF Next, vars, external, People, Arrive, ChangeService, Request,
       FetchService, SetToSubmitted, InsertRow, FailRequest, GiveUp, Checker,
       ReadPending, SearchDecided, FailSearch, StopChecker, FetchReviewed,
       OverrideVerdict, UpdateStatus, FailPair
  <1>5. QED
    BY <1>1, <1>2, <1>3, <1>4

\* The timer after one of its reviews.
LEMMA BecomeIs ==
  ASSUME Shape, NEW p, NEW next, Become(p, next)
  PROVE  /\ checker'.pairs = (checker.pairs \ {p}) \cup next
         /\ checker'.rows \subseteq checker.rows
         /\ next \subseteq Review =>
              checker' \in [phase : {"idle", "search", "update"},
                            rows : SUBSET {row \in Row : row.status = "PENDING"},
                            pairs : SUBSET Review]
  <1> DEFINE pairs == (checker.pairs \ {p}) \cup next
  <1>1. checker \in [phase : {"idle", "search", "update"},
                     rows : SUBSET {row \in Row : row.status = "PENDING"},
                     pairs : SUBSET Review]
    BY DEF Shape, TypeOK
  <1>2. checker' = IF pairs = {} THEN NoRun ELSE [checker EXCEPT !.pairs = pairs]
    BY DEF Become
  <1>3. next \subseteq Review => pairs \subseteq Review
    BY <1>1
  <1> HIDE DEF pairs
  <1>4. CASE pairs = {}
    BY <1>2, <1>4 DEF NoRun, pairs
  <1>5. CASE pairs # {}
    <2>1. checker' = [checker EXCEPT !.pairs = pairs]
      BY <1>2, <1>5
    <2>2. checker'.pairs = pairs /\ checker'.rows = checker.rows
      BY <1>1, <2>1
    <2>3. QED
      BY <1>1, <1>3, <2>1, <2>2 DEF pairs
  <1>6. QED
    BY <1>4, <1>5

\* The reviews the timer makes of the rows whose ticket is decided.
LEMMA SearchIs ==
  ASSUME Shape, SearchDecided
  PROVE  /\ checker'.rows = {}
         /\ \A p \in checker'.pairs : p.step = "fetch" /\ p.row \in checker.rows
         /\ \A p, q \in checker'.pairs : p.row = q.row => p = q
         /\ checker' \in [phase : {"idle", "search", "update"},
                          rows : SUBSET {row \in Row : row.status = "PENDING"},
                          pairs : SUBSET Review]
  <1>1. CASE checker' = NoRun
    BY <1>1 DEF NoRun
  <1>2. ASSUME \A t \in Found :
                 decodeLegacyJiraIssueStatus(tickets[t].status) \in Decodable,
               NEW pairing \in Pairings,
               checker' = [NoRun EXCEPT !.phase = "update",
                                        !.pairs = {Pair(row) : row \in pairing}]
        PROVE  /\ checker'.rows = {}
               /\ \A p \in checker'.pairs : p.step = "fetch" /\ p.row \in checker.rows
               /\ \A p, q \in checker'.pairs : p.row = q.row => p = q
               /\ checker' \in [phase : {"idle", "search", "update"},
                                rows : SUBSET {row \in Row : row.status = "PENDING"},
                                pairs : SUBSET Review]
    <2>1. checker' = [phase |-> "update", rows |-> {},
                      pairs |-> {Pair(row) : row \in pairing}]
      BY <1>2 DEF NoRun
    <2>2. \A row \in pairing : row \in checker.rows /\ row.ticket \in Found
      BY <1>2 DEF Pairings
    <2>3. \A row \in pairing : row \in Row /\ row.status = "PENDING"
      BY <2>2 DEF Shape, TypeOK
    <2>4. \A row \in pairing : /\ Pair(row) \in Review
                              /\ Pair(row).row = row /\ Pair(row).step = "fetch"
      BY <1>2, <2>2, <2>3 DEF Pair, Review, decodeLegacyJiraIssueStatus
    <2>5. checker'.rows = {} /\ checker'.pairs = {Pair(row) : row \in pairing}
      BY <2>1
    <2>6. checker'.pairs \subseteq Review
      BY <2>4, <2>5
    <2>7. \A p \in checker'.pairs : p.step = "fetch" /\ p.row \in checker.rows
                                  /\ p = Pair(p.row)
      BY <2>2, <2>4, <2>5
    <2>8. checker' \in [phase : {"idle", "search", "update"},
                        rows : SUBSET {row \in Row : row.status = "PENDING"},
                        pairs : SUBSET Review]
      BY <2>1, <2>5, <2>6
    <2>9. QED
      BY <2>5, <2>7, <2>8
  <1>3. QED
    BY <1>1, <1>2 DEF SearchDecided

LEMMA HandlersType ==
  ASSUME Shape, [Next]_vars
  PROVE  /\ queue' \subseteq DOMAIN tickets'
         /\ handling' \in [Handler -> Task \cup {Idle}]
         /\ \A h \in Handler : handling'[h] # Idle =>
              handling'[h].ticket \in DOMAIN tickets'
  <1> DEFINE Goal == /\ queue' \subseteq DOMAIN tickets'
                     /\ handling' \in [Handler -> Task \cup {Idle}]
                     /\ \A h \in Handler : handling'[h] # Idle =>
                          handling'[h].ticket \in DOMAIN tickets'
  <1>1. /\ queue \subseteq DOMAIN tickets
        /\ handling \in [Handler -> Task \cup {Idle}]
        /\ \A h \in Handler : handling[h] # Idle => handling[h].ticket \in DOMAIN tickets
    BY DEF Shape, TypeOK
  <1>2. DOMAIN tickets \subseteq DOMAIN tickets' /\ DOMAIN tickets \subseteq 1..MaxTicket
    BY TicketsStep, TicketsKnown
  <1>3. CASE UNCHANGED <<queue, handling>>
    BY <1>1, <1>2, <1>3
  <1>4. ASSUME NEW s \in ServiceId, AskReview(s)
        PROVE  Goal
    <2>1. /\ tickets' = Append(tickets, [id |-> s, status |-> "open"])
          /\ queue' = queue \cup {Len(tickets')}
          /\ handling' = handling
      BY <1>4 DEF AskReview
    <2>2. Len(tickets') \in DOMAIN tickets'
      BY <2>1, TicketsKnown, TicketsStep
    <2>3. QED
      BY <1>1, <1>2, <2>1, <2>2
  <1>5. ASSUME NEW t \in queue, NEW h \in Handler, FetchService(h, t)
        PROVE  Goal
    <2>1. [ticket |-> t, step |-> "override"] \in Task
          /\ [ticket |-> t, step |-> "override"].ticket \in DOMAIN tickets'
      BY <1>1, <1>2 DEF Task
    <2>2. QED
      BY <1>1, <1>2, <1>5, <2>1 DEF FetchService
  <1>6. ASSUME NEW h \in Handler, SetToSubmitted(h)
        PROVE  Goal
    <2>1. handling[h] \in Task
      BY <1>1, <1>6 DEF SetToSubmitted
    <2>2. /\ [handling[h] EXCEPT !.step = "insert"] \in Task
          /\ [handling[h] EXCEPT !.step = "insert"].ticket = handling[h].ticket
      BY <2>1 DEF Task
    <2>3. handling' = [handling EXCEPT ![h] = [handling[h] EXCEPT !.step = "insert"]]
          /\ queue' = queue
      BY <1>6 DEF SetToSubmitted
    <2>4. QED
      BY <1>1, <1>2, <1>6, <2>2, <2>3 DEF SetToSubmitted
  <1>7. ASSUME NEW h \in Handler, InsertRow(h) \/ FailRequest(h)
        PROVE  Goal
    <2>1. handling' = [handling EXCEPT ![h] = Idle]
          /\ queue' \subseteq queue \cup {handling[h].ticket}
          /\ handling[h] # Idle
      BY <1>7 DEF InsertRow, FailRequest
    <2>2. QED
      BY <1>1, <1>2, <2>1
  <1>8. ASSUME NEW t \in queue, GiveUp(t)
        PROVE  Goal
    BY <1>1, <1>2, <1>8 DEF GiveUp
  <1>9. QED
    BY <1>3, <1>4, <1>5, <1>6, <1>7, <1>8
    DEF Next, vars, external, People, Arrive, ChangeService, Decide, Request,
        Checker, ReadPending, SearchDecided, FailSearch, StopChecker,
        FetchReviewed, OverrideVerdict, UpdateStatus, FailPair

\* The row of a review that is over.
Closed(p) == [p.row EXCEPT !.status = p.verdict]

LEMMA ClosedIs ==
  ASSUME NEW p \in Review
  PROVE  /\ Closed(p) \in Row
         /\ Closed(p).id = p.row.id /\ Closed(p).version = p.row.version
         /\ Closed(p).status # "PENDING"
  BY DEF Closed, Review, Row, Decodable

LEMMA RowsType ==
  ASSUME Shape, [Next]_vars
  PROVE  rows' \subseteq Row /\ IsFiniteSet(rows')
  <1>1. rows \subseteq Row /\ IsFiniteSet(rows) /\ Cardinality(rows) \in Nat
    BY FS_CardinalityType DEF Shape, TypeOK
  <1>2. ASSUME NEW h \in Handler, InsertRow(h)
        PROVE  rows' \subseteq Row /\ IsFiniteSet(rows')
    <2> DEFINE t == handling[h].ticket
               new == [id |-> tickets[t].id, version |-> Cardinality(rows) + 1,
                       ticket |-> t, status |-> "PENDING"]
    <2>1. t \in DOMAIN tickets
      BY <1>2 DEF InsertRow, Shape, TypeOK
    <2>2. t \in 1..MaxTicket /\ tickets[t].id \in ServiceId
      BY <2>1, TicketsKnown DEF Ticket
    <2>3. Cardinality(rows) + 1 \in 1..MaxRow
      BY <1>1, <1>2, BoundAssumption DEF InsertRow
    <2>4. new \in Row
      BY <2>2, <2>3 DEF Row
    <2>5. rows' = rows \cup {new}
      BY <1>2 DEF InsertRow
    <2>6. QED
      BY <1>1, <2>4, <2>5, FS_AddElement
  <1>3. ASSUME NEW p \in checker.pairs, UpdateStatus(p)
        PROVE  rows' \subseteq Row /\ IsFiniteSet(rows')
    <2>1. p \in Review
      BY DEF Shape, TypeOK
    <2>2. rows' = (rows \ {p.row}) \cup {Closed(p)}
      BY <1>3 DEF UpdateStatus, Closed, decodeLegacyJiraIssueStatus
    <2>3. IsFiniteSet(rows \ {p.row})
      BY <1>1, FS_RemoveElement
    <2>4. IsFiniteSet((rows \ {p.row}) \cup {Closed(p)})
      BY <2>3, FS_AddElement
    <2>5. QED
      BY <1>1, <2>1, <2>2, <2>4, ClosedIs
  <1>4. rows' = rows \/ (\E h \in Handler : InsertRow(h))
                     \/ (\E p \in checker.pairs : UpdateStatus(p))
    BY DEF Next, vars, external, People, Arrive, AskReview, ChangeService, Decide,
       Request, FetchService, SetToSubmitted, FailRequest, GiveUp, Checker,
       ReadPending, SearchDecided, FailSearch, StopChecker, FetchReviewed,
       OverrideVerdict, FailPair
  <1>5. QED
    BY <1>1, <1>2, <1>3, <1>4

LEMMA CheckerType ==
  ASSUME Shape, [Next]_vars
  PROVE  checker' \in [phase : {"idle", "search", "update"},
                       rows : SUBSET {row \in Row : row.status = "PENDING"},
                       pairs : SUBSET Review]
  <1>1. /\ checker \in [phase : {"idle", "search", "update"},
                        rows : SUBSET {row \in Row : row.status = "PENDING"},
                        pairs : SUBSET Review]
        /\ rows \subseteq Row
    BY DEF Shape, TypeOK
  <1>2. CASE checker' = checker \/ checker' = NoRun
    BY <1>1, <1>2 DEF NoRun
  <1>3. CASE ReadPending
    <2>1. checker' = [phase |-> "search", rows |-> {row \in rows : row.status = "PENDING"},
                      pairs |-> {}]
      BY <1>3 DEF ReadPending, NoRun
    <2>2. QED
      BY <1>1, <2>1
  <1>4. CASE SearchDecided
    BY <1>4, SearchIs
  <1>5. ASSUME NEW p \in checker.pairs,
               FetchReviewed(p) \/ OverrideVerdict(p) \/ UpdateStatus(p) \/ FailPair(p)
        PROVE  \E next : next \subseteq Review /\ Become(p, next)
    <2>1. \A step \in {"override", "update"} : {[p EXCEPT !.step = step]} \subseteq Review
      BY <1>1 DEF Review
    <2>2. QED
      BY <1>5, <2>1 DEF FetchReviewed, OverrideVerdict, UpdateStatus, FailPair, Advance
  <1>6. QED
    BY <1>2, <1>3, <1>4, <1>5, BecomeIs
    DEF Next, vars, external, People, Arrive, AskReview, ChangeService, Decide,
        Request, FetchService, SetToSubmitted, InsertRow, FailRequest, GiveUp,
        Checker, FailSearch, StopChecker

LEMMA ServicesType ==
  ASSUME Shape, [Next]_vars
  PROVE  /\ lifecycle' \in [ServiceId -> State \cup {NoItem}]
         /\ lost' \subseteq ServiceId
         /\ deleted' \subseteq ServiceId /\ crossed' \subseteq ServiceId
  <1>1. /\ lifecycle \in [ServiceId -> State \cup {NoItem}]
        /\ lost \subseteq ServiceId
        /\ deleted \subseteq ServiceId /\ crossed \subseteq ServiceId
    BY DEF Shape, TypeOK
  <1>2. \/ lifecycle' = lifecycle
        \/ \E state \in State : \E s : lifecycle' = [lifecycle EXCEPT ![s] = state]
    BY DEF Next, vars, external, People, Arrive, AskReview, ChangeService, Decide,
       Request, FetchService, SetToSubmitted, InsertRow, FailRequest, GiveUp,
       Checker, ReadPending, SearchDecided, FailSearch, StopChecker,
       FetchReviewed, OverrideVerdict, UpdateStatus, FailPair, State
  <1>3. lost' = lost \/ \E t \in queue : lost' = lost \cup {tickets[t].id}
    BY DEF Next, vars, external, People, Arrive, AskReview, ChangeService, Decide,
       Request, FetchService, SetToSubmitted, InsertRow, FailRequest, GiveUp,
       Checker, ReadPending, SearchDecided, FailSearch, StopChecker,
       FetchReviewed, OverrideVerdict, UpdateStatus, FailPair
  <1>4. \A t \in queue : tickets[t].id \in ServiceId
    BY TicketsKnown DEF Ticket, Shape, TypeOK
  <1>5. \/ UNCHANGED <<deleted, crossed>>
        \/ \E s \in ServiceId : ChangeService(s)
    BY DEF Next, vars, external, People, Arrive, AskReview, Decide,
       Request, FetchService, SetToSubmitted, InsertRow, FailRequest, GiveUp,
       Checker, ReadPending, SearchDecided, FailSearch, StopChecker,
       FetchReviewed, OverrideVerdict, UpdateStatus, FailPair
  <1>6. lifecycle' \in [ServiceId -> State \cup {NoItem}]
    BY <1>1, <1>2
  <1>7. lost' \subseteq ServiceId
    BY <1>1, <1>3, <1>4
  <1>8. deleted' \subseteq ServiceId /\ crossed' \subseteq ServiceId
    BY <1>1, <1>5 DEF ChangeService
  <1>9. QED
    BY <1>6, <1>7, <1>8

LEMMA CountsType ==
  ASSUME Shape, [Next]_vars
  PROVE  changes' \in 0..MaxChange /\ faults' \in 0..MaxFault
  <1>1. changes' = changes \/ (changes < MaxChange /\ changes' = changes + 1)
    BY DEF Next, vars, external, People, Arrive, AskReview, ChangeService, Decide,
       Request, FetchService, SetToSubmitted, InsertRow, FailRequest, GiveUp,
       Checker, ReadPending, SearchDecided, FailSearch, StopChecker,
       FetchReviewed, OverrideVerdict, UpdateStatus, FailPair
  <1>2. faults' = faults \/ Fault
    BY DEF Next, vars, external, People, Arrive, AskReview, ChangeService, Decide,
       Request, FetchService, SetToSubmitted, InsertRow, FailRequest, GiveUp,
       Checker, ReadPending, SearchDecided, FailSearch, StopChecker,
       FetchReviewed, OverrideVerdict, UpdateStatus, FailPair
  <1>3. changes \in 0..MaxChange /\ faults \in 0..MaxFault
    BY DEF Shape, TypeOK
  <1>4. changes' \in 0..MaxChange
    BY <1>1, <1>3, BoundAssumption
  <1>5. faults' \in 0..MaxFault
    BY <1>2, <1>3, BoundAssumption DEF Fault
  <1>6. QED
    BY <1>4, <1>5

LEMMA ShapeStep == Shape /\ [Next]_vars => Shape'
  <1> SUFFICES ASSUME Shape, [Next]_vars PROVE Shape'
    OBVIOUS
  <1>1. QED
    BY TicketsStep, HandlersType, RowsType, CheckerType, ServicesType, CountsType
    DEF Shape, TypeOK

LEMMA ShapeInit == Init => Shape
  <1> SUFFICES ASSUME Init PROVE Shape
    OBVIOUS
  <1>1. /\ tickets \in Seq(Ticket) /\ queue \subseteq DOMAIN tickets
        /\ Len(tickets) <= MaxTicket
    BY BoundAssumption DEF Init
  <1>2. checker \in [phase : {"idle", "search", "update"},
                     rows : SUBSET {row \in Row : row.status = "PENDING"},
                     pairs : SUBSET Review]
    BY DEF Init, NoRun
  <1>3. rows \subseteq Row /\ IsFiniteSet(rows)
    BY FS_EmptySet DEF Init
  <1>4. QED
    BY <1>1, <1>2, <1>3, BoundAssumption DEF Init, Shape, TypeOK, State

\* The queue, the handlers, Jira, the table and the timer keep their shape.
THEOREM TypeCorrect == Spec => []TypeOK
  <1>1. Shape => TypeOK
    BY DEF Shape
  <1>2. QED
    BY <1>1, ShapeInit, ShapeStep, PTL DEF Spec

-----------------------------------------------------------------------------
(* The table and the timer                                                  *)

\* The rows are numbered in the order they were inserted.
Numbered ==
  /\ \A row \in rows : row.version <= Cardinality(rows)
  /\ \A row, other \in rows : row.version = other.version => row = other

\* The timer works on rows of the table, which nobody else changes, and on each
\* of them once.
Read ==
  /\ checker.rows \subseteq rows
  /\ checker.pairs # {} => checker.rows = {}
  /\ \A p \in checker.pairs : p.row \in rows
  /\ \A p, q \in checker.pairs : p.row = q.row => p = q

LEMMA NewRow ==
  ASSUME Shape, NEW h \in Handler, InsertRow(h)
  PROVE  \E new : /\ rows' = rows \cup {new}
                  /\ new.id = tickets[handling[h].ticket].id
                  /\ new.version = Cardinality(rows) + 1
                  /\ new.status = "PENDING"
  <1> DEFINE t == handling[h].ticket
             new == [id |-> tickets[t].id, version |-> Cardinality(rows) + 1,
                     ticket |-> t, status |-> "PENDING"]
  <1>1. rows' = rows \cup {new}
    BY DEF InsertRow
  <1>2. /\ new.id = tickets[t].id /\ new.version = Cardinality(rows) + 1
        /\ new.status = "PENDING"
    OBVIOUS
  <1>3. QED
    BY <1>1, <1>2

\* The table changes in two ways.
LEMMA RowsStep ==
  [Next]_vars => \/ rows' = rows
                 \/ \E h \in Handler : InsertRow(h)
                 \/ \E p \in checker.pairs : UpdateStatus(p)
  BY DEF Next, vars, external, People, Arrive, AskReview, ChangeService, Decide,
     Request, FetchService, SetToSubmitted, FailRequest, GiveUp, Checker,
     ReadPending, SearchDecided, FailSearch, StopChecker, FetchReviewed,
     OverrideVerdict, FailPair

LEMMA NumberedStep == Shape /\ Numbered /\ Read /\ [Next]_vars => Numbered'
  <1> SUFFICES ASSUME Shape, Numbered, Read, [Next]_vars PROVE Numbered'
    OBVIOUS
  <1>1. /\ IsFiniteSet(rows) /\ Cardinality(rows) \in Nat
        /\ \A row \in rows : row \in Row /\ row.version \in Nat
    BY FS_CardinalityType DEF Shape, TypeOK, Row
  <1>2. CASE rows' = rows
    BY <1>2 DEF Numbered
  <1>3. ASSUME NEW h \in Handler, InsertRow(h)
        PROVE  Numbered'
    <2>1. PICK new : /\ rows' = rows \cup {new}
                     /\ new.version = Cardinality(rows) + 1
      BY <1>3, NewRow
    <2>2. \A row \in rows : row.version # new.version
      BY <1>1, <2>1 DEF Numbered
    <2>3. Cardinality(rows') = Cardinality(rows) + 1
      BY <1>1, <2>1, <2>2, FS_AddElement
    <2>4. QED
      BY <1>1, <2>1, <2>2, <2>3 DEF Numbered
  <1>4. ASSUME NEW p \in checker.pairs, UpdateStatus(p)
        PROVE  Numbered'
    <2>1. /\ rows' = (rows \ {p.row}) \cup {Closed(p)}
          /\ Closed(p).version = p.row.version
          /\ p.row \in rows
      BY <1>4, ClosedIs DEF UpdateStatus, Closed, decodeLegacyJiraIssueStatus, Shape,
                            TypeOK, Read
    <2>2. \A row \in rows \ {p.row} : row.version # p.row.version
      BY <2>1 DEF Numbered
    <2>3. Closed(p) \notin rows \ {p.row}
      BY <2>1, <2>2
    <2>4. /\ IsFiniteSet(rows \ {p.row})
          /\ Cardinality(rows \ {p.row}) = Cardinality(rows) - 1
      BY <1>1, <2>1, FS_RemoveElement
    <2>5. Cardinality((rows \ {p.row}) \cup {Closed(p)}) = Cardinality(rows \ {p.row}) + 1
      BY <2>3, <2>4, FS_AddElement
    <2>6. Cardinality(rows') = Cardinality(rows)
      BY <1>1, <2>1, <2>4, <2>5
    <2>7. QED
      BY <2>1, <2>2, <2>6 DEF Numbered
  <1>5. QED
    BY <1>2, <1>3, <1>4, RowsStep

\* The reviews of the timer after a step on one of them.
LEMMA ReviewIs ==
  ASSUME Shape, NEW p \in checker.pairs,
         FetchReviewed(p) \/ OverrideVerdict(p) \/ UpdateStatus(p) \/ FailPair(p)
  PROVE  /\ checker'.rows \subseteq checker.rows
         /\ \/ checker'.pairs = checker.pairs \ {p}
            \/ \E q : /\ checker'.pairs = (checker.pairs \ {p}) \cup {q}
                     /\ q.row = p.row
                     /\ \/ /\ q.step = "override" /\ UNCHANGED lifecycle
                           /\ lifecycle[p.row.id] # "deleted"
                        \/ q.step = "update" /\ lifecycle'[p.row.id] # "submitted"
  <1>1. p \in Review
    BY DEF Shape, TypeOK
  <1>2. \A step : /\ [p EXCEPT !.step = step].row = p.row
                  /\ [p EXCEPT !.step = step].step = step
    BY <1>1 DEF Review
  <1>3. ASSUME NEW step, Advance(p, step)
        PROVE  /\ checker'.rows \subseteq checker.rows
               /\ \E q : /\ checker'.pairs = (checker.pairs \ {p}) \cup {q}
                        /\ q.row = p.row /\ q.step = step
    <2> DEFINE q == [p EXCEPT !.step = step]
    <2>1. Become(p, {q})
      BY <1>3 DEF Advance
    <2>2. q.row = p.row /\ q.step = step
      BY <1>2
    <2> HIDE DEF q
    <2>3. QED
      BY <2>1, <2>2, BecomeIs
  <1>4. CASE FetchReviewed(p)
    <2>1. CASE lifecycle[p.row.id] = "deleted"
      <3>1. Advance(p, "update") /\ lifecycle' = lifecycle
        BY <1>4, <2>1 DEF FetchReviewed
      <3>2. lifecycle'[p.row.id] # "submitted"
        BY <2>1, <3>1
      <3>3. QED
        BY <1>3, <3>1, <3>2
    <2>2. CASE lifecycle[p.row.id] # "deleted"
      <3>1. Advance(p, "override") /\ lifecycle' = lifecycle
        BY <1>4, <2>2 DEF FetchReviewed
      <3>2. QED
        BY <1>3, <2>2, <3>1
    <2>3. QED
      BY <2>1, <2>2
  <1>5. CASE OverrideVerdict(p)
    <2>1. lifecycle'[p.row.id] # "submitted"
      BY <1>1, <1>5 DEF OverrideVerdict, Review, Row, Shape, TypeOK
    <2>2. QED
      BY <1>3, <1>5, <2>1 DEF OverrideVerdict
  <1>6. CASE UpdateStatus(p) \/ FailPair(p)
    <2>1. Become(p, {})
      BY <1>6 DEF UpdateStatus, FailPair
    <2>2. QED
      BY <2>1, BecomeIs
  <1>7. QED
    BY <1>4, <1>5, <1>6

\* Who changes the state of the timer.
LEMMA CheckerStep ==
  [Next]_vars => \/ checker' = checker \/ checker' = NoRun
                 \/ ReadPending \/ SearchDecided
                 \/ \E p \in checker.pairs : \/ FetchReviewed(p) \/ OverrideVerdict(p)
                                             \/ UpdateStatus(p) \/ FailPair(p)
  BY DEF Next, vars, external, People, Arrive, AskReview, ChangeService, Decide,
     Request, FetchService, SetToSubmitted, InsertRow, FailRequest, GiveUp,
     Checker, FailSearch, StopChecker

LEMMA NoReview ==
  ASSUME checker' = NoRun \/ ReadPending
  PROVE  checker'.pairs = {}
  <1>1. CASE checker' = NoRun
    BY <1>1 DEF NoRun
  <1>2. CASE ReadPending
    BY <1>2 DEF ReadPending, NoRun
  <1>3. QED
    BY <1>1, <1>2

LEMMA ReadStep == Shape /\ Read /\ [Next]_vars => Read'
  <1> SUFFICES ASSUME Shape, Read, [Next]_vars PROVE Read'
    OBVIOUS
  <1>1. ASSUME NEW p \in checker.pairs,
               FetchReviewed(p) \/ OverrideVerdict(p) \/ UpdateStatus(p) \/ FailPair(p)
        PROVE  Read'
    <2>1. checker'.rows = {}
      BY <1>1, ReviewIs DEF Read
    <2>2. \A q \in checker.pairs \ {p} : q.row # p.row
      BY DEF Read
    <2>3. CASE UpdateStatus(p)
      <3>1. checker'.pairs = checker.pairs \ {p}
        BY <2>3, BecomeIs DEF UpdateStatus
      <3>2. rows \ {p.row} \subseteq rows'
        BY <2>3 DEF UpdateStatus
      <3>3. QED
        BY <2>1, <2>2, <3>1, <3>2 DEF Read
    <2>4. CASE ~ UpdateStatus(p)
      <3>1. rows' = rows
        BY <1>1, <2>4 DEF FetchReviewed, OverrideVerdict, FailPair
      <3>2. CASE checker'.pairs = checker.pairs \ {p}
        BY <2>1, <3>1, <3>2 DEF Read
      <3>3. ASSUME NEW q, checker'.pairs = (checker.pairs \ {p}) \cup {q},
                   q.row = p.row
            PROVE  Read'
        BY <2>1, <2>2, <3>1, <3>3 DEF Read
      <3>4. QED
        BY <1>1, <3>2, <3>3, ReviewIs
    <2>5. QED
      BY <2>3, <2>4
  <1>2. CASE \A p \in checker.pairs : ~ UpdateStatus(p)
    <2>1. rows \subseteq rows'
      BY <1>2, RowsStep, NewRow
    <2>2. CASE checker' = checker
      BY <2>1, <2>2 DEF Read
    <2>3. CASE checker' = NoRun
      BY <2>3 DEF Read, NoRun
    <2>4. CASE ReadPending
      <3>1. checker'.rows \subseteq rows /\ checker'.pairs = {}
        BY <2>4 DEF ReadPending, NoRun
      <3>2. QED
        BY <2>1, <3>1 DEF Read
    <2>5. CASE SearchDecided
      BY <2>1, <2>5, SearchIs DEF Read
    <2>6. QED
      BY <1>1, <2>2, <2>3, <2>4, <2>5, CheckerStep
  <1>3. QED
    BY <1>1, <1>2

-----------------------------------------------------------------------------
(* A submitted service is never forgotten                                   *)

\* A pending row of s the timer is not about to close.
Open(s) ==
  \E row \in rows :
    /\ row.id = s /\ row.status = "PENDING"
    /\ \A p \in checker.pairs : p.step = "update" => p.row # row

Queued(s) == \E t \in queue : tickets[t].id = s

Handled(s) ==
  \E h \in Handler : handling[h] # Idle /\ tickets[handling[h].ticket].id = s

\* SubmittedIsTracked with the rows the timer is about to close left out: it has
\* overridden the service they are about, and who submits it again makes a new one.
Tracked ==
  \A s \in ServiceId \ lost :
    lifecycle[s] = "submitted" => Open(s) \/ Queued(s) \/ Handled(s)

\* What the timer does closes no row of a service that is still submitted.
LEMMA OpenByTimer ==
  ASSUME Shape, Read, NEW p \in checker.pairs, NEW s,
         FetchReviewed(p) \/ OverrideVerdict(p) \/ UpdateStatus(p) \/ FailPair(p),
         Open(s), lifecycle'[s] = "submitted"
  PROVE  Open(s)'
  <1>1. PICK row \in rows :
          /\ row.id = s /\ row.status = "PENDING"
          /\ \A q \in checker.pairs : q.step = "update" => q.row # row
    BY DEF Open
  <1>2. row \in rows'
    BY <1>1 DEF FetchReviewed, OverrideVerdict, UpdateStatus, FailPair
  <1>3. \A q \in checker'.pairs : q.step = "update" => q.row # row
    <2>1. CASE checker'.pairs = checker.pairs \ {p}
      BY <1>1, <2>1
    <2>2. ASSUME NEW q, checker'.pairs = (checker.pairs \ {p}) \cup {q},
                 q.row = p.row,
                 q.step = "override"
                   \/ (q.step = "update" /\ lifecycle'[p.row.id] # "submitted")
          PROVE  \A x \in checker'.pairs : x.step = "update" => x.row # row
      BY <1>1, <2>2
    <2>3. QED
      BY <2>1, <2>2, ReviewIs
  <1>4. QED
    BY <1>1, <1>2, <1>3 DEF Open

\* Nor does anybody else.
LEMMA OpenStays ==
  ASSUME Shape, Numbered, Read, [Next]_vars, NEW s, Open(s), lifecycle'[s] = "submitted"
  PROVE  Open(s)'
  <1>1. CASE \E p \in checker.pairs : \/ FetchReviewed(p) \/ OverrideVerdict(p)
                                      \/ UpdateStatus(p) \/ FailPair(p)
    BY <1>1, OpenByTimer
  <1>2. CASE ~ \E p \in checker.pairs : \/ FetchReviewed(p) \/ OverrideVerdict(p)
                                        \/ UpdateStatus(p) \/ FailPair(p)
    <2>1. rows \subseteq rows'
      BY <1>2, RowsStep, NewRow
    <2>2. \A q \in checker'.pairs : q.step = "update" => q \in checker.pairs
      <3>1. CASE checker' = checker
        BY <3>1
      <3>2. CASE checker' = NoRun \/ ReadPending
        <4>1. checker'.pairs = {}
          BY <3>2, NoReview
        <4>2. QED
          BY <4>1
      <3>3. CASE SearchDecided
        BY <3>3, SearchIs
      <3>4. QED
        BY <1>2, <3>1, <3>2, <3>3, CheckerStep
    <2>3. QED
      BY <2>1, <2>2 DEF Open
  <1>3. QED
    BY <1>1, <1>2

LEMMA RequestTracks ==
  ASSUME Shape, Numbered, Read, NEW h \in Handler, Request(h), NEW s,
         lifecycle'[s] = "submitted", lifecycle[s] = "submitted",
         Queued(s) \/ Handled(s)
  PROVE  Open(s)' \/ Queued(s)' \/ Handled(s)'
  <1> DEFINE t == handling[h].ticket
  <1>1. /\ handling \in [Handler -> Task \cup {Idle}]
        /\ queue \subseteq DOMAIN tickets
        /\ DOMAIN tickets \subseteq 1..MaxTicket
    BY TicketsKnown DEF Shape, TypeOK
  <1>2. tickets' = tickets
    BY DEF Request, FetchService, SetToSubmitted, InsertRow, FailRequest, external
  <1>3. ASSUME NEW u \in queue, FetchService(h, u)
        PROVE  Queued(s)' \/ Handled(s)'
    <2>1. /\ handling[h] = Idle
          /\ queue' = queue \ {u}
      BY <1>3 DEF FetchService
    <2>2. \A g \in Handler \ {h} : handling'[g] = handling[g]
      BY <1>1, <1>3 DEF FetchService
    <2>3. CASE tickets[u].id = s
      <3>1. [ticket |-> u, step |-> "override"] \in Task
        BY <1>1 DEF Task
      <3>2. handling'[h] = [ticket |-> u, step |-> "override"]
        BY <1>1, <1>3, <2>3 DEF FetchService, WillSubmit
      <3>3. handling'[h] # Idle /\ handling'[h].ticket = u
        BY <3>1, <3>2, MarkerAssumption
      <3>4. QED
        BY <1>2, <2>3, <3>3 DEF Handled
    <2>4. CASE tickets[u].id # s
      BY <1>2, <2>1, <2>2, <2>4 DEF Queued, Handled
    <2>5. QED
      BY <2>3, <2>4
  <1>4. CASE SetToSubmitted(h)
    <2>1. handling[h] \in Task /\ queue' = queue
      BY <1>1, <1>4 DEF SetToSubmitted
    <2>2. [handling[h] EXCEPT !.step = "insert"] \in Task
          /\ [handling[h] EXCEPT !.step = "insert"].ticket = t
      BY <2>1 DEF Task
    <2>3. handling' = [handling EXCEPT ![h] = [handling[h] EXCEPT !.step = "insert"]]
      BY <1>4 DEF SetToSubmitted
    <2>4. \A g \in Handler : handling[g] # Idle =>
            handling'[g] # Idle /\ handling'[g].ticket = handling[g].ticket
      BY <1>1, <2>2, <2>3, MarkerAssumption
    <2>5. QED
      BY <1>2, <2>1, <2>4 DEF Queued, Handled
  <1>5. ASSUME handling' = [handling EXCEPT ![h] = Idle], queue \subseteq queue',
               tickets[t].id = s => Open(s)' \/ Queued(s)'
        PROVE  Open(s)' \/ Queued(s)' \/ Handled(s)'
    <2>1. \A g \in Handler \ {h} : handling'[g] = handling[g]
      BY <1>1, <1>5
    <2>2. CASE Queued(s)
      BY <1>2, <1>5, <2>2 DEF Queued
    <2>3. CASE Handled(s)
      BY <1>2, <1>5, <2>1, <2>3 DEF Handled
    <2>4. QED
      BY <2>2, <2>3
  <1>6. CASE InsertRow(h)
    <2>1. PICK new : /\ rows' = rows \cup {new}
                     /\ new.id = tickets[t].id
                     /\ new.version = Cardinality(rows) + 1
                     /\ new.status = "PENDING"
      BY <1>6, NewRow
    <2>2. \A row \in rows : row # new
      <3>1. \A row \in rows : row.version \in Nat /\ row.version <= Cardinality(rows)
        BY DEF Shape, TypeOK, Row, Numbered
      <3>2. Cardinality(rows) \in Nat
        BY FS_CardinalityType DEF Shape
      <3>3. QED
        BY <2>1, <3>1, <3>2
    <2>3. checker' = checker /\ queue \subseteq queue'
          /\ handling' = [handling EXCEPT ![h] = Idle]
      BY <1>6 DEF InsertRow
    <2>4. tickets[t].id = s => Open(s)'
      BY <2>1, <2>2, <2>3 DEF Open, Read
    <2>5. QED
      BY <1>5, <2>3, <2>4
  <1>7. CASE FailRequest(h)
    <2>1. /\ queue' = queue \cup {t}
          /\ handling' = [handling EXCEPT ![h] = Idle]
      BY <1>7 DEF FailRequest
    <2>2. tickets[t].id = s => Queued(s)'
      BY <1>2, <2>1 DEF Queued
    <2>3. QED
      BY <1>5, <2>1, <2>2
  <1>8. QED
    BY <1>3, <1>4, <1>6, <1>7 DEF Request

LEMMA TrackedStep == Shape /\ Numbered /\ Read /\ Tracked /\ [Next]_vars => Tracked'
  <1> SUFFICES ASSUME Shape, Numbered, Read, Tracked, [Next]_vars,
                      NEW s \in ServiceId, s \notin lost', lifecycle'[s] = "submitted"
               PROVE  Open(s)' \/ Queued(s)' \/ Handled(s)'
    BY DEF Tracked
  <1>1. /\ queue \subseteq DOMAIN tickets
        /\ \A h \in Handler : handling[h] # Idle => handling[h].ticket \in DOMAIN tickets
        /\ \A t \in DOMAIN tickets : tickets'[t].id = tickets[t].id
    BY TicketsStep DEF Shape, TypeOK
  <1>2. CASE lifecycle[s] # "submitted"
    <2>1. ASSUME NEW h \in Handler, SetToSubmitted(h), tickets[handling[h].ticket].id = s
          PROVE  Handled(s)'
      <3>1. handling \in [Handler -> Task \cup {Idle}] /\ handling[h] \in Task
        BY <2>1 DEF SetToSubmitted, Shape, TypeOK
      <3>2. /\ [handling[h] EXCEPT !.step = "insert"] \in Task
            /\ [handling[h] EXCEPT !.step = "insert"].ticket = handling[h].ticket
        BY <3>1 DEF Task
      <3>3. /\ handling' = [handling EXCEPT ![h] = [handling[h] EXCEPT !.step = "insert"]]
            /\ tickets' = tickets
        BY <2>1 DEF SetToSubmitted, external
      <3>4. handling'[h] # Idle /\ handling'[h].ticket = handling[h].ticket
        BY <3>1, <3>2, <3>3, MarkerAssumption
      <3>5. QED
        BY <2>1, <3>3, <3>4 DEF Handled
    <2>2. lifecycle \in [ServiceId -> State \cup {NoItem}]
      BY DEF Shape, TypeOK
    <2>3. \E h \in Handler : SetToSubmitted(h) /\ tickets[handling[h].ticket].id = s
      BY <1>2, <2>2 DEF Next, vars, external, People, Arrive, AskReview,
         ChangeService, Decide, Request, FetchService, SetToSubmitted, InsertRow,
         FailRequest, GiveUp, Checker, ReadPending, SearchDecided, FailSearch,
         StopChecker, FetchReviewed, OverrideVerdict, UpdateStatus, FailPair
    <2>4. QED
      BY <2>1, <2>3
  <1>3. CASE lifecycle[s] = "submitted"
    <2>1. lost \subseteq lost'
      BY DEF Next, vars, external, People, Arrive, AskReview, ChangeService, Decide,
         Request, FetchService, SetToSubmitted, InsertRow, FailRequest, GiveUp,
         Checker, ReadPending, SearchDecided, FailSearch, StopChecker,
         FetchReviewed, OverrideVerdict, UpdateStatus, FailPair
    <2>2. Open(s) \/ Queued(s) \/ Handled(s)
      BY <1>3, <2>1 DEF Tracked
    <2>3. CASE Open(s)
      BY <2>3, OpenStays
    <2>4. CASE (Queued(s) \/ Handled(s)) /\ \E h \in Handler : Request(h)
      BY <1>3, <2>4, RequestTracks
    <2>5. ASSUME NEW t \in queue, GiveUp(t), Queued(s) \/ Handled(s)
          PROVE  Queued(s)' \/ Handled(s)'
      BY <1>1, <2>5 DEF GiveUp, external, Queued, Handled
    <2>6. CASE (Queued(s) \/ Handled(s)) /\ queue \subseteq queue' /\ handling' = handling
      BY <1>1, <2>6 DEF Queued, Handled
    <2>7. \/ queue \subseteq queue' /\ handling' = handling
          \/ \E h \in Handler : Request(h)
          \/ \E t \in queue : GiveUp(t)
      BY DEF Next, vars, external, People, Arrive, AskReview, ChangeService, Decide,
         Checker, ReadPending, SearchDecided, FailSearch, StopChecker,
         FetchReviewed, OverrideVerdict, UpdateStatus, FailPair
    <2>8. QED
      BY <2>2, <2>3, <2>4, <2>5, <2>6, <2>7
  <1>4. QED
    BY <1>2, <1>3

LEMMA TrackedInit == Init => Numbered /\ Read /\ Tracked
  <1> SUFFICES ASSUME Init PROVE Numbered /\ Read /\ Tracked
    OBVIOUS
  <1>1. Numbered /\ Read
    BY DEF Init, NoRun, Numbered, Read
  <1>2. Tracked
    BY MarkerAssumption DEF Init, Tracked, State
  <1>3. QED
    BY <1>1, <1>2

\* A service that waits for a verdict has a pending row or a message that will make
\* one, however the handlers and the timer overlap and whatever fails.
THEOREM TrackedCorrect == Spec => []SubmittedIsTracked
  <1> DEFINE Inv == Shape /\ Numbered /\ Read /\ Tracked
  <1>1. Init => Inv
    BY ShapeInit, TrackedInit
  <1>2. Inv /\ [Next]_vars => Inv'
    BY ShapeStep, NumberedStep, ReadStep, TrackedStep
  <1>3. Inv => SubmittedIsTracked
    BY DEF Tracked, Open, Queued, Handled, SubmittedIsTracked, Pending
  <1>4. QED
    BY <1>1, <1>2, <1>3, PTL DEF Spec

-----------------------------------------------------------------------------
(* A deleted service stays deleted                                          *)

\* DeletedStaysDeleted is not inductive: an override that is on its way would bring
\* the service back.
Undisturbed ==
  \A s \in deleted \ crossed : lifecycle[s] = "deleted" /\ ~ Overriding(s)

\* The two that will override s.
HandlerOverriding(s) ==
  \E h \in Handler : handling[h] # Idle /\ handling[h].step = "override"
                     /\ tickets[handling[h].ticket].id = s

TimerOverriding(s) == \E p \in checker.pairs : p.step = "override" /\ p.row.id = s

\* Nobody takes up a service that is deleted.
LEMMA HandlersLeave ==
  ASSUME Shape, [Next]_vars, NEW s, lifecycle[s] = "deleted", HandlerOverriding(s)'
  PROVE  HandlerOverriding(s)
  <1>1. PICK h \in Handler : /\ handling'[h] # Idle /\ handling'[h].step = "override"
                            /\ tickets'[handling'[h].ticket].id = s
    BY DEF HandlerOverriding
  <1>2. /\ handling \in [Handler -> Task \cup {Idle}]
        /\ queue \subseteq DOMAIN tickets
        /\ \A g \in Handler : handling[g] # Idle => handling[g].ticket \in DOMAIN tickets
        /\ \A t \in DOMAIN tickets : tickets'[t].id = tickets[t].id
    BY TicketsStep DEF Shape, TypeOK
  <1>3. CASE handling'[h] = handling[h]
    BY <1>1, <1>2, <1>3 DEF HandlerOverriding
  <1>4. ASSUME NEW g \in Handler, NEW t \in queue, FetchService(g, t),
               handling'[h] # handling[h]
        PROVE  FALSE
    <2>1. g = h /\ handling'[h] = [ticket |-> t, step |-> "override"]
          /\ WillSubmit(tickets[t].id)
      BY <1>2, <1>4 DEF FetchService
    <2>2. handling'[h].ticket = t
      BY <2>1
    <2>3. tickets[t].id = s
      BY <1>1, <1>2, <2>2
    <2>4. QED
      BY <2>1, <2>3 DEF WillSubmit
  <1>5. ASSUME NEW g \in Handler, SetToSubmitted(g), handling'[h] # handling[h]
        PROVE  FALSE
    <2>1. handling[g] \in Task
      BY <1>2, <1>5 DEF SetToSubmitted
    <2>2. [handling[g] EXCEPT !.step = "insert"].step = "insert"
      BY <2>1 DEF Task
    <2>3. handling' = [handling EXCEPT ![g] = [handling[g] EXCEPT !.step = "insert"]]
      BY <1>5 DEF SetToSubmitted
    <2>4. QED
      BY <1>1, <1>2, <1>5, <2>2, <2>3
  <1>6. ASSUME NEW g \in Handler, handling' = [handling EXCEPT ![g] = Idle],
               handling'[h] # handling[h]
        PROVE  FALSE
    BY <1>1, <1>2, <1>6
  <1>7. \/ handling' = handling
        \/ \E g \in Handler : \/ \E t \in queue : FetchService(g, t)
                              \/ SetToSubmitted(g)
                              \/ handling' = [handling EXCEPT ![g] = Idle]
    BY DEF Next, vars, external, People, Arrive, AskReview, ChangeService, Decide,
       Request, InsertRow, FailRequest, GiveUp, Checker, ReadPending,
       SearchDecided, FailSearch, StopChecker, FetchReviewed, OverrideVerdict,
       UpdateStatus, FailPair
  <1>8. QED
    BY <1>3, <1>4, <1>5, <1>6, <1>7

LEMMA TimerLeaves ==
  ASSUME Shape, [Next]_vars, NEW s, lifecycle[s] = "deleted", TimerOverriding(s)'
  PROVE  TimerOverriding(s)
  <1>1. PICK q \in checker'.pairs : q.step = "override" /\ q.row.id = s
    BY DEF TimerOverriding
  <1>2. CASE checker' = checker
    BY <1>1, <1>2 DEF TimerOverriding
  <1>3. CASE checker' = NoRun \/ ReadPending
    <2>1. checker'.pairs = {}
      BY <1>3, NoReview
    <2>2. QED
      BY <1>1, <2>1
  <1>4. CASE SearchDecided
    BY <1>1, <1>4, SearchIs
  <1>5. ASSUME NEW p \in checker.pairs,
               FetchReviewed(p) \/ OverrideVerdict(p) \/ UpdateStatus(p) \/ FailPair(p)
        PROVE  q \in checker.pairs
    BY <1>1, <1>5, ReviewIs
  <1>6. QED
    BY <1>1, <1>2, <1>3, <1>4, <1>5, CheckerStep DEF TimerOverriding

LEMMA UndisturbedStep == Shape /\ Undisturbed /\ [Next]_vars => Undisturbed'
  <1> SUFFICES ASSUME Shape, Undisturbed, [Next]_vars,
                      NEW s \in ServiceId, s \in deleted', s \notin crossed'
               PROVE  lifecycle'[s] = "deleted" /\ ~ Overriding(s)'
    BY ServicesType DEF Undisturbed
  <1>1. Overriding(s) <=> HandlerOverriding(s) \/ TimerOverriding(s)
    BY DEF Overriding, HandlerOverriding, TimerOverriding
  <1>2. Overriding(s)' <=> HandlerOverriding(s)' \/ TimerOverriding(s)'
    BY DEF Overriding, HandlerOverriding, TimerOverriding
  <1>3. \/ UNCHANGED <<deleted, crossed>>
        \/ \E z \in ServiceId : ChangeService(z)
    BY DEF Next, vars, external, People, Arrive, AskReview, Decide, Request,
       FetchService, SetToSubmitted, InsertRow, FailRequest, GiveUp, Checker,
       ReadPending, SearchDecided, FailSearch, StopChecker, FetchReviewed,
       OverrideVerdict, UpdateStatus, FailPair
  <1>4. lifecycle \in [ServiceId -> State \cup {NoItem}]
    BY DEF Shape, TypeOK
  <1>5. CASE s \in deleted /\ s \notin crossed
    <2>1. lifecycle[s] = "deleted" /\ ~ Overriding(s)
      BY <1>5 DEF Undisturbed
    <2>2. ~ Overriding(s)'
      BY <1>1, <1>2, <2>1, HandlersLeave, TimerLeaves
    <2>3. ASSUME NEW z, NEW state, lifecycle' = [lifecycle EXCEPT ![z] = state], z # s
          PROVE  lifecycle'[s] = lifecycle[s]
      BY <1>4, <2>3
    <2>4. ASSUME NEW z, Arrive(z) \/ ChangeService(z)
          PROVE  lifecycle'[s] = lifecycle[s]
      <3>1. z # s
        BY <2>1, <2>4, MarkerAssumption DEF Arrive, ChangeService, State
      <3>2. QED
        BY <2>3, <2>4, <3>1 DEF Arrive, ChangeService
    <2>5. ASSUME NEW h \in Handler, SetToSubmitted(h)
          PROVE  lifecycle'[s] = lifecycle[s]
      <3>1. tickets[handling[h].ticket].id # s
        BY <2>1, <2>5 DEF SetToSubmitted, Overriding
      <3>2. QED
        BY <2>3, <2>5, <3>1 DEF SetToSubmitted
    <2>6. ASSUME NEW p \in checker.pairs, OverrideVerdict(p)
          PROVE  lifecycle'[s] = lifecycle[s]
      <3>1. p.row.id # s
        BY <2>1, <2>6 DEF OverrideVerdict, Overriding
      <3>2. QED
        BY <2>3, <2>6, <3>1 DEF OverrideVerdict
    <2>7. lifecycle'[s] = lifecycle[s]
      BY <2>4, <2>5, <2>6
      DEF Next, vars, external, People, AskReview, Decide, Request, FetchService,
          InsertRow, FailRequest, GiveUp, Checker, ReadPending, SearchDecided,
          FailSearch, StopChecker, FetchReviewed, UpdateStatus, FailPair
    <2>8. QED
      BY <2>1, <2>2, <2>7
  <1>6. CASE s \notin deleted \/ s \in crossed
    <2>1. s \notin deleted /\ s \notin crossed /\ ChangeService(s)
      BY <1>3, <1>6 DEF ChangeService
    <2>2. lifecycle'[s] = "deleted" /\ ~ Overriding(s)
      BY <1>4, <1>6, <2>1 DEF ChangeService
    <2>3. UNCHANGED <<tickets, handling, checker>>
      BY <2>1 DEF ChangeService
    <2>4. QED
      BY <2>2, <2>3 DEF Overriding
  <1>7. QED
    BY <1>5, <1>6

\* A deletion is not undone, whatever the two functions were about to write, unless it
\* falls between a fetch and its override.
THEOREM DeletedCorrect == Spec => []DeletedStaysDeleted
  <1>1. Init => Shape /\ Undisturbed
    BY ShapeInit DEF Init, Undisturbed
  <1>2. Shape /\ Undisturbed /\ [Next]_vars => Shape' /\ Undisturbed'
    BY ShapeStep, UndisturbedStep
  <1>3. Undisturbed => DeletedStaysDeleted
    BY DEF Undisturbed, DeletedStaysDeleted
  <1>4. QED
    BY <1>1, <1>2, <1>3, PTL DEF Spec
=============================================================================
