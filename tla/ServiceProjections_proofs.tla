----------------------- MODULE ServiceProjections_proofs -----------------------
(***************************************************************************)
(* Proofs about ServiceProjections, and so about ServiceDetail and         *)
(* Ingestion, for any sets of services and handlers and any number of      *)
(* writes, faults and breaks.                                              *)
(***************************************************************************)
EXTENDS ServiceProjections, FiniteSetTheorems, SequenceTheorems, TLAPS

-----------------------------------------------------------------------------
(* Who changes what                                                         *)

\* The details follow the containers, and never change them.
LEMMA Steps ==
  ASSUME [Next]_vars
  PROVE  \/ \E s \in ServiceId : D!WriteLifecycle(s) /\ UNCHANGED ingestionVars
         \/ \E s \in ServiceId : WritePublication(s) \/ DeletePublication(s)
         \/ Details
         \/ Events
         \/ UNCHANGED vars
  BY DEF Next, WriteLifecycle

LEMMA DetailSteps ==
  ASSUME Details
  PROVE  /\ UNCHANGED ingestionVars
         /\ \/ \E s \in ServiceId : D!WatchLifecycle(s) \/ D!WatchPublication(s)
            \/ \E h \in Handler, m \in requestDetail : D!StartDetail(h, m)
            \/ \E h \in Handler : D!EndDetail(h) \/ D!FailDetail(h)
            \/ \E m \in requestDetail : D!GiveUp(m)
  BY DEF Details, D!Follow, D!Watcher, D!Worker

LEMMA EventSteps ==
  ASSUME Events
  PROVE  /\ UNCHANGED detailVars
         /\ \/ \E batch \in SUBSET fresh :
                 I!Ingest(batch) \/ I!IngestionError(batch) \/ I!SkipBatch(batch)
            \/ \E e \in retries : I!Retry(e) \/ I!GiveUp(e)
  BY DEF Events, I!Follow, I!Watcher, I!RetryQueue

-----------------------------------------------------------------------------
(* The details: type correctness                                            *)

\* What a watcher reads is there: a document that was written, and not deleted.
Watched ==
  \A s \in ServiceId :
    /\ <<"lifecycle", s>> \in changed => lifecycle[s] # NoItem
    /\ <<"publication", s>> \in changed => publication[s] # NoItem

DetailShape ==
  /\ D!TypeOK
  /\ detail \in [ServiceId -> D!Detail \cup {NoItem}]
  /\ Watched

LifecycleDocument == D!Document({"draft", "other"})
PublicationDocument == D!Document({"published", "unpublished"})
Handling == [message : D!Detail, upsert : BOOLEAN]

LEMMA DetailKnown ==
  ASSUME D!TypeOK
  PROVE  /\ lifecycle \in [ServiceId -> LifecycleDocument \cup {NoItem}]
         /\ publication \in [ServiceId -> PublicationDocument \cup {NoItem}]
         /\ changed \in SUBSET (D!Kind \X ServiceId)
         /\ requestDetail \in SUBSET D!Detail
         /\ handling \in [Handler -> Handling \cup {Idle}]
         /\ \A s \in ServiceId : detail[s] \in {d \in D!Detail : d.id = s} \cup {NoItem}
         /\ writes \in 0..MaxWrite /\ faults \in 0..MaxFault
         /\ lost \in SUBSET ServiceId
         /\ overlapped \in SUBSET ServiceId /\ hasty \in SUBSET ServiceId
  BY DEF D!TypeOK, LifecycleDocument, PublicationDocument, Handling

LEMMA Markers ==
  /\ NoItem \notin LifecycleDocument /\ NoItem \notin PublicationDocument
  /\ NoItem \notin D!Detail /\ Idle \notin Handling
  BY MarkerAssumption DEF LifecycleDocument, PublicationDocument, Handling, D!Document

LEMMA DocumentTyped ==
  /\ \A d \in LifecycleDocument \cup PublicationDocument : d.data \in 1..MaxWrite
  /\ \A d \in 1..MaxWrite :
       /\ [data |-> d, state |-> "draft"] \in LifecycleDocument
       /\ [data |-> d, state |-> "other"] \in LifecycleDocument
       /\ [data |-> d, state |-> "published"] \in PublicationDocument
       /\ [data |-> d, state |-> "unpublished"] \in PublicationDocument
  BY DEF LifecycleDocument, PublicationDocument, D!Document

LEMMA MessageTyped ==
  ASSUME NEW s \in ServiceId, NEW kind \in D!Kind, NEW data \in 1..MaxWrite
  PROVE  [id |-> s, kind |-> kind, data |-> data] \in D!Detail
  BY DEF D!Detail

LEMMA HandlingTyped ==
  ASSUME D!TypeOK, NEW h \in Handler, handling[h] # Idle
  PROVE  /\ handling[h] \in Handling
         /\ handling[h].message \in D!Detail /\ handling[h].upsert \in BOOLEAN
         /\ handling[h].message.id \in ServiceId
         /\ handling[h].message.kind \in D!Kind
  <1>1. handling[h] \in Handling
    BY DetailKnown
  <1>2. QED
    BY <1>1 DEF Handling, D!Detail

LEMMA DetailShapeWrites ==
  ASSUME DetailShape, NEW s \in ServiceId,
         D!WriteLifecycle(s) \/ D!WritePublication(s) \/ D!DeletePublication(s)
  PROVE  DetailShape'
  <1> USE DetailKnown
  <1>0. D!TypeOK /\ Watched /\ detail \in [ServiceId -> D!Detail \cup {NoItem}]
    BY DEF DetailShape
  <1>1. writes' \in 1..MaxWrite
    BY <1>0, BoundAssumption
       DEF D!WriteLifecycle, D!WritePublication, D!DeletePublication, D!Write
  <1>2. UNCHANGED <<requestDetail, handling, lost, detail, faults, overlapped>>
    BY DEF D!WriteLifecycle, D!WritePublication, D!DeletePublication, D!work
  <1>3. hasty' \in {hasty, hasty \cup {s}}
    BY DEF D!WriteLifecycle, D!WritePublication, D!DeletePublication
  <1>4. CASE D!WriteLifecycle(s)
    <2>1. PICK state \in {"draft", "other"} :
            lifecycle' = [lifecycle EXCEPT ![s] = [data |-> writes', state |-> state]]
      BY <1>4 DEF D!WriteLifecycle
    <2>2. [data |-> writes', state |-> state] \in LifecycleDocument
      BY <1>1, <2>1, DocumentTyped
    <2>3. changed' = changed \cup {<<"lifecycle", s>>} /\ publication' = publication
      BY <1>4 DEF D!WriteLifecycle
    <2>4. /\ lifecycle' \in [ServiceId -> LifecycleDocument \cup {NoItem}]
          /\ lifecycle'[s] # NoItem
          /\ \A t \in ServiceId \ {s} : lifecycle'[t] = lifecycle[t]
      BY <1>0, <2>1, <2>2, Markers
    <2>5. changed' \in SUBSET (D!Kind \X ServiceId)
      BY <1>0, <2>3 DEF D!Kind
    <2>6. Watched'
      BY <1>0, <2>3, <2>4 DEF Watched
    <2>7. QED
      BY <1>0, <1>1, <1>2, <1>3, <2>3, <2>4, <2>5, <2>6
         DEF DetailShape, D!TypeOK, LifecycleDocument, PublicationDocument
  <1>5. CASE D!WritePublication(s)
    <2>1. PICK state \in {"published", "unpublished"} :
            publication' = [publication EXCEPT ![s] = [data |-> writes', state |-> state]]
      BY <1>5 DEF D!WritePublication
    <2>2. [data |-> writes', state |-> state] \in PublicationDocument
      BY <1>1, <2>1, DocumentTyped
    <2>3. changed' = changed \cup {<<"publication", s>>} /\ lifecycle' = lifecycle
      BY <1>5 DEF D!WritePublication
    <2>4. /\ publication' \in [ServiceId -> PublicationDocument \cup {NoItem}]
          /\ publication'[s] # NoItem
          /\ \A t \in ServiceId \ {s} : publication'[t] = publication[t]
      BY <1>0, <2>1, <2>2, Markers
    <2>5. changed' \in SUBSET (D!Kind \X ServiceId)
      BY <1>0, <2>3 DEF D!Kind
    <2>6. Watched'
      BY <1>0, <2>3, <2>4 DEF Watched
    <2>7. QED
      BY <1>0, <1>1, <1>2, <1>3, <2>3, <2>4, <2>5, <2>6
         DEF DetailShape, D!TypeOK, LifecycleDocument, PublicationDocument
  <1>6. CASE D!DeletePublication(s)
    <2>1. /\ publication' = [publication EXCEPT ![s] = NoItem]
          /\ changed' = changed \ {<<"publication", s>>} /\ lifecycle' = lifecycle
      BY <1>6 DEF D!DeletePublication
    <2>2. /\ publication' \in [ServiceId -> PublicationDocument \cup {NoItem}]
          /\ \A t \in ServiceId \ {s} : publication'[t] = publication[t]
      BY <1>0, <2>1
    <2>3. Watched'
      BY <1>0, <2>1, <2>2 DEF Watched
    <2>4. QED
      BY <1>0, <1>1, <1>2, <1>3, <2>1, <2>2, <2>3
         DEF DetailShape, D!TypeOK, LifecycleDocument, PublicationDocument
  <1>7. QED
    BY <1>4, <1>5, <1>6

\* The message that a watcher sends.
LEMMA Sent ==
  ASSUME DetailShape, NEW s \in ServiceId,
         D!WatchLifecycle(s) \/ D!WatchPublication(s)
  PROVE  /\ UNCHANGED <<lifecycle, publication, writes, handling, lost, detail,
                        faults, overlapped, hasty>>
         /\ \/ /\ D!WatchLifecycle(s)
               /\ changed' = changed \ {<<"lifecycle", s>>}
               /\ \/ requestDetail' = requestDetail
                  \/ \E m \in D!Detail : /\ m.id = s /\ m.kind = "lifecycle"
                                         /\ requestDetail' = requestDetail \cup {m}
            \/ /\ D!WatchPublication(s)
               /\ <<"publication", s>> \in changed
               /\ publication[s] # NoItem
               /\ changed' = changed \ {<<"publication", s>>}
               /\ \E m \in D!Detail : /\ m.id = s /\ m.kind = "publication"
                                      /\ m.data = publication[s].data
                                      /\ requestDetail' = requestDetail \cup {m}
  <1> USE DetailKnown
  <1>0. D!TypeOK /\ Watched /\ detail \in [ServiceId -> D!Detail \cup {NoItem}]
    BY DEF DetailShape
  <1>1. UNCHANGED <<lifecycle, publication, writes, handling, lost, detail,
                    faults, overlapped, hasty>>
    BY DEF D!WatchLifecycle, D!WatchPublication, D!containers
  <1>2. CASE D!WatchLifecycle(s)
    <2>1. /\ changed' = changed \ {<<"lifecycle", s>>}
          /\ lifecycle[s] \in LifecycleDocument
      BY <1>0, <1>2 DEF D!WatchLifecycle, Watched
    <2>2. lifecycle[s].data \in 1..MaxWrite
      BY <2>1, DocumentTyped
    <2> DEFINE m == [id |-> s, kind |-> "lifecycle", data |-> lifecycle[s].data]
    <2>3. m \in D!Detail /\ m.id = s /\ m.kind = "lifecycle"
      BY <2>2, MessageTyped DEF D!Kind
    <2>4. requestDetail' = requestDetail \/ requestDetail' = requestDetail \cup {m}
      BY <1>2 DEF D!WatchLifecycle, D!Request
    <2> HIDE DEF m
    <2>5. QED
      BY <1>1, <1>2, <2>1, <2>3, <2>4
  <1>3. CASE D!WatchPublication(s)
    <2>1. /\ changed' = changed \ {<<"publication", s>>}
          /\ <<"publication", s>> \in changed /\ publication[s] # NoItem
          /\ publication[s] \in PublicationDocument
      BY <1>0, <1>3 DEF D!WatchPublication, Watched
    <2>2. publication[s].data \in 1..MaxWrite
      BY <2>1, DocumentTyped
    <2> DEFINE m == [id |-> s, kind |-> "publication", data |-> publication[s].data]
    <2>3. m \in D!Detail /\ m.id = s /\ m.kind = "publication"
          /\ m.data = publication[s].data
      BY <2>2, MessageTyped DEF D!Kind
    <2>4. requestDetail' = requestDetail \cup {m}
      BY <1>3 DEF D!WatchPublication, D!Request
    <2> HIDE DEF m
    <2>5. QED
      BY <1>1, <1>3, <2>1, <2>3, <2>4
  <1>4. QED
    BY <1>2, <1>3

LEMMA DetailShapeFollows ==
  ASSUME DetailShape, Details
  PROVE  DetailShape'
  <1> USE DetailKnown
  <1>0. D!TypeOK /\ Watched /\ detail \in [ServiceId -> D!Detail \cup {NoItem}]
    BY DEF DetailShape
  <1>1. ASSUME NEW s \in ServiceId, D!WatchLifecycle(s) \/ D!WatchPublication(s)
        PROVE  DetailShape'
    <2>1. /\ UNCHANGED <<lifecycle, publication, writes, handling, lost, detail,
                         faults, overlapped, hasty>>
          /\ changed' \in {changed \ {<<"lifecycle", s>>}, changed \ {<<"publication", s>>}}
          /\ \/ requestDetail' = requestDetail
             \/ \E m \in D!Detail : requestDetail' = requestDetail \cup {m}
      <3> HIDE DetailKnown
      <3>1. QED
        BY <1>1, Sent
    <2>2. QED
      BY <1>0, <2>1 DEF DetailShape, D!TypeOK, Watched
  <1>2. ASSUME NEW h \in Handler, NEW m \in requestDetail, D!StartDetail(h, m)
        PROVE  DetailShape'
    <2>1. /\ UNCHANGED <<lifecycle, publication, writes, changed, lost, detail,
                         faults, hasty>>
          /\ requestDetail' = requestDetail \ {m}
          /\ overlapped' \in {overlapped, overlapped \cup {m.id}}
          /\ handling' = [handling EXCEPT ![h] =
                [message |-> m, upsert |-> D!shouldUpsertServiceDetails(m)]]
      BY <1>2 DEF D!StartDetail, D!containers
    <2>2. D!shouldUpsertServiceDetails(m) \in BOOLEAN
      BY DEF D!shouldUpsertServiceDetails, D!IsPublication
    <2>3. m \in D!Detail /\ m.id \in ServiceId
      BY <1>0 DEF D!Detail
    <2>4. [message |-> m, upsert |-> D!shouldUpsertServiceDetails(m)] \in Handling
      BY <2>2, <2>3 DEF Handling
    <2>5. handling' \in [Handler -> Handling \cup {Idle}]
      BY <1>0, <2>1, <2>4
    <2>6. QED
      BY <1>0, <2>1, <2>3, <2>5 DEF DetailShape, D!TypeOK, Watched, Handling
  <1>3. ASSUME NEW h \in Handler, D!EndDetail(h) \/ D!FailDetail(h)
        PROVE  DetailShape'
    <2>1. handling[h] # Idle /\ handling[h].message \in D!Detail
          /\ handling[h].message.id \in ServiceId
      BY <1>0, <1>3, HandlingTyped DEF D!EndDetail, D!FailDetail
    <2>2. /\ UNCHANGED <<lifecycle, publication, writes, changed, lost, overlapped,
                         hasty>>
          /\ handling' = [handling EXCEPT ![h] = Idle]
          /\ requestDetail' \in {requestDetail, requestDetail \cup {handling[h].message}}
          /\ faults' = faults \/ (faults < MaxFault /\ faults' = faults + 1)
      BY <1>3 DEF D!EndDetail, D!FailDetail, D!containers, D!Fault
    <2>3. detail' = detail
          \/ detail' = [detail EXCEPT ![handling[h].message.id] = handling[h].message]
      BY <1>3 DEF D!EndDetail, D!FailDetail
    <2>4. /\ detail' \in [ServiceId -> D!Detail \cup {NoItem}]
          /\ \A s \in ServiceId : detail'[s] \in {d \in D!Detail : d.id = s} \cup {NoItem}
      BY <1>0, <2>1, <2>3
    <2>5. faults' \in 0..MaxFault
      BY <1>0, <2>2, BoundAssumption
    <2>6. handling' \in [Handler -> Handling \cup {Idle}]
      BY <1>0, <2>2
    <2>7. QED
      BY <1>0, <2>1, <2>2, <2>4, <2>5, <2>6 DEF DetailShape, D!TypeOK, Watched, Handling
  <1>4. ASSUME NEW m \in requestDetail, D!GiveUp(m)
        PROVE  DetailShape'
    <2>1. /\ UNCHANGED <<lifecycle, publication, writes, changed, handling, detail,
                         overlapped, hasty>>
          /\ requestDetail' = requestDetail \ {m}
          /\ lost' = lost \cup {m.id}
          /\ faults < MaxFault /\ faults' = faults + 1
      BY <1>4 DEF D!GiveUp, D!containers, D!Fault
    <2>2. m.id \in ServiceId
      BY <1>0 DEF D!Detail
    <2>3. faults' \in 0..MaxFault
      BY <1>0, <2>1, BoundAssumption
    <2>4. QED
      BY <1>0, <2>1, <2>2, <2>3 DEF DetailShape, D!TypeOK, Watched
  <1>5. QED
    BY <1>1, <1>2, <1>3, <1>4, DetailSteps

LEMMA DetailShapeStep ==
  ASSUME DetailShape, [Next]_vars
  PROVE  DetailShape'
  <1>1. ASSUME UNCHANGED detailVars
        PROVE  DetailShape'
    BY <1>1 DEF detailVars, DetailShape, D!TypeOK, Watched
  <1>2. QED
    BY <1>1, Steps, EventSteps, DetailShapeWrites, DetailShapeFollows
       DEF WritePublication, DeletePublication, vars

LEMMA DetailShapeInit ==
  ASSUME Init
  PROVE  DetailShape
  BY BoundAssumption DEF Init, D!Init, DetailShape, D!TypeOK, Watched

-----------------------------------------------------------------------------
(* The ingestion: type correctness                                          *)

LEMMA SameCardinality ==
  ASSUME NEW S
  PROVE  I!Cardinality(S) = Cardinality(S)
  BY DEF I!Cardinality, Cardinality, I!IsFiniteSet, IsFiniteSet

\* The events of one service in a batch: one, or none.
LEMMA SequenceOfNone ==
  I!SetToSeq({}) = <<>>
  <1> DEFINE f == I!SetToSeq({})
  <1>1. I!Cardinality({}) = 0
    BY FS_EmptySet, SameCardinality
  <1>2. f \in [1..0 -> {}]
    <2>1. \E g \in [1..I!Cardinality({}) -> {}] : I!IsInjective(g)
      <3>1. [i \in 1..0 |-> i] \in [1..0 -> {}] /\ I!IsInjective([i \in 1..0 |-> i])
        BY DEF I!IsInjective
      <3>2. QED
        BY <3>1, <1>1
    <2>2. QED
      BY <1>1, <2>1 DEF I!SetToSeq
  <1> HIDE DEF f
  <1>3. f \in Seq({})
    BY <1>2, SeqDef
  <1>4. Len(f) = 0
    BY <1>2, <1>3, LenProperties
  <1>5. f = <<>>
    BY <1>3, <1>4, EmptySeq
  <1>6. QED
    BY <1>5 DEF f

LEMMA SequenceOfOne ==
  ASSUME NEW S, NEW x \in S
  PROVE  /\ I!SetToSeq({x}) \in Seq(S)
         /\ Len(I!SetToSeq({x})) = 1
         /\ I!SetToSeq({x})[1] = x
  <1> DEFINE f == I!SetToSeq({x})
  <1>1. I!Cardinality({x}) = 1
    BY FS_Singleton, SameCardinality
  <1>2. f \in [1..1 -> {x}]
    <2>1. \E g \in [1..I!Cardinality({x}) -> {x}] : I!IsInjective(g)
      <3>1. /\ [i \in 1..1 |-> x] \in [1..1 -> {x}]
            /\ I!IsInjective([i \in 1..1 |-> x])
        BY DEF I!IsInjective
      <3>2. QED
        BY <3>1, <1>1
    <2>2. QED
      BY <1>1, <2>1 DEF I!SetToSeq
  <1> HIDE DEF f
  <1>3. f \in [1..1 -> S] /\ f[1] = x
    BY <1>2
  <1>4. f \in Seq(S)
    BY <1>3, SeqDef
  <1>5. Len(f) = 1
    BY <1>3, <1>4, LenProperties
  <1>6. QED
    BY <1>3, <1>4, <1>5 DEF f

\* The event that a watcher makes of a document that is there.
LEMMA EventTyped ==
  ASSUME D!TypeOK, NEW s \in ServiceId, publication[s] # NoItem
  PROVE  I!EventOf(s) \in I!Event /\ I!EventOf(s).id = s
                                  /\ I!EventOf(s).data = publication[s].data
  <1>1. publication[s].data \in 1..MaxWrite
    BY DetailKnown, DocumentTyped
  <1>2. QED
    BY <1>1 DEF I!EventOf, I!Event

\* What is sent comes after what came before; an id that nothing is sent of
\* keeps its events.
LEMMA SentEvents ==
  ASSUME topic \in [ServiceId -> Seq(I!Event)],
         NEW events \in SUBSET I!Event, I!Send(events),
         NEW s \in ServiceId
  PROVE  /\ (\A e \in events : e.id # s) => topic'[s] = topic[s]
         /\ \A e \in events :
              (\A o \in events : o.id = s => o = e) /\ e.id = s =>
                /\ topic'[s] \in Seq(I!Event)
                /\ topic'[s] # <<>>
                /\ Last(topic'[s]) = e
                /\ e \in I!ToSet(topic'[s])
                /\ I!ToSet(topic[s]) \subseteq I!ToSet(topic'[s])
  <1>1. topic[s] \in Seq(I!Event)
    OBVIOUS
  <1>2. topic'[s] = topic[s] \o I!SetToSeq({e \in events : e.id = s})
    BY DEF I!Send
  <1>3. ASSUME \A e \in events : e.id # s
        PROVE  topic'[s] = topic[s]
    <2>1. {e \in events : e.id = s} = {}
      BY <1>3
    <2>2. topic'[s] = topic[s] \o <<>>
      BY <1>2, <2>1, SequenceOfNone
    <2>3. QED
      BY <1>1, <2>2, ConcatEmptySeq
  <1>4. ASSUME NEW e \in events, e.id = s, \A o \in events : o.id = s => o = e
        PROVE  /\ topic'[s] \in Seq(I!Event)
               /\ topic'[s] # <<>>
               /\ Last(topic'[s]) = e
               /\ e \in I!ToSet(topic'[s])
               /\ I!ToSet(topic[s]) \subseteq I!ToSet(topic'[s])
    <2> DEFINE q == I!SetToSeq({e})
    <2> DEFINE old == topic[s]
    <2> DEFINE new == topic'[s]
    <2>1. {o \in events : o.id = s} = {e}
      BY <1>4
    <2>2. e \in I!Event
      BY <1>4
    <2>3. q \in Seq(I!Event) /\ Len(q) = 1 /\ q[1] = e
      BY <2>2, SequenceOfOne
    <2>4. new = old \o q
      BY <1>2, <2>1
    <2> HIDE DEF q
    <2>5. old \in Seq(I!Event)
      BY <1>1
    <2> HIDE DEF old, new
    <2>6. /\ new \in Seq(I!Event)
          /\ Len(new) = Len(old) + 1
          /\ \A i \in 1..(Len(old) + 1) :
               new[i] = IF i <= Len(old) THEN old[i] ELSE q[i - Len(old)]
      <3>1. /\ old \o q \in Seq(I!Event)
            /\ Len(old \o q) = Len(old) + Len(q)
            /\ \A i \in 1..(Len(old) + Len(q)) :
                 (old \o q)[i] = IF i <= Len(old) THEN old[i] ELSE q[i - Len(old)]
        BY <2>3, <2>5, ConcatProperties
      <3>2. Len(q) = 1
        BY <2>3
      <3>3. QED
        BY <3>1, <3>2, <2>4
    <2>7. Len(old) \in Nat /\ DOMAIN old = 1..Len(old) /\ DOMAIN new = 1..Len(new)
      BY <2>5, <2>6, LenProperties
    <2>8. new[Len(new)] = e /\ Len(new) \in DOMAIN new
      BY <2>3, <2>6, <2>7
    <2>9. \A i \in DOMAIN old : i \in DOMAIN new /\ new[i] = old[i]
      BY <2>6, <2>7
    <2>10. e \in I!ToSet(new) /\ I!ToSet(old) \subseteq I!ToSet(new)
      BY <2>8, <2>9 DEF I!ToSet
    <2>11. new # <<>>
      BY <2>6, <2>7, EmptySeq
    <2>12. Last(new) = e
      BY <2>8 DEF Last
    <2>13. QED
      BY <2>6, <2>10, <2>11, <2>12 DEF new, old
  <1>5. QED
    BY <1>3, <1>4

\* What a watcher ingests is there.
Shape ==
  /\ DetailShape
  /\ I!TypeOK
  /\ \A s \in fresh : publication[s] # NoItem

LEMMA ShapeKnown ==
  ASSUME Shape
  PROVE  /\ DetailShape /\ D!TypeOK
         /\ fresh \in SUBSET ServiceId /\ retries \in SUBSET I!Event
         /\ topic \in [ServiceId -> Seq(I!Event)]
         /\ breaks \in 0..MaxBreak
         /\ retried \in SUBSET ServiceId /\ skipped \in SUBSET ServiceId
         /\ \A s \in fresh : publication[s] # NoItem
         /\ \A e \in retries : e.id \in ServiceId
  BY DEF Shape, DetailShape, I!TypeOK, I!Event

LEMMA IngestSent ==
  ASSUME Shape, NEW batch \in SUBSET fresh, I!Ingest(batch)
  PROVE  /\ UNCHANGED <<publication, retries, retried, skipped>>
         /\ \/ fresh' = fresh \ batch /\ breaks' = breaks
            \/ fresh' = fresh /\ breaks < MaxBreak /\ breaks' = breaks + 1
         /\ topic' \in [ServiceId -> Seq(I!Event)]
         /\ \A s \in ServiceId \ batch : topic'[s] = topic[s]
         /\ \A s \in batch : /\ topic'[s] # <<>>
                             /\ Last(topic'[s]) = I!EventOf(s)
                             /\ I!EventOf(s) \in I!ToSet(topic'[s])
  <1> USE ShapeKnown
  <1> DEFINE events == {I!EventOf(s) : s \in batch}
  <1>1. \A s \in batch : I!EventOf(s) \in I!Event /\ I!EventOf(s).id = s
    BY EventTyped
  <1>2. events \in SUBSET I!Event
    BY <1>1
  <1>3. I!Send(events)
    BY DEF I!Ingest
  <1>4. \A e \in events : e = I!EventOf(e.id) /\ e.id \in batch
    BY <1>1
  <1>5. \A s \in batch : I!EventOf(s) \in events
    OBVIOUS
  <1> HIDE DEF events
  <1>6. ASSUME NEW s \in ServiceId \ batch
        PROVE  topic'[s] = topic[s]
    <2>1. \A e \in events : e.id # s
      BY <1>4
    <2>2. QED
      BY <1>2, <1>3, <2>1, SentEvents
  <1>7. ASSUME NEW s \in batch
        PROVE  /\ topic'[s] \in Seq(I!Event)
               /\ topic'[s] # <<>>
               /\ Last(topic'[s]) = I!EventOf(s)
               /\ I!EventOf(s) \in I!ToSet(topic'[s])
    <2>1. s \in ServiceId /\ I!EventOf(s) \in events /\ I!EventOf(s).id = s
      BY <1>1, <1>5
    <2>2. \A o \in events : o.id = s => o = I!EventOf(s)
      BY <1>4
    <2> DEFINE e == I!EventOf(s)
    <2>3. e \in events /\ e.id = s /\ \A o \in events : o.id = s => o = e
      BY <2>1, <2>2
    <2> HIDE DEF e
    <2>4. /\ topic'[s] \in Seq(I!Event)
          /\ topic'[s] # <<>>
          /\ Last(topic'[s]) = e
          /\ e \in I!ToSet(topic'[s])
      BY <1>2, <1>3, <2>1, <2>3, SentEvents
    <2>5. QED
      BY <2>4 DEF e
  <1>8. topic' \in [ServiceId -> Seq(I!Event)]
    <2>1. \A s \in ServiceId : topic'[s] \in Seq(I!Event)
      BY <1>6, <1>7
    <2>2. topic' = [s \in ServiceId |-> topic'[s]]
      BY DEF I!Ingest, I!Send
    <2>3. QED
      BY <2>1, <2>2
  <1>9. /\ UNCHANGED <<publication, retries, retried, skipped>>
        /\ \/ fresh' = fresh \ batch /\ breaks' = breaks
           \/ fresh' = fresh /\ breaks < MaxBreak /\ breaks' = breaks + 1
    BY DEF I!Ingest, I!Break
  <1>10. QED
    BY <1>6, <1>7, <1>8, <1>9

LEMMA RetrySent ==
  ASSUME Shape, NEW e \in retries, I!Retry(e)
  PROVE  /\ UNCHANGED <<publication, fresh, retried, skipped>>
         /\ \/ retries' = retries \ {e} /\ breaks' = breaks
            \/ retries' = retries /\ breaks < MaxBreak /\ breaks' = breaks + 1
         /\ topic' \in [ServiceId -> Seq(I!Event)]
         /\ \A s \in ServiceId : s # e.id => topic'[s] = topic[s]
         /\ \A s \in ServiceId : I!ToSet(topic[s]) \subseteq I!ToSet(topic'[s])
         /\ e \in I!ToSet(topic'[e.id])
  <1> USE ShapeKnown
  <1>1. {e} \in SUBSET I!Event /\ I!Send({e}) /\ e.id \in ServiceId
    BY DEF I!Retry
  <1>2. ASSUME NEW s \in ServiceId, s # e.id
        PROVE  topic'[s] = topic[s]
    <2>1. \A o \in {e} : o.id # s
      BY <1>2
    <2>2. QED
      BY <1>1, <2>1, SentEvents
  <1>3. /\ topic'[e.id] \in Seq(I!Event)
        /\ e \in I!ToSet(topic'[e.id])
        /\ I!ToSet(topic[e.id]) \subseteq I!ToSet(topic'[e.id])
    <2>1. PICK s \in ServiceId : s = e.id
      BY <1>1
    <2>2. e \in {e} /\ e.id = s /\ \A o \in {e} : o.id = s => o = e
      BY <2>1
    <2>3. /\ topic'[s] \in Seq(I!Event)
          /\ e \in I!ToSet(topic'[s])
          /\ I!ToSet(topic[s]) \subseteq I!ToSet(topic'[s])
      BY <1>1, <2>2, SentEvents
    <2>4. QED
      BY <2>1, <2>3
  <1>4. topic' \in [ServiceId -> Seq(I!Event)]
    <2>1. \A s \in ServiceId : topic'[s] \in Seq(I!Event)
      BY <1>2, <1>3
    <2>2. topic' = [s \in ServiceId |-> topic'[s]]
      BY DEF I!Retry, I!Send
    <2>3. QED
      BY <2>1, <2>2
  <1>5. /\ UNCHANGED <<publication, fresh, retried, skipped>>
        /\ \/ retries' = retries \ {e} /\ breaks' = breaks
           \/ retries' = retries /\ breaks < MaxBreak /\ breaks' = breaks + 1
    BY DEF I!Retry, I!Break
  <1>6. QED
    BY <1>2, <1>3, <1>4, <1>5

\* The steps of the ingestion that send nothing.
LEMMA NothingSent ==
  ASSUME Shape,
         \/ \E batch \in SUBSET fresh : I!IngestionError(batch) \/ I!SkipBatch(batch)
         \/ \E e \in retries : I!GiveUp(e)
  PROVE  /\ topic' = topic /\ publication' = publication
         /\ breaks < MaxBreak /\ breaks' = breaks + 1
         /\ \/ \E batch \in SUBSET fresh :
                 /\ fresh' = fresh \ batch
                 /\ \/ /\ retries' = retries \cup {I!EventOf(s) : s \in batch}
                       /\ retried' = retried \cup batch
                       /\ skipped' = skipped
                    \/ /\ retries' = retries /\ retried' = retried
                       /\ skipped' = skipped \cup batch
            \/ \E e \in retries :
                 /\ fresh' = fresh /\ retried' = retried
                 /\ retries' = retries \ {e}
                 /\ skipped' = skipped \cup {e.id}
  BY DEF I!IngestionError, I!SkipBatch, I!GiveUp, I!Break

LEMMA ShapeStep ==
  ASSUME Shape, [Next]_vars
  PROVE  Shape'
  <1> USE ShapeKnown
  <1>1. DetailShape'
    BY DetailShapeStep
  <1>2. ASSUME UNCHANGED ingestionVars, \A s \in ServiceId : publication[s] # NoItem =>
                                           publication'[s] # NoItem
        PROVE  Shape'
    BY <1>1, <1>2 DEF ingestionVars, Shape, I!TypeOK
  <1>3. ASSUME NEW s \in ServiceId, D!WriteLifecycle(s), UNCHANGED ingestionVars
        PROVE  Shape'
    BY <1>2, <1>3 DEF D!WriteLifecycle
  <1>4. ASSUME NEW s \in ServiceId, WritePublication(s)
        PROVE  Shape'
    <2>1. /\ fresh' = fresh \cup {s}
          /\ UNCHANGED <<retries, topic, breaks, retried, skipped>>
          /\ \A t \in ServiceId \ {s} : publication'[t] = publication[t]
      BY <1>4, DetailKnown DEF WritePublication, D!WritePublication
    <2>2. publication'[s] # NoItem
      BY <1>1, <1>4 DEF WritePublication, D!WritePublication, DetailShape, Watched
    <2>3. QED
      BY <1>1, <2>1, <2>2 DEF Shape, I!TypeOK
  <1>5. ASSUME NEW s \in ServiceId, DeletePublication(s)
        PROVE  Shape'
    <2>1. /\ fresh' = fresh \ {s}
          /\ UNCHANGED <<retries, topic, breaks, retried, skipped>>
          /\ \A t \in ServiceId \ {s} : publication'[t] = publication[t]
      BY <1>5, DetailKnown DEF DeletePublication, D!DeletePublication
    <2>2. QED
      BY <1>1, <2>1 DEF Shape, I!TypeOK
  <1>6. CASE Details
    <2>1. publication' = publication
      BY <1>6, DetailSteps, Sent
         DEF D!StartDetail, D!EndDetail, D!FailDetail, D!GiveUp, D!containers
    <2>2. QED
      BY <1>2, <1>6, <2>1, DetailSteps
  <1>7. CASE Events
    <2>1. ASSUME NEW batch \in SUBSET fresh, I!Ingest(batch)
          PROVE  Shape'
      <3>1. breaks' \in 0..MaxBreak
        BY <2>1, IngestSent, BoundAssumption
      <3>2. QED
        BY <1>1, <2>1, <3>1, IngestSent DEF Shape, I!TypeOK
    <2>2. ASSUME NEW e \in retries, I!Retry(e)
          PROVE  Shape'
      <3>1. breaks' \in 0..MaxBreak
        BY <2>2, RetrySent, BoundAssumption
      <3>2. QED
        BY <1>1, <2>2, <3>1, RetrySent DEF Shape, I!TypeOK
    <2>3. ASSUME \/ \E batch \in SUBSET fresh :
                      I!IngestionError(batch) \/ I!SkipBatch(batch)
                 \/ \E e \in retries : I!GiveUp(e)
          PROVE  Shape'
      <3>1. topic' = topic /\ publication' = publication /\ breaks' \in 0..MaxBreak
        BY <2>3, NothingSent, BoundAssumption
      <3>2. /\ fresh' \in SUBSET fresh /\ retries' \in SUBSET I!Event
            /\ retried' \in SUBSET ServiceId /\ skipped' \in SUBSET ServiceId
        <4>1. \A batch \in SUBSET fresh : {I!EventOf(s) : s \in batch} \in SUBSET I!Event
          BY EventTyped
        <4>2. QED
          BY <2>3, <4>1, NothingSent
      <3>3. QED
        BY <1>1, <3>1, <3>2 DEF Shape, I!TypeOK
    <2>4. QED
      BY <1>7, <2>1, <2>2, <2>3, EventSteps
  <1>8. CASE UNCHANGED vars
    BY <1>2, <1>8 DEF vars, detailVars
  <1>9. QED
    BY <1>3, <1>4, <1>5, <1>6, <1>7, <1>8, Steps

LEMMA ShapeInit ==
  ASSUME Init
  PROVE  Shape
  <1>1. DetailShape
    BY DetailShapeInit
  <1>2. topic \in [ServiceId -> Seq(I!Event)]
    BY EmptySeq DEF Init, I!Init
  <1>3. QED
    BY <1>1, <1>2, BoundAssumption DEF Init, I!Init, Shape, I!TypeOK

\* The containers, the queue, the details, the event hub and the retry queue
\* keep their shape, however many handlers and services there are.
THEOREM TypeCorrect == Spec => []TypeOK
  <1>1. Init => Shape
    BY ShapeInit
  <1>2. Shape /\ [Next]_vars => Shape'
    BY ShapeStep
  <1>3. Shape => TypeOK
    BY DEF Shape, DetailShape, TypeOK
  <1>4. QED
    BY <1>1, <1>2, <1>3, PTL DEF Spec

-----------------------------------------------------------------------------
(* What is ingested                                                         *)

\* A document that is there and not given up is still to be handled, or in the
\* retry queue, or its last version came to the event hub.
Ingested ==
  \A s \in ServiceId \ skipped : publication[s] # NoItem =>
    s \in fresh \/ I!EventOf(s) \in retries \/ I!EventOf(s) \in I!ToSet(topic[s])

\* A document that never went to the retry queue has its last version last.
Ordered ==
  \A s \in ServiceId \ (retried \cup skipped) :
    /\ \A e \in retries : e.id # s
    /\ publication[s] # NoItem =>
         s \in fresh \/ (topic[s] # <<>> /\ Last(topic[s]) = I!EventOf(s))

LEMMA SameEvent ==
  ASSUME NEW s \in ServiceId, publication'[s] = publication[s]
  PROVE  I!EventOf(s)' = I!EventOf(s)
  BY DEF I!EventOf

LEMMA EventsInit ==
  ASSUME Init
  PROVE  Ingested /\ Ordered
  BY DEF Init, D!Init, I!Init, Ingested, Ordered

\* The writes put a document among the fresh ones, or take it away.
LEMMA EventsKeptByWrites ==
  ASSUME Shape, Ingested, Ordered,
         \/ \E s \in ServiceId : D!WriteLifecycle(s) /\ UNCHANGED ingestionVars
         \/ \E s \in ServiceId : WritePublication(s) \/ DeletePublication(s)
         \/ Details
         \/ UNCHANGED vars
  PROVE  Ingested' /\ Ordered'
  <1> USE ShapeKnown
  <1>1. /\ UNCHANGED <<retries, topic, retried, skipped>>
        /\ \A t \in ServiceId :
             \/ t \in fresh'
             \/ publication'[t] = NoItem
             \/ publication'[t] = publication[t] /\ (t \in fresh => t \in fresh')
    <2>1. ASSUME NEW s \in ServiceId, WritePublication(s)
          PROVE  /\ UNCHANGED <<retries, topic, retried, skipped>>
                 /\ s \in fresh'
                 /\ \A t \in ServiceId \ {s} : /\ publication'[t] = publication[t]
                                               /\ t \in fresh => t \in fresh'
      BY <2>1, DetailKnown DEF WritePublication, D!WritePublication
    <2>2. ASSUME NEW s \in ServiceId, DeletePublication(s)
          PROVE  /\ UNCHANGED <<retries, topic, retried, skipped>>
                 /\ publication'[s] = NoItem
                 /\ \A t \in ServiceId \ {s} : /\ publication'[t] = publication[t]
                                               /\ t \in fresh => t \in fresh'
      BY <2>2, DetailKnown DEF DeletePublication, D!DeletePublication
    <2>3. CASE Details
      <3>1. publication' = publication /\ UNCHANGED ingestionVars
        BY <2>3, DetailSteps, Sent
           DEF D!StartDetail, D!EndDetail, D!FailDetail, D!GiveUp, D!containers
      <3>2. QED
        BY <3>1 DEF ingestionVars
    <2>4. CASE \E s \in ServiceId : D!WriteLifecycle(s) /\ UNCHANGED ingestionVars
      BY <2>4 DEF D!WriteLifecycle, ingestionVars
    <2>5. CASE UNCHANGED vars
      BY <2>5 DEF vars, detailVars, ingestionVars
    <2>6. QED
      BY <2>1, <2>2, <2>3, <2>4, <2>5
  <1>2. \A t \in ServiceId : publication'[t] = publication[t] =>
          I!EventOf(t)' = I!EventOf(t)
    BY SameEvent
  <1>3. Ingested'
    BY <1>1, <1>2 DEF Ingested
  <1>4. Ordered'
    BY <1>1, <1>2 DEF Ordered
  <1>5. QED
    BY <1>3, <1>4

LEMMA EventsKeptByIngest ==
  ASSUME Shape, Ingested, Ordered, Events
  PROVE  Ingested' /\ Ordered'
  <1> USE ShapeKnown
  <1>1. ASSUME NEW batch \in SUBSET fresh, I!Ingest(batch)
        PROVE  Ingested' /\ Ordered'
    <2>1. \A t \in ServiceId : I!EventOf(t)' = I!EventOf(t)
      BY <1>1, IngestSent, SameEvent
    <2>2. /\ UNCHANGED <<publication, retries, retried, skipped>>
          /\ \A t \in ServiceId \ batch : t \in fresh => t \in fresh'
          /\ \A t \in ServiceId \ batch : topic'[t] = topic[t]
          /\ \A t \in batch : /\ topic'[t] # <<>>
                              /\ Last(topic'[t]) = I!EventOf(t)
                              /\ I!EventOf(t) \in I!ToSet(topic'[t])
      BY <1>1, IngestSent
    <2>3. Ingested'
      BY <2>1, <2>2 DEF Ingested
    <2>4. Ordered'
      BY <2>1, <2>2 DEF Ordered
    <2>5. QED
      BY <2>3, <2>4
  <1>2. ASSUME NEW e \in retries, I!Retry(e)
        PROVE  Ingested' /\ Ordered'
    <2>1. \A t \in ServiceId : I!EventOf(t)' = I!EventOf(t)
      BY <1>2, RetrySent, SameEvent
    <2>2. /\ UNCHANGED <<publication, fresh, retried, skipped>>
          /\ retries' \in {retries, retries \ {e}}
          /\ \A t \in ServiceId : t # e.id => topic'[t] = topic[t]
          /\ \A t \in ServiceId : I!ToSet(topic[t]) \subseteq I!ToSet(topic'[t])
          /\ e \in I!ToSet(topic'[e.id])
      BY <1>2, RetrySent
    <2>3. \A t \in ServiceId : I!EventOf(t).id = t
      BY DEF I!EventOf
    <2>4. Ingested'
      BY <2>1, <2>2, <2>3 DEF Ingested
    <2>5. Ordered'
      BY <2>1, <2>2 DEF Ordered
    <2>6. QED
      BY <2>4, <2>5
  <1>3. ASSUME \/ \E batch \in SUBSET fresh :
                    I!IngestionError(batch) \/ I!SkipBatch(batch)
               \/ \E e \in retries : I!GiveUp(e)
        PROVE  Ingested' /\ Ordered'
    <2>1. topic' = topic /\ publication' = publication
      BY <1>3, NothingSent
    <2>2. \A t \in ServiceId : I!EventOf(t)' = I!EventOf(t) /\ I!EventOf(t).id = t
      BY <2>1, SameEvent DEF I!EventOf
    <2>3. ASSUME NEW batch \in SUBSET fresh,
                 fresh' = fresh \ batch,
                 retries' = retries \cup {I!EventOf(s) : s \in batch},
                 retried' = retried \cup batch, skipped' = skipped
          PROVE  Ingested' /\ Ordered'
      <3>1. /\ \A t \in batch : I!EventOf(t) \in retries'
            /\ \A e \in retries' : e \in retries \/ e.id \in batch
        BY <2>2, <2>3
      <3>2. Ingested'
        BY <2>1, <2>2, <2>3, <3>1 DEF Ingested
      <3>3. Ordered'
        BY <2>1, <2>2, <2>3, <3>1 DEF Ordered
      <3>4. QED
        BY <3>2, <3>3
    <2>4. ASSUME NEW batch \in SUBSET fresh,
                 fresh' = fresh \ batch, UNCHANGED <<retries, retried>>,
                 skipped' = skipped \cup batch
          PROVE  Ingested' /\ Ordered'
      BY <2>1, <2>2, <2>4 DEF Ingested, Ordered
    <2>5. ASSUME NEW e \in retries,
                 fresh' = fresh, retried' = retried, retries' = retries \ {e},
                 skipped' = skipped \cup {e.id}
          PROVE  Ingested' /\ Ordered'
      BY <2>1, <2>2, <2>5 DEF Ingested, Ordered
    <2>6. QED
      BY <1>3, <2>3, <2>4, <2>5, NothingSent
  <1>4. QED
    BY <1>1, <1>2, <1>3, EventSteps

LEMMA EventsStep ==
  ASSUME Shape, Ingested, Ordered, [Next]_vars
  PROVE  Ingested' /\ Ordered'
  BY Steps, EventsKeptByWrites, EventsKeptByIngest

\* When nothing is left to ingest, the event hub has the last version of every
\* document that was not given up, whatever failed and was sent again.
THEOREM IngestedCorrect == Spec => []LatestIsIngested
  <1>1. Init => Shape /\ Ingested /\ Ordered
    BY ShapeInit, EventsInit
  <1>2. Shape /\ Ingested /\ Ordered /\ [Next]_vars => (Shape /\ Ingested /\ Ordered)'
    BY ShapeStep, EventsStep
  <1>3. Ingested => LatestIsIngested
    BY DEF Ingested, LatestIsIngested, I!LatestIsIngested
  <1>4. QED
    BY <1>1, <1>2, <1>3, PTL DEF Spec

-----------------------------------------------------------------------------
(* What is shown                                                            *)

Publishing(m, s) == m.id = s /\ m.kind = "publication"

Handles(h, m) == handling[h] # Idle /\ handling[h].message = m

InFlight(m) == m \in requestDetail \/ \E h \in Handler : Handles(h, m)

\* A publication of s is in the queue, or a handler works on it.
Coming(s) == \E m \in D!Detail : Publishing(m, s) /\ InFlight(m)

\* Two handlers on one service is what "overlapped" remembers.
Alone ==
  \A g, h \in Handler :
    /\ handling[g] # Idle /\ handling[h] # Idle
    /\ handling[g].message.id = handling[h].message.id
    => g = h \/ handling[g].message.id \in overlapped

\* What a handler has decided is still right, if it is alone.
Decided ==
  \A h \in Handler : handling[h] # Idle =>
    /\ handling[h].message.kind = "publication" => handling[h].upsert
    /\ handling[h].message.kind = "lifecycle" /\ handling[h].upsert =>
         \/ handling[h].message.id \in overlapped
         \/ ~ D!IsPublication(detail[handling[h].message.id])

\* A publication has reached the details, or is on its way to them.
OnItsWay ==
  \A s \in ServiceId \ (lost \cup overlapped) : publication[s] # NoItem =>
    \/ <<"publication", s>> \in changed
    \/ Coming(s)
    \/ D!IsPublication(detail[s])

\* What is on its way is the latest, if each publication waited for the last.
Current ==
  \A s \in ServiceId \ (lost \cup overlapped \cup hasty) : publication[s] # NoItem =>
    /\ \A m \in D!Detail : Publishing(m, s) /\ InFlight(m) =>
         m.data = publication[s].data /\ <<"publication", s>> \notin changed
    /\ \/ <<"publication", s>> \in changed
       \/ Coming(s)
       \/ detail[s].data = publication[s].data

Showing == Alone /\ Decided /\ OnItsWay /\ Current

LEMMA ShowingInit ==
  ASSUME Init
  PROVE  Showing
  BY DEF Init, D!Init, Showing, Alone, Decided, OnItsWay, Current

\* A message is under way as long as the queue and the handlers keep it.
LEMMA InFlightKept ==
  ASSUME NEW m, UNCHANGED <<requestDetail, handling>>
  PROVE  InFlight(m)' <=> InFlight(m)
  BY DEF InFlight, Handles

LEMMA ComingKept ==
  ASSUME NEW s, \A m \in D!Detail : Publishing(m, s) => (InFlight(m)' <=> InFlight(m))
  PROVE  Coming(s)' <=> Coming(s)
  BY DEF Coming, Publishing, D!Detail, D!Kind

\* The writes of the containers disturb no handler.
LEMMA ShowingWrites ==
  ASSUME DetailShape, Showing, NEW s \in ServiceId,
         D!WriteLifecycle(s) \/ D!WritePublication(s) \/ D!DeletePublication(s)
  PROVE  Showing'
  <1> USE DetailKnown
  <1>0. D!TypeOK /\ Watched /\ Alone /\ Decided /\ OnItsWay /\ Current
    BY DEF DetailShape, Showing
  <1>1. UNCHANGED <<requestDetail, handling, lost, detail, overlapped>>
    BY DEF D!WriteLifecycle, D!WritePublication, D!DeletePublication, D!work
  <1>2. Alone' /\ Decided'
    BY <1>0, <1>1 DEF Alone, Decided, D!IsPublication
  <1>3. \A m : InFlight(m)' <=> InFlight(m)
    BY <1>1, InFlightKept
  <1>4. \A t : Coming(t)' <=> Coming(t)
    BY <1>3, ComingKept
  <1>5. \A t \in ServiceId : D!IsPublication(detail[t])' <=> D!IsPublication(detail[t])
    BY <1>1 DEF D!IsPublication
  <1>6. ASSUME hasty \subseteq hasty',
               \A t \in ServiceId :
                 \/ publication'[t] = NoItem
                 \/ /\ publication'[t] = publication[t]
                    /\ <<"publication", t>> \in changed' <=> <<"publication", t>> \in changed
                 \/ /\ <<"publication", t>> \in changed'
                    /\ t \in hasty' \/ ~ Coming(t)
        PROVE  OnItsWay' /\ Current'
    <2>1. OnItsWay'
      BY <1>0, <1>1, <1>4, <1>5, <1>6 DEF OnItsWay
    <2>2. \A t \in ServiceId, m \in D!Detail :
            Publishing(m, t) /\ InFlight(m) => Coming(t)
      BY DEF Coming
    <2>3. Current'
      BY <1>0, <1>1, <1>3, <1>4, <1>6, <2>2 DEF Current
    <2>4. QED
      BY <2>1, <2>3
  <1>7. CASE D!WriteLifecycle(s)
    <2>1. /\ hasty' = hasty /\ publication' = publication
          /\ changed' = changed \cup {<<"lifecycle", s>>}
      BY <1>7 DEF D!WriteLifecycle
    <2>2. \A t : <<"publication", t>> \in changed' <=> <<"publication", t>> \in changed
      BY <2>1
    <2>3. QED
      BY <1>2, <1>6, <2>1, <2>2 DEF Showing
  <1>8. CASE D!WritePublication(s)
    <2>1. /\ changed' = changed \cup {<<"publication", s>>}
          /\ \A t \in ServiceId \ {s} : publication'[t] = publication[t]
          /\ hasty' = IF D!Quiet(s) THEN hasty ELSE hasty \cup {s}
      BY <1>0, <1>8 DEF D!WritePublication
    <2>2. D!Quiet(s) => ~ Coming(s)
      BY DEF D!Quiet, Coming, Publishing, InFlight, Handles
    <2>3. hasty \subseteq hasty' /\ (s \in hasty' \/ ~ Coming(s))
      BY <2>1, <2>2
    <2>4. \A t \in ServiceId \ {s} :
            <<"publication", t>> \in changed' <=> <<"publication", t>> \in changed
      BY <2>1
    <2>5. <<"publication", s>> \in changed'
      BY <2>1
    <2>6. QED
      BY <1>2, <1>6, <2>1, <2>3, <2>4, <2>5 DEF Showing
  <1>9. CASE D!DeletePublication(s)
    <2>1. /\ changed' = changed \ {<<"publication", s>>} /\ hasty' = hasty
          /\ publication'[s] = NoItem
          /\ \A t \in ServiceId \ {s} : publication'[t] = publication[t]
      BY <1>0, <1>9 DEF D!DeletePublication
    <2>2. \A t \in ServiceId \ {s} :
            <<"publication", t>> \in changed' <=> <<"publication", t>> \in changed
      BY <2>1
    <2>3. QED
      BY <1>2, <1>6, <2>1, <2>2 DEF Showing
  <1>10. QED
    BY <1>7, <1>8, <1>9

LEMMA ShowingWatchers ==
  ASSUME DetailShape, Showing, NEW s \in ServiceId,
         D!WatchLifecycle(s) \/ D!WatchPublication(s)
  PROVE  Showing'
  <1>0. D!TypeOK /\ Watched /\ Alone /\ Decided /\ OnItsWay /\ Current
    BY DEF DetailShape, Showing
  <1>1. UNCHANGED <<lifecycle, publication, writes, handling, lost, detail,
                    faults, overlapped, hasty>>
    BY Sent
  <1>2. Alone' /\ Decided'
    BY <1>0, <1>1 DEF Alone, Decided, D!IsPublication
  <1>3. \A t \in ServiceId : D!IsPublication(detail[t])' <=> D!IsPublication(detail[t])
    BY <1>1 DEF D!IsPublication
  <1>4. CASE /\ changed' = changed \ {<<"lifecycle", s>>}
             /\ \/ requestDetail' = requestDetail
                \/ \E m \in D!Detail : /\ m.id = s /\ m.kind = "lifecycle"
                                       /\ requestDetail' = requestDetail \cup {m}
    <2>1. \A t : <<"publication", t>> \in changed' <=> <<"publication", t>> \in changed
      BY <1>4
    <2>2. \A t, m : Publishing(m, t) => (InFlight(m)' <=> InFlight(m))
      BY <1>1, <1>4 DEF Publishing, InFlight, Handles
    <2>3. \A t : Coming(t)' <=> Coming(t)
      BY <2>2, ComingKept
    <2>4. OnItsWay'
      BY <1>0, <1>1, <1>3, <2>1, <2>3 DEF OnItsWay
    <2>5. Current'
      BY <1>0, <1>1, <2>1, <2>2, <2>3 DEF Current
    <2>6. QED
      BY <1>2, <2>4, <2>5 DEF Showing
  <1>5. CASE /\ <<"publication", s>> \in changed /\ publication[s] # NoItem
             /\ changed' = changed \ {<<"publication", s>>}
             /\ \E m \in D!Detail : /\ m.id = s /\ m.kind = "publication"
                                    /\ m.data = publication[s].data
                                    /\ requestDetail' = requestDetail \cup {m}
    <2>1. PICK m \in D!Detail : /\ Publishing(m, s)
                                /\ m.data = publication[s].data
                                /\ requestDetail' = requestDetail \cup {m}
      BY <1>5 DEF Publishing
    <2>2. /\ \A t \in ServiceId \ {s} :
               <<"publication", t>> \in changed' <=> <<"publication", t>> \in changed
          /\ <<"publication", s>> \notin changed'
      BY <1>5
    <2>3. \A x : InFlight(x)' <=> InFlight(x) \/ x = m
      BY <1>1, <2>1 DEF InFlight, Handles
    <2>4. \A t, x : Publishing(x, t) /\ t # s => x # m
      BY <2>1 DEF Publishing
    <2>5. \A t : t # s => (Coming(t)' <=> Coming(t))
      BY <2>3, <2>4, ComingKept
    <2>6. Coming(s)'
      BY <2>1, <2>3 DEF Coming, Publishing, D!Detail, D!Kind
    <2>7. OnItsWay'
      BY <1>0, <1>1, <1>3, <2>2, <2>5, <2>6 DEF OnItsWay
    <2>8. Current'
      <3>1. ASSUME NEW t \in ServiceId \ (lost \cup overlapped \cup hasty),
                   publication[t] # NoItem,
                   NEW x \in D!Detail, Publishing(x, t), InFlight(x)'
            PROVE  x.data = publication[t].data /\ <<"publication", t>> \notin changed'
        <4>1. CASE t = s
          BY <1>0, <1>5, <2>1, <2>2, <2>3, <3>1, <4>1 DEF Current
        <4>2. CASE t # s
          <5>1. InFlight(x)
            BY <2>3, <2>4, <3>1, <4>2
          <5>2. QED
            BY <1>0, <2>2, <3>1, <4>2, <5>1 DEF Current
        <4>3. QED
          BY <4>1, <4>2
      <3>2. ASSUME NEW t \in ServiceId \ (lost \cup overlapped \cup hasty),
                   publication[t] # NoItem
            PROVE  \/ <<"publication", t>> \in changed'
                   \/ Coming(t)'
                   \/ detail[t].data = publication[t].data
        BY <1>0, <2>2, <2>5, <2>6, <3>2 DEF Current
      <3>3. D!Detail' = D!Detail /\ \A t, x : Publishing(x, t)' <=> Publishing(x, t)
        BY DEF D!Detail, D!Kind, Publishing
      <3>4. QED
        BY <1>1, <3>1, <3>2, <3>3 DEF Current
    <2>9. QED
      BY <1>2, <2>7, <2>8 DEF Showing
  <1>6. QED
    BY <1>4, <1>5, Sent

LEMMA ShowingStart ==
  ASSUME DetailShape, Showing,
         NEW h \in Handler, NEW m \in requestDetail, D!StartDetail(h, m)
  PROVE  Showing'
  <1> USE DetailKnown
  <1>0. D!TypeOK /\ Alone /\ Decided /\ OnItsWay /\ Current
    BY DEF DetailShape, Showing
  <1>1. /\ UNCHANGED <<lifecycle, publication, writes, changed, lost, detail,
                       faults, hasty>>
        /\ requestDetail' = requestDetail \ {m}
        /\ handling[h] = Idle
        /\ handling' = [handling EXCEPT ![h] =
              [message |-> m, upsert |-> D!shouldUpsertServiceDetails(m)]]
    BY DEF D!StartDetail, D!containers
  <1>2. overlapped \subseteq overlapped'
        /\ ((\E g \in Handler : handling[g] # Idle /\ handling[g].message.id = m.id)
              => m.id \in overlapped')
    BY DEF D!StartDetail
  <1>3. m \in D!Detail /\ D!shouldUpsertServiceDetails(m) \in BOOLEAN
    BY <1>0 DEF D!shouldUpsertServiceDetails, D!IsPublication
  <1>4. [message |-> m, upsert |-> D!shouldUpsertServiceDetails(m)] # Idle
    <2>1. [message |-> m, upsert |-> D!shouldUpsertServiceDetails(m)] \in Handling
      BY <1>3 DEF Handling
    <2>2. QED
      BY <2>1, Markers
  <1>5. /\ handling'[h] # Idle /\ handling'[h].message = m
        /\ handling'[h].upsert <=> D!shouldUpsertServiceDetails(m)
        /\ \A g \in Handler \ {h} : handling'[g] = handling[g]
    BY <1>0, <1>1, <1>4
  <1>6. \A x : InFlight(x)' <=> InFlight(x)
    BY <1>1, <1>5 DEF InFlight, Handles
  <1>7. \A t : Coming(t)' <=> Coming(t)
    BY <1>6, ComingKept
  <1>8. \A t \in ServiceId : D!IsPublication(detail[t])' <=> D!IsPublication(detail[t])
    BY <1>1 DEF D!IsPublication
  <1>9. Alone'
    BY <1>0, <1>2, <1>5 DEF Alone
  <1>10. Decided'
    <2>1. /\ m.kind = "publication" => handling'[h].upsert
          /\ m.kind = "lifecycle" /\ handling'[h].upsert =>
               ~ D!IsPublication(detail[m.id])
      BY <1>5 DEF D!shouldUpsertServiceDetails
    <2>2. ASSUME NEW g \in Handler, handling'[g] # Idle
          PROVE  /\ handling'[g].message.kind = "publication" => handling'[g].upsert
                 /\ handling'[g].message.kind = "lifecycle" /\ handling'[g].upsert =>
                      \/ handling'[g].message.id \in overlapped'
                      \/ ~ D!IsPublication(detail[handling'[g].message.id])
      <3>1. CASE g = h
        BY <1>5, <2>1, <3>1
      <3>2. CASE g # h
        BY <1>0, <1>2, <1>5, <2>2, <3>2 DEF Decided
      <3>3. QED
        BY <3>1, <3>2
    <2>3. detail' = detail
      BY <1>1
    <2>4. QED
      BY <2>2, <2>3 DEF Decided, D!IsPublication
  <1>11. OnItsWay'
    BY <1>0, <1>1, <1>2, <1>7, <1>8 DEF OnItsWay
  <1>12. Current'
    BY <1>0, <1>1, <1>2, <1>6, <1>7 DEF Current
  <1>13. QED
    BY <1>9, <1>10, <1>11, <1>12 DEF Showing

\* A handler that ends, or fails, leaves one handler less.
LEMMA ShowingFail ==
  ASSUME DetailShape, Showing, NEW h \in Handler, D!FailDetail(h)
  PROVE  Showing'
  <1> USE DetailKnown
  <1>0. D!TypeOK /\ Alone /\ Decided /\ OnItsWay /\ Current
    BY DEF DetailShape, Showing
  <1>1. /\ UNCHANGED <<lifecycle, publication, writes, changed, lost, detail,
                       overlapped, hasty>>
        /\ handling[h] # Idle
        /\ requestDetail' = requestDetail \cup {handling[h].message}
        /\ handling' = [handling EXCEPT ![h] = Idle]
    BY DEF D!FailDetail, D!containers
  <1>2. /\ handling'[h] = Idle
        /\ \A g \in Handler \ {h} : handling'[g] = handling[g]
    BY <1>0, <1>1
  <1>3. \A x : InFlight(x)' <=> InFlight(x)
    BY <1>1, <1>2 DEF InFlight, Handles
  <1>4. \A t : Coming(t)' <=> Coming(t)
    BY <1>3, ComingKept
  <1>5. \A x : D!IsPublication(x)' <=> D!IsPublication(x)
    BY DEF D!IsPublication
  <1>6. Alone'
    BY <1>0, <1>1, <1>2 DEF Alone
  <1>7. Decided'
    BY <1>0, <1>1, <1>2 DEF Decided, D!IsPublication
  <1>8. OnItsWay'
    BY <1>0, <1>1, <1>4 DEF OnItsWay, D!IsPublication
  <1>9. Current'
    BY <1>0, <1>1, <1>3, <1>4 DEF Current
  <1>10. QED
    BY <1>6, <1>7, <1>8, <1>9 DEF Showing

LEMMA ShowingGiveUp ==
  ASSUME DetailShape, Showing, NEW m \in requestDetail, D!GiveUp(m)
  PROVE  Showing'
  <1> USE DetailKnown
  <1>0. D!TypeOK /\ Alone /\ Decided /\ OnItsWay /\ Current
    BY DEF DetailShape, Showing
  <1>1. /\ UNCHANGED <<lifecycle, publication, writes, changed, handling, detail,
                       overlapped, hasty>>
        /\ requestDetail' = requestDetail \ {m}
        /\ lost' = lost \cup {m.id}
    BY DEF D!GiveUp, D!containers
  <1>2. \A t, x : Publishing(x, t) /\ t # m.id => (InFlight(x)' <=> InFlight(x))
    BY <1>1 DEF InFlight, Handles, Publishing
  <1>3. \A t : t # m.id => (Coming(t)' <=> Coming(t))
    BY <1>2, ComingKept
  <1>4. Alone' /\ Decided'
    BY <1>0, <1>1 DEF Alone, Decided, D!IsPublication
  <1>5. OnItsWay'
    BY <1>0, <1>1, <1>3 DEF OnItsWay, D!IsPublication
  <1>6. Current'
    BY <1>0, <1>1, <1>2, <1>3 DEF Current
  <1>7. QED
    BY <1>4, <1>5, <1>6 DEF Showing

LEMMA ShowingEnd ==
  ASSUME DetailShape, Showing, NEW h \in Handler, D!EndDetail(h)
  PROVE  Showing'
  <1> USE DetailKnown
  <1>0. D!TypeOK /\ Alone /\ Decided /\ OnItsWay /\ Current
        /\ detail \in [ServiceId -> D!Detail \cup {NoItem}]
    BY DEF DetailShape, Showing
  <1> DEFINE m == handling[h].message
  <1> DEFINE upsert == handling[h].upsert
  <1>1. /\ UNCHANGED <<lifecycle, publication, writes, changed, lost, overlapped,
                       hasty>>
        /\ handling[h] # Idle
        /\ detail' = IF upsert THEN [detail EXCEPT ![m.id] = m] ELSE detail
        /\ requestDetail' \in {requestDetail, requestDetail \cup {m}}
        /\ handling' = [handling EXCEPT ![h] = Idle]
    BY DEF D!EndDetail, D!containers
  <1>2. /\ handling'[h] = Idle
        /\ \A g \in Handler \ {h} : handling'[g] = handling[g]
    BY <1>0, <1>1
  <1>3. m \in D!Detail /\ m.id \in ServiceId /\ m.kind \in D!Kind /\ upsert \in BOOLEAN
    BY <1>0, <1>1, HandlingTyped
  <1>4. /\ m.kind = "publication" => upsert
        /\ m.kind = "lifecycle" /\ upsert =>
             m.id \in overlapped \/ ~ D!IsPublication(detail[m.id])
    BY <1>0, <1>1 DEF Decided
  <1>5. InFlight(m)
    BY <1>1 DEF InFlight, Handles
  <1>6. \A g \in Handler \ {h} : handling[g] # Idle =>
          handling[g].message.id # m.id \/ m.id \in overlapped
    BY <1>0, <1>1 DEF Alone
  <1>7. \A x : /\ InFlight(x)' => InFlight(x)
               /\ InFlight(x) => InFlight(x)' \/ x = m
    BY <1>1, <1>2 DEF InFlight, Handles
  <1> HIDE DEF m, upsert
  <1>8. Alone'
    BY <1>0, <1>1, <1>2 DEF Alone
  <1>9. \A t \in ServiceId : t # m.id => detail'[t] = detail[t]
    BY <1>0, <1>1
  <1>10. /\ upsert => detail'[m.id] = m
         /\ ~ upsert => detail'[m.id] = detail[m.id]
    BY <1>0, <1>1, <1>3
  <1>11. m # NoItem
    BY <1>3, Markers
  <1>12. Decided'
    <2>1. ASSUME NEW g \in Handler, handling'[g] # Idle
          PROVE  /\ handling'[g].message.kind = "publication" => handling'[g].upsert
                 /\ handling'[g].message.kind = "lifecycle" /\ handling'[g].upsert =>
                      \/ handling'[g].message.id \in overlapped
                      \/ ~ D!IsPublication(detail'[handling'[g].message.id])
      <3>1. g \in Handler \ {h} /\ handling'[g] = handling[g] /\ handling[g] # Idle
        BY <1>2, <2>1
      <3>2. handling[g].message.id \in ServiceId
        BY <1>0, <3>1, HandlingTyped
      <3>3. handling[g].message.id \in overlapped
            \/ detail'[handling[g].message.id] = detail[handling[g].message.id]
        BY <1>6, <1>9, <3>1, <3>2
      <3>4. /\ handling[g].message.kind = "publication" => handling[g].upsert
            /\ handling[g].message.kind = "lifecycle" /\ handling[g].upsert =>
                 \/ handling[g].message.id \in overlapped
                 \/ ~ D!IsPublication(detail[handling[g].message.id])
        BY <1>0, <3>1 DEF Decided
      <3>5. QED
        BY <3>1, <3>3, <3>4
    <2>2. QED
      BY <1>1, <2>1 DEF Decided, D!IsPublication
  <1>13. \A t, x : Publishing(x, t) /\ (t # m.id \/ m.kind = "lifecycle") =>
            (InFlight(x)' <=> InFlight(x))
    BY <1>7 DEF Publishing
  <1>14. \A t : t # m.id \/ m.kind = "lifecycle" => (Coming(t)' <=> Coming(t))
    BY <1>13, ComingKept
  <1>15. m.kind = "publication" =>
            detail'[m.id] = m /\ D!IsPublication(detail'[m.id]) /\ Publishing(m, m.id)
    BY <1>4, <1>10, <1>11 DEF D!IsPublication, Publishing
  <1>16. m.kind = "lifecycle" /\ m.id \notin overlapped =>
            \/ ~ D!IsPublication(detail[m.id])
            \/ detail'[m.id] = detail[m.id]
    BY <1>3, <1>4, <1>10
  <1>17. m.kind = "publication" \/ m.kind = "lifecycle"
    BY <1>3 DEF D!Kind
  <1>18. OnItsWay'
    <2>1. ASSUME NEW t \in ServiceId \ (lost \cup overlapped), publication[t] # NoItem
          PROVE  \/ <<"publication", t>> \in changed
                 \/ Coming(t)'
                 \/ D!IsPublication(detail'[t])
      <3>1. \/ <<"publication", t>> \in changed
            \/ Coming(t)
            \/ D!IsPublication(detail[t])
        BY <1>0, <2>1 DEF OnItsWay
      <3>2. QED
        BY <1>9, <1>14, <1>15, <1>16, <1>17, <2>1, <3>1
    <2>2. QED
      BY <1>1, <2>1 DEF OnItsWay, D!IsPublication
  <1>19. Current'
    <2>1. ASSUME NEW t \in ServiceId \ (lost \cup overlapped \cup hasty),
                 publication[t] # NoItem
          PROVE  /\ \A x \in D!Detail : Publishing(x, t) /\ InFlight(x)' =>
                      x.data = publication[t].data /\ <<"publication", t>> \notin changed
                 /\ \/ <<"publication", t>> \in changed
                    \/ Coming(t)'
                    \/ detail'[t].data = publication[t].data
      <3>1. /\ \A x \in D!Detail : Publishing(x, t) /\ InFlight(x) =>
                 x.data = publication[t].data /\ <<"publication", t>> \notin changed
            /\ \/ <<"publication", t>> \in changed
               \/ Coming(t)
               \/ detail[t].data = publication[t].data
        BY <1>0, <2>1 DEF Current
      <3>2. \/ <<"publication", t>> \in changed
            \/ Coming(t)
            \/ D!IsPublication(detail[t])
        BY <1>0, <2>1 DEF OnItsWay
      <3>3. m.kind = "publication" /\ m.id = t =>
              detail'[t].data = publication[t].data
        BY <1>3, <1>5, <1>15, <3>1
      <3>4. \/ <<"publication", t>> \in changed
            \/ Coming(t)'
            \/ detail'[t].data = publication[t].data
        BY <1>9, <1>14, <1>16, <1>17, <2>1, <3>1, <3>2, <3>3
      <3>5. QED
        BY <1>7, <3>1, <3>4
    <2>2. D!Detail' = D!Detail /\ \A t, x : Publishing(x, t)' <=> Publishing(x, t)
      BY DEF D!Detail, D!Kind, Publishing
    <2>3. QED
      BY <1>1, <2>1, <2>2 DEF Current
  <1>20. QED
    BY <1>8, <1>12, <1>18, <1>19 DEF Showing

LEMMA ShowingStep ==
  ASSUME DetailShape, Showing, [Next]_vars
  PROVE  Showing'
  <1>1. ASSUME UNCHANGED detailVars
        PROVE  Showing'
    BY <1>1 DEF detailVars, Showing, Alone, Decided, OnItsWay, Current, Coming,
                InFlight, Handles, Publishing, D!IsPublication, D!Detail, D!Kind
  <1>2. CASE Details
    BY <1>2, DetailSteps, ShowingWatchers, ShowingStart, ShowingEnd, ShowingFail,
       ShowingGiveUp
  <1>3. QED
    BY <1>1, <1>2, Steps, EventSteps, ShowingWrites
       DEF WritePublication, DeletePublication, vars

\* When all has settled, a service that is in the publication container and no
\* message of which was given up is shown as its publication, and not as a draft,
\* unless two handlers worked on it at once; and as its last publication, unless
\* it was published again before the one before was shown.
THEOREM ShownCorrect == Spec => []PublicationIsShown
  <1>1. Init => DetailShape /\ Showing
    BY DetailShapeInit, ShowingInit
  <1>2. DetailShape /\ Showing /\ [Next]_vars => (DetailShape /\ Showing)'
    BY DetailShapeStep, ShowingStep
  <1>3. Showing => PublicationIsShown
    <2>1. ASSUME Showing, D!Settled,
                 NEW s \in ServiceId \ (lost \cup overlapped), publication[s] # NoItem
          PROVE  D!IsPublication(detail[s])
                 /\ (s \in hasty \/ detail[s].data = publication[s].data)
      <3>1. <<"publication", s>> \notin changed /\ ~ Coming(s)
        BY <2>1 DEF D!Settled, Coming, InFlight, Handles
      <3>2. QED
        BY <2>1, <3>1 DEF Showing, OnItsWay, Current
    <2>2. QED
      BY <2>1 DEF PublicationIsShown, D!PublicationIsShown
  <1>4. QED
    BY <1>1, <1>2, <1>3, PTL DEF Spec

\* When all has settled, the app and the data lake saw the same version of a
\* published service last, although neither waits for the other.
THEOREM AgreeCorrect == Spec => []ProjectionsAgree
  <1>1. Init => Shape /\ Showing /\ Ingested /\ Ordered
    BY ShapeInit, ShowingInit, EventsInit
  <1>2. Shape /\ Showing /\ Ingested /\ Ordered /\ [Next]_vars =>
          (Shape /\ Showing /\ Ingested /\ Ordered)'
    BY ShapeStep, ShapeKnown, ShowingStep, EventsStep
  <1>3. Shape /\ Showing /\ Ordered => ProjectionsAgree
    <2>1. ASSUME Shape, Showing, Ordered, D!Settled, fresh = {}, retries = {},
                 NEW s \in ServiceId \ (lost \cup overlapped \cup hasty \cup retried
                                          \cup skipped),
                 publication[s] # NoItem
          PROVE  /\ detail[s] # NoItem /\ topic[s] # <<>>
                 /\ Last(topic[s]).data = detail[s].data
      <3>1. <<"publication", s>> \notin changed /\ ~ Coming(s)
        BY <2>1 DEF D!Settled, Coming, InFlight, Handles
      <3>2. D!IsPublication(detail[s]) /\ detail[s].data = publication[s].data
        BY <2>1, <3>1 DEF Showing, OnItsWay, Current
      <3>3. topic[s] # <<>> /\ Last(topic[s]) = I!EventOf(s)
        BY <2>1 DEF Ordered
      <3>4. I!EventOf(s).data = publication[s].data
        BY DEF I!EventOf
      <3>5. detail[s] # NoItem
        BY <3>2 DEF D!IsPublication
      <3>6. QED
        BY <3>2, <3>3, <3>4, <3>5
    <2>2. QED
      BY <2>1 DEF ProjectionsAgree
  <1>4. QED
    BY <1>1, <1>2, <1>3, PTL DEF Spec
===============================================================================
