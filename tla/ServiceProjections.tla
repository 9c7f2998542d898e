------------------------- MODULE ServiceProjections --------------------------
(***************************************************************************)
(* What the rest of the platform sees of a service: its detail             *)
(* (ServiceDetail) and the events of its publications (Ingestion).         *)
(*                                                                         *)
(* Both follow the publication container, each through a watcher with a    *)
(* lease of its own, and neither waits for the other.                      *)
(***************************************************************************)
EXTENDS Naturals, SequencesExt

CONSTANTS ServiceId, NoItem, Idle, Handler, MaxWrite, MaxFault, MaxBreak

VARIABLES
  lifecycle, publication, changed, requestDetail, handling, detail, writes,
  faults, lost, overlapped, hasty,                   \* see ServiceDetail
  fresh, retries, topic, breaks, retried, skipped    \* see Ingestion

detailVars == <<lifecycle, publication, changed, requestDetail, handling, detail,
                writes, faults, lost, overlapped, hasty>>
ingestionVars == <<fresh, retries, topic, breaks, retried, skipped>>
vars == <<detailVars, ingestionVars>>

D == INSTANCE ServiceDetail
I == INSTANCE Ingestion WITH container <- publication

ASSUME BoundAssumption == MaxWrite \in Nat /\ MaxFault \in Nat /\ MaxBreak \in Nat
ASSUME MarkerAssumption ==
  /\ NoItem \notin D!Document({"draft", "other", "published", "unpublished"}) \cup D!Detail
  /\ Idle \notin [message : D!Detail, upsert : BOOLEAN]

-----------------------------------------------------------------------------
WriteLifecycle ==
  (\E s \in ServiceId : D!WriteLifecycle(s)) /\ UNCHANGED ingestionVars

WritePublication(s) ==
  /\ D!WritePublication(s)
  /\ fresh' = fresh \cup {s}
  /\ UNCHANGED <<retries, topic, breaks, retried, skipped>>

DeletePublication(s) ==
  /\ D!DeletePublication(s)
  /\ fresh' = fresh \ {s}
  /\ UNCHANGED <<retries, topic, breaks, retried, skipped>>

Details == D!Follow /\ UNCHANGED ingestionVars
Events == I!Follow /\ UNCHANGED detailVars

Init == D!Init /\ I!Init

Next ==
  \/ WriteLifecycle
  \/ \E s \in ServiceId : WritePublication(s) \/ DeletePublication(s)
  \/ Details
  \/ Events

Spec == Init /\ [][Next]_vars

FairSpec == Spec /\ D!Fairness /\ I!Fairness

-----------------------------------------------------------------------------
(* Properties                                                               *)

\* The shape of both projections.
TypeOK == D!TypeOK /\ I!TypeOK

\* The app shows the publication, not a draft (see ServiceDetail).
PublicationIsShown == D!PublicationIsShown

\* The data lake misses no document (see Ingestion).
LatestIsIngested == I!LatestIsIngested

\* A publication reaches the details (see ServiceDetail).
PublicationArrives == D!PublicationArrives

\* When all has settled, the app and the data lake saw the same version of a
\* service last, whatever order the two followed its changes in, if nothing
\* failed on its way and each publication waited for the one before.
ProjectionsAgree ==
  D!Settled /\ fresh = {} /\ retries = {} =>
    \A s \in ServiceId \ (lost \cup overlapped \cup hasty \cup retried \cup skipped) :
      publication[s] # NoItem =>
        /\ detail[s] # NoItem /\ topic[s] # <<>>
        /\ Last(topic[s]).data = detail[s].data
=============================================================================
