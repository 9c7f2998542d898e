\* Requests that overlap with one another and with the queues.
SPECIFICATION FairSpec
CONSTANTS
  ServiceId = {s1}
  Data = {d1, d2}
  Group = {g1}
  Client = {c1}
  Worker = {w1}
  Caller = {u1}
  NoGroup = NoGroup
  NoItem = NoItem
  Idle = Idle
  MaxVersion = 4
  MaxDequeue = 2
INVARIANTS TypeOK PublishedWasSubmitted SettledAgrees
PROPERTIES DeletionIsPropagated ApprovalIsPropagated
CHECK_DEADLOCK FALSE
