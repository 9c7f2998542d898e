\* Calls that fail, instances that stop, messages delivered again, two reviews.
SPECIFICATION FairSpec
CONSTANTS
  ServiceId = {s1}
  Data = {d1}
  Group = {}
  User = {u1}
  Validator = {v1}
  Reviewer = {r1}
  NoGroup = NoGroup
  NoItem = NoItem
  Idle = Idle
  MaxVersion = 5
  MaxDequeue = 2
  MaxTicket = 4
  MaxFault = 2
INVARIANTS TypeOK SubmittedIsTracked ApprovedWasSubmitted
PROPERTIES DecidedWasReviewed ReviewEnds
CHECK_DEADLOCK FALSE
