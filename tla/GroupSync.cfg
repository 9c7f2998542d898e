\* Two groups, two services, and a watcher that may stop.
SPECIFICATION FairSpec
CONSTANTS
  Group = {g1, g2}
  ServiceId = {s1, s2}
  NoItem = NoItem
  NoGroup = NoGroup
  Idle = Idle
  Name = {n1, n2}
  MaxEvent = 3
  MaxEdit = 1
  MaxFault = 1
INVARIANTS TypeOK KeysFollowGroups DeletedGroupHasNoService ChoiceStands
PROPERTIES CancelledStaysCancelled RevocationArrives
CHECK_DEADLOCK FALSE
