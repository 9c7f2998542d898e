\* A request of review delivered again after its ticket was approved.
SPECIFICATION Spec
CONSTANTS
  ServiceId = {s1}
  Data = {d1}
  Group = {}
  User = {u1}
  Validator = {v1}
  Reviewer = {r1}
  NoGroup = NoGroup
  NoItem = NoItem
  Idle = Idle
  MaxVersion = 3
  MaxDequeue = 2
  MaxTicket = 2
  MaxFault = 1
INVARIANTS TicketIsReferenced
SYMMETRY Symmetry
CHECK_DEADLOCK FALSE
