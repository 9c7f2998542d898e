\* A deletion overtakes the release of the same service.
SPECIFICATION Spec
CONSTANTS
  ServiceId = {s1}
  Data = {d1}
  Group = {}
  Client = {c1}
  Worker = {w1}
  Caller = {u1}
  NoGroup = NoGroup
  NoItem = NoItem
  Idle = Idle
  MaxVersion = 4
  MaxDequeue = 2
INVARIANTS DeletedIsNotPublished
SYMMETRY Symmetry
CHECK_DEADLOCK FALSE
