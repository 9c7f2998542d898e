\* A service is bound to a group after its owner unpublished it.
SPECIFICATION PatientSpec
CONSTANTS
  ServiceId = {s1}
  Data = {d1}
  Group = {g1}
  Client = {c1}
  Worker = {w1}
  Caller = {u1}
  NoGroup = NoGroup
  NoItem = NoItem
  Idle = Idle
  MaxVersion = 4
  MaxDequeue = 2
INVARIANTS UnpublishHolds
SYMMETRY Symmetry
CHECK_DEADLOCK FALSE
