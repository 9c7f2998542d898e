\* Requests that overlap: the store follows the README's diagram from what each
\* of them read.
SPECIFICATION Spec
CONSTANTS
  ServiceId = {s1}
  Data = {d1}
  Group = {g1}
  Client = {c1, c2}
  NoGroup = NoGroup
  NoItem = NoItem
  Idle = Idle
  MaxVersion = 5
INVARIANTS TypeOK
PROPERTIES FollowsDiagram DeletionSettles
CHECK_DEADLOCK FALSE
