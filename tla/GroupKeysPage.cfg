\* Three subscriptions on two pages, three calls in flight, one of which may fail.
SPECIFICATION Spec
CONSTANTS
  k1 = k1
  k2 = k2
  k3 = k3
  Listed <- ThreeKeys
  Limit = 2
  Call = {c1, c2, c3}
  NoKey = NoKey
  NoData = NoData
  MaxAct = 4
  MaxFault = 1
SYMMETRY Symmetry
INVARIANTS TypeOK ListAgrees KeysShownAreCurrent
CHECK_DEADLOCK FALSE
