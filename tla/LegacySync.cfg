\* One service that people of both systems change, and one fault.
SPECIFICATION FairSpec
CONSTANTS
  ServiceId = {s1}
  NoItem = NoItem
  Tick = {1}
  Second = 3
  MaxChange = 2
  MaxFault = 1
INVARIANTS TypeOK NoEcho HistoryHoldsLatest SettledAgrees
PROPERTIES LegacyChangeArrives
CHECK_DEADLOCK FALSE
