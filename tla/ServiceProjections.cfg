\* Two services, two handlers, and two faults of each projection.
SPECIFICATION FairSpec
CONSTANTS
  ServiceId = {s1, s2}
  NoItem = NoItem
  Idle = Idle
  Handler = {h1, h2}
  MaxWrite = 2
  MaxFault = 2
  MaxBreak = 2
INVARIANTS TypeOK PublicationIsShown LatestIsIngested ProjectionsAgree
PROPERTIES PublicationArrives
CHECK_DEADLOCK FALSE
