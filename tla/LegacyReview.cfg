\* One service, two tickets, two messages at once, two faults.
SPECIFICATION FairSpec
CONSTANTS
  ServiceId = {s1}
  NoItem = NoItem
  Idle = Idle
  Handler = {h1, h2}
  MaxTicket = 2
  MaxChange = 2
  MaxRow = 4
  MaxFault = 2
INVARIANTS TypeOK SubmittedIsTracked DeletedStaysDeleted
PROPERTIES VerdictArrives
CHECK_DEADLOCK FALSE
